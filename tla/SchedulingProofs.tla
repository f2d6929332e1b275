-------------------------- MODULE SchedulingProofs ---------------------------
(***************************************************************************)
(* The store's guarantees, for every set of runs, repositories and owners   *)
(* and whatever the clients of the store do.                                *)
(***************************************************************************)
EXTENDS Scheduling, FiniteSetTheorems, TLAPS

\* The inductive invariant.  PermitUnderSlot is not inductive alone: a
\* reconciliation keeps a permit's slot only because the slot's holder is
\* active (SlotAuthority), and a reservation cannot overwrite a slot.
StoreInv == TypeOK /\ SlotAuthority /\ PermitUnderSlot /\ ActiveOwnsSlot

-----------------------------------------------------------------------------
\* Initially there are no slots and no permits.
LEMMA InitInv == StoreInit => StoreInv
BY RunsAssumption, NoRunAssumption, CapacityAssumption
DEF StoreInit, StoreInv, TypeOK, SlotAuthority, PermitUnderSlot, ActiveOwnsSlot, Active,
    HasPermit, OwnsSlot, NoLease, NoPermit, NoRow, Phase, AttemptStatus, SupervisorState

\* A step that leaves phases, slots and permits alone, or changes a permit of
\* a run that keeps it, preserves the authority invariants.
LEMMA FrameInv ==
  ASSUME StoreInv, TypeOK', UNCHANGED <<phase, slot>>,
         \A r \in Runs : permit'[r].owner # 0 => permit[r].owner # 0
  PROVE  StoreInv'
BY DEF StoreInv, SlotAuthority, PermitUnderSlot, ActiveOwnsSlot, Active, HasPermit, OwnsSlot

\* Adopting a permit changes its owner only.
LEMMA AdoptInv ==
  ASSUME StoreInv, NEW r \in Runs, NEW o \in Nat \ {0}, AdoptPermit(r, o)
  PROVE  StoreInv'
<1>1. TypeOK'
  BY BoundsAssumption DEF StoreInv, TypeOK, AdoptPermit
<1>2. \A q \in Runs : permit'[q].owner # 0 => permit[q].owner # 0
  BY DEF StoreInv, TypeOK, AdoptPermit, Adoptable
<1> QED
  BY <1>1, <1>2, FrameInv DEF AdoptPermit

\* A grant needs the slot.
LEMMA GrantInv ==
  ASSUME StoreInv, NEW r \in Runs, NEW o \in Nat \ {0}, GrantPermit(r, o)
  PROVE  StoreInv'
<1>1. PICK v \in 1..MaxVersion : permit' = [permit EXCEPT ![r] = [owner |-> o, ver |-> v]]
  BY DEF GrantPermit
<1>2. TypeOK'
  BY <1>1, BoundsAssumption
  DEF StoreInv, TypeOK, GrantPermit, InState, SupervisorState
<1> QED
  BY <1>1, <1>2
  DEF StoreInv, TypeOK, GrantPermit, Grantable, SlotAuthority, PermitUnderSlot,
      ActiveOwnsSlot, Active, HasPermit, OwnsSlot

\* A reservation takes a free slot, so no other run's slot or permit is hurt.
LEMMA ReserveInv ==
  ASSUME StoreInv, NEW r \in Runs, NEW o \in Nat \ {0}, ReserveRun(r, o)
  PROVE  StoreInv'
<1>1. PICK v \in 1..MaxVersion : permit' = [permit EXCEPT ![r] = [owner |-> o, ver |-> v]]
  BY DEF ReserveRun
<1>2. TypeOK'
  <2>1. phase' \in [Runs -> Phase] /\ slot' \in [Bindings -> Runs \cup {NoRun}]
    BY BindingAssumption DEF StoreInv, TypeOK, ReserveRun, Phase
  <2>2. permit' \in [Runs -> [owner : Nat, ver : Nat]]
    BY <1>1, BoundsAssumption DEF StoreInv, TypeOK
  <2>3. sched' \in [Runs -> [sup : SupervisorState, since : Nat, quar : BOOLEAN]]
    BY DEF StoreInv, TypeOK, ReserveRun, SupervisorState
  <2> QED
    BY <2>1, <2>2, <2>3 DEF StoreInv, TypeOK, ReserveRun
<1>3. SlotAuthority'
  BY BindingAssumption, RunsAssumption, NoRunAssumption
  DEF StoreInv, TypeOK, ReserveRun, SlotAuthority, Active
<1>4. PermitUnderSlot'
  BY <1>1, BindingAssumption, RunsAssumption, NoRunAssumption
  DEF StoreInv, TypeOK, ReserveRun, Reservable, PermitUnderSlot, HasPermit, OwnsSlot
<1>5. ActiveOwnsSlot'
  BY BindingAssumption, RunsAssumption, NoRunAssumption
  DEF StoreInv, TypeOK, ReserveRun, Reservable, ActiveOwnsSlot, Active, OwnsSlot
<1> QED
  BY <1>2, <1>3, <1>4, <1>5 DEF StoreInv

\* A change of phase keeps the authorities, and a terminal one gives all of the
\* run's authorities up together.
LEMMA SetPhaseInv ==
  ASSUME StoreInv, NEW r \in Runs, NEW q \in Phase \ {"absent"}, SetPhase(r, q),
         q = "terminal" \/ Active(r),
         lease' \in [Runs -> [by : Nat, exp : Nat]], attempt' \in [Runs -> AttemptStatus]
  PROVE  StoreInv'
<1>1. CASE q = "terminal"
  <2>1. TypeOK'
    <3>1. phase' \in [Runs -> Phase] /\ attn' \in [Runs -> BOOLEAN]
      BY DEF StoreInv, TypeOK, SetPhase
    <3>2. slot' \in [Bindings -> Runs \cup {NoRun}]
      BY <1>1 DEF StoreInv, TypeOK, SetPhase, ReleaseTerminalAuthority, TerminalRow
    <3>3. ReleaseTerminalAuthority(r)
      BY <1>1 DEF SetPhase
    <3>4. permit' \in [Runs -> [owner : Nat, ver : Nat]]
      BY <3>3 DEF StoreInv, TypeOK, ReleaseTerminalAuthority, TerminalRow, NoPermit
    <3>5. sched' \in [Runs -> [sup : SupervisorState, since : Nat, quar : BOOLEAN]]
      BY <3>3 DEF StoreInv, TypeOK, ReleaseTerminalAuthority, TerminalRow, SupervisorState
    <3> QED
      BY <3>1, <3>2, <3>4, <3>5 DEF StoreInv, TypeOK, SetPhase
  <2> QED
    BY <1>1, <2>1, RunsAssumption, NoRunAssumption, BindingAssumption
    DEF StoreInv, TypeOK, SetPhase, ReleaseTerminalAuthority, TerminalRow, SlotAuthority,
        PermitUnderSlot, ActiveOwnsSlot, Active, HasPermit, OwnsSlot, NoPermit
<1>2. CASE q # "terminal"
  BY <1>2
  DEF StoreInv, TypeOK, SetPhase, SlotAuthority, PermitUnderSlot,
      ActiveOwnsSlot, Active, HasPermit, OwnsSlot
<1> QED
  BY <1>1, <1>2

\* A transition of a nonterminal run is such a change.
LEMMA TransitionInv ==
  ASSUME StoreInv, NEW r \in Runs, NEW q \in Phase \ {"absent"}, Transition(r, q)
  PROVE  StoreInv'
BY SetPhaseInv DEF StoreInv, TypeOK, Transition

\* What reconciling writes, whatever happens to the capacity beside it.
Reconciles ==
  /\ slot' = [b \in Bindings |-> ReconciledSlot(b)]
  /\ permit' = [r \in Runs |-> ReconciledPermit(r)]
  /\ sched' = [r \in Runs |-> ReconciledRow(r)]
  /\ UNCHANGED <<phase, attn, lease, attempt, now>>
  /\ capacity' \in 1..MaxCapacity

\* Under SlotAuthority reconciliation never takes a slot from its holder.
LEMMA ReconcileKeepsSlots ==
  ASSUME StoreInv, Reconciles
  PROVE  /\ slot' \in [Bindings -> Runs \cup {NoRun}]
         /\ \A b \in Bindings : slot[b] # NoRun => slot'[b] = slot[b]
         /\ \A b \in Bindings : slot[b] = NoRun /\ slot'[b] # NoRun =>
              Active(slot'[b]) /\ BindingOf[slot'[b]] = b
BY DEF StoreInv, TypeOK, SlotAuthority, Reconciles, ReconciledSlot,
       LiveSlot, Settled, Active

\* Reconciliation rewrites every row within its type.
LEMMA ReconcileTypes ==
  ASSUME TypeOK, Reconciles, slot' \in [Bindings -> Runs \cup {NoRun}]
  PROVE  TypeOK'
<1>1. permit' \in [Runs -> [owner : Nat, ver : Nat]]
  BY DEF TypeOK, Reconciles, ReconciledPermit, NoPermit
<1>2. ASSUME NEW r \in Runs
      PROVE  ReconciledRow(r) \in [sup : SupervisorState, since : Nat, quar : BOOLEAN]
  <2>1. ReconciledSince(r) \in Nat
    BY DEF TypeOK, ReconciledSince
  <2>2. ReconciledState(r) \in SupervisorState
    BY DEF ReconciledState, SupervisorState
  <2> QED
    BY <2>1, <2>2 DEF TypeOK, ReconciledRow, SupervisorState
<1> QED
  BY <1>1, <1>2 DEF TypeOK, Reconciles

\* Reconciliation gives slots only to settled runs and permits to nobody.
LEMMA ReconcileInv ==
  ASSUME StoreInv, Reconciles
  PROVE  StoreInv'
<1>1. TypeOK'
  BY ReconcileKeepsSlots, ReconcileTypes DEF StoreInv
<1>2. SlotAuthority'
  BY ReconcileKeepsSlots DEF StoreInv, SlotAuthority, Reconciles, Active
<1>3. PermitUnderSlot'
  <2> SUFFICES ASSUME NEW r \in Runs, permit'[r].owner # 0
               PROVE  slot'[BindingOf[r]] = r
    BY DEF PermitUnderSlot, HasPermit, OwnsSlot
  <2>1. permit[r].owner # 0
    BY DEF Reconciles, ReconciledPermit, NoPermit
  <2>2. slot[BindingOf[r]] = r
    BY <2>1 DEF StoreInv, PermitUnderSlot, HasPermit, OwnsSlot
  <2>3. BindingOf[r] \in Bindings /\ r # NoRun
    BY RunsAssumption, NoRunAssumption, BindingAssumption
  <2> QED
    BY <2>2, <2>3, ReconcileKeepsSlots
<1>4. ActiveOwnsSlot'
  <2> SUFFICES ASSUME NEW r \in Runs \ LegacyRuns, Active(r)
               PROVE  slot'[BindingOf[r]] = r
    BY DEF ActiveOwnsSlot, OwnsSlot, Reconciles, Active
  <2>1. slot[BindingOf[r]] = r
    BY DEF StoreInv, ActiveOwnsSlot, OwnsSlot
  <2>2. BindingOf[r] \in Bindings /\ r # NoRun
    BY RunsAssumption, NoRunAssumption, BindingAssumption
  <2> QED
    BY <2>1, <2>2, ReconcileKeepsSlots
<1> QED
  BY <1>1, <1>2, <1>3, <1>4 DEF StoreInv
-----------------------------------------------------------------------------
\* The remaining transactions touch neither phases nor slots and add no permit.
LEMMA ReleaseInv ==
  ASSUME StoreInv, NEW r \in Runs, NEW o \in Nat \ {0}, NEW v, NEW reason,
         ReleasePermit(r, o, v, reason)
  PROVE  StoreInv'
<1>1. permit' \in [Runs -> [owner : Nat, ver : Nat]]
  BY DEF StoreInv, TypeOK, ReleasePermit, NoPermit
<1>2. sched' \in [Runs -> [sup : SupervisorState, since : Nat, quar : BOOLEAN]]
  BY DEF StoreInv, TypeOK, ReleasePermit, InState, ReleasedState, SupervisorState
<1>3. TypeOK'
  BY <1>1, <1>2 DEF StoreInv, TypeOK, ReleasePermit
<1>4. \A q \in Runs : permit'[q].owner # 0 => permit[q].owner # 0
  BY DEF StoreInv, TypeOK, ReleasePermit, NoPermit
<1> QED
  BY <1>3, <1>4, FrameInv DEF ReleasePermit

\* Lease statements touch no authority.
LEMMA LeaseInv ==
  ASSUME StoreInv, NEW r \in Runs, NEW o \in Nat \ {0},
         AcquireLease(r, o) \/ RenewLease(r, o) \/ ReleaseLease(r, o)
  PROVE  StoreInv'
<1>1. lease' \in [Runs -> [by : Nat, exp : Nat]]
  BY BoundsAssumption, SMTT(30)
  DEF StoreInv, TypeOK, AcquireLease, RenewLease, ReleaseLease, TakenLease, ReleasedLease,
      NoLease
<1>2. UNCHANGED <<phase, attn, attempt, slot, permit, sched, capacity, now>>
  BY DEF AcquireLease, RenewLease, ReleaseLease
<1>3. TypeOK'
  BY <1>1, <1>2 DEF StoreInv, TypeOK
<1> QED
  BY <1>2, <1>3, FrameInv

\* Deferrals, attentions and attempt statements touch no authority.
LEMMA RowInv ==
  ASSUME StoreInv, NEW r \in Runs,
         \/ \E t \in Nat : DeferSchedulingRun(r, t)
         \/ AppendOperatorAttention(r)
         \/ BeginAttempt(r) \/ CommitAttemptProcessLaunch(r)
         \/ FinishAttempt(r) \/ FinishUnproven(r)
  PROVE  StoreInv'
<1>1. CASE \E t \in Nat : DeferSchedulingRun(r, t)
  <2>1. TypeOK'
    BY <1>1 DEF StoreInv, TypeOK, DeferSchedulingRun, SupervisorState
  <2> QED
    BY <1>1, <2>1, FrameInv DEF DeferSchedulingRun
<1>2. CASE AppendOperatorAttention(r)
  BY <1>2, FrameInv DEF StoreInv, TypeOK, AppendOperatorAttention
<1>3. CASE BeginAttempt(r) \/ CommitAttemptProcessLaunch(r) \/ FinishAttempt(r)
           \/ FinishUnproven(r)
  <2>1. TypeOK'
    BY <1>3 DEF StoreInv, TypeOK, BeginAttempt, CommitAttemptProcessLaunch, FinishAttempt,
                FinishUnproven, SetAttempt, AttemptStatus
  <2> QED
    BY <1>3, <2>1, FrameInv DEF BeginAttempt, CommitAttemptProcessLaunch, FinishAttempt,
                                FinishUnproven, SetAttempt
<1> QED
  BY <1>1, <1>2, <1>3

\* A step that leaves the store alone.
LEMMA StutterInv ==
  ASSUME StoreInv, UNCHANGED storeVars
  PROVE  StoreInv'
BY DEF storeVars, StoreInv, TypeOK, SlotAuthority, PermitUnderSlot, ActiveOwnsSlot, Active,
       HasPermit, OwnsSlot

\* Every step of every client preserves the invariant.
LEMMA NextInv == StoreInv /\ [StoreNext]_storeVars => StoreInv'
<1> SUFFICES ASSUME StoreInv, [StoreNext]_storeVars PROVE StoreInv'
  OBVIOUS
<1>1. ASSUME NEW r \in Runs, NEW o \in Owners, RunStep(r, o) PROVE StoreInv'
  BY <1>1, OwnersAssumption, AdoptInv, GrantInv, ReserveInv, LeaseInv, ReleaseInv DEF RunStep
<1>2. ASSUME NEW r \in Runs, RunRowStep(r) PROVE StoreInv'
  <2>1. now..MaxTime \subseteq Nat
    BY BoundsAssumption DEF StoreInv, TypeOK
  <2> QED
    BY <1>2, <2>1, TransitionInv, RowInv DEF RunRowStep
<1>3. CASE ReconcileSchedulingAuthorities
  BY <1>3, ReconcileInv DEF ReconcileSchedulingAuthorities, Reconciles, StoreInv, TypeOK
<1>4. ASSUME NEW c \in 1..MaxCapacity, ConfigureHeavyCapacity(c) PROVE StoreInv'
  <2>1. TypeOK'
    BY <1>4 DEF StoreInv, TypeOK, ConfigureHeavyCapacity
  <2> QED
    BY <1>4, <2>1, FrameInv DEF ConfigureHeavyCapacity
<1>5. CASE Tick
  <2>1. TypeOK'
    BY <1>5 DEF StoreInv, TypeOK, Tick
  <2> QED
    BY <1>5, <2>1, FrameInv DEF Tick
<1>6. CASE UNCHANGED storeVars
  BY <1>6, StutterInv
<1> QED
  BY <1>1, <1>2, <1>3, <1>4, <1>5, <1>6 DEF StoreNext

\* The inductive invariant holds in every reachable state.
LEMMA Invariance == StoreSpec => []StoreInv
BY InitInv, NextInv, PTL DEF StoreSpec

\* The store's variables keep their types under every client.
THEOREM TypeCorrect == StoreSpec => []TypeOK
<1>1. StoreInv => TypeOK
  BY DEF StoreInv
<1> QED
  BY <1>1, Invariance, PTL

\* Repository slots are held by nonterminal runs of their repository only.
THEOREM SlotsAuthorized == StoreSpec => []SlotAuthority
<1>1. StoreInv => SlotAuthority
  BY DEF StoreInv
<1> QED
  BY <1>1, Invariance, PTL

\* Permits are held under repository slots only, so that one repository never
\* has two runs in heavy work.
THEOREM PermitsUnderSlots == StoreSpec => []PermitUnderSlot
<1>1. StoreInv => PermitUnderSlot
  BY DEF StoreInv
<1> QED
  BY <1>1, Invariance, PTL

\* A nonterminal run admitted by this version never loses its slot.
THEOREM ActiveKeepsSlot == StoreSpec => []ActiveOwnsSlot
<1>1. StoreInv => ActiveOwnsSlot
  BY DEF StoreInv
<1> QED
  BY <1>1, Invariance, PTL
-----------------------------------------------------------------------------
\* A step that keeps the permits, or the owner of each permit, takes none away.
LEMMA StepKeepsStartedPermits ==
  ASSUME StoreInv, [StoreNext]_storeVars
  PROVE  [KeepsStartedPermits]_storeVars
<1> USE DEF KeepsStartedPermits, HasPermit
<1>1. ASSUME NEW r \in Runs, NEW o \in Owners, RunStep(r, o) PROVE KeepsStartedPermits
  <2>1. CASE AdoptPermit(r, o)
    BY <2>1, OwnersAssumption DEF StoreInv, TypeOK, AdoptPermit
  <2>2. CASE GrantPermit(r, o)
    BY <2>2, OwnersAssumption DEF StoreInv, TypeOK, GrantPermit
  <2>3. CASE ReserveRun(r, o)
    BY <2>3, OwnersAssumption DEF StoreInv, TypeOK, ReserveRun
  <2>4. CASE AcquireLease(r, o) \/ RenewLease(r, o) \/ ReleaseLease(r, o)
    BY <2>4 DEF AcquireLease, RenewLease, ReleaseLease
  <2>5. ASSUME NEW reason \in ReleaseReason, ReleasePermit(r, o, permit[r].ver, reason)
        PROVE  KeepsStartedPermits
    BY <2>5 DEF StoreInv, TypeOK, ReleasePermit, Releases
  <2> QED
    BY <1>1, <2>1, <2>2, <2>3, <2>4, <2>5 DEF RunStep
<1>2. ASSUME NEW r \in Runs, RunRowStep(r) PROVE KeepsStartedPermits
  <2>1. ASSUME NEW q \in Phase \ {"absent"}, Transition(r, q) PROVE KeepsStartedPermits
    BY <2>1 DEF StoreInv, TypeOK, Transition, SetPhase, ReleaseTerminalAuthority, TerminalRow
  <2>2. CASE \E t \in now..MaxTime : DeferSchedulingRun(r, t)
    BY <2>2 DEF DeferSchedulingRun
  <2>3. CASE \/ AppendOperatorAttention(r) \/ BeginAttempt(r) \/ FinishUnproven(r)
             \/ CommitAttemptProcessLaunch(r) \/ FinishAttempt(r)
    BY <2>3 DEF AppendOperatorAttention, BeginAttempt, CommitAttemptProcessLaunch,
                FinishAttempt, FinishUnproven, SetAttempt
  <2> QED
    BY <1>2, <2>1, <2>2, <2>3 DEF RunRowStep
<1>3. CASE ReconcileSchedulingAuthorities
  <2> SUFFICES ASSUME NEW r \in Runs, HasPermit(r), Started(r), phase'[r] # "terminal"
               PROVE  permit'[r].owner # 0
    OBVIOUS
  <2>1. phase[r] # "terminal"
    BY <1>3 DEF ReconcileSchedulingAuthorities
  <2>2. ~(Settled(r) /\ ~Heavy(r))
    BY <1>3 DEF ReconcileSchedulingAuthorities, ReconcileConflict
  <2> QED
    BY <1>3, <2>1, <2>2 DEF ReconcileSchedulingAuthorities, ReconciledPermit
<1>4. ASSUME NEW c \in 1..MaxCapacity, ConfigureHeavyCapacity(c) PROVE KeepsStartedPermits
  BY <1>4 DEF ConfigureHeavyCapacity
<1>5. CASE Tick
  BY <1>5 DEF Tick
<1> QED
  BY <1>1, <1>2, <1>3, <1>4, <1>5 DEF StoreNext

\* Only an abandonment or another terminal transition takes a permit from a run
\* whose launched child may be alive.
THEOREM StartedPermitsKept == StoreSpec => StartedKeepsPermit
BY Invariance, StepKeepsStartedPermits, PTL DEF StoreSpec, StartedKeepsPermit

-----------------------------------------------------------------------------
\* Granting one permit below capacity stays within it.
LEMMA OneMorePermit ==
  ASSUME TypeOK, NEW r \in Runs, HasCapacity, capacity' = capacity,
         \A q \in Runs \ {r} : permit'[q] = permit[q]
  PROVE  Cardinality({q \in Runs : permit'[q].owner # 0}) <= capacity'
<1> DEFINE After == {q \in Runs : permit'[q].owner # 0}
<1>1. IsFiniteSet(Permitted)
  BY RunsAssumption, FS_Subset DEF Permitted
<1>2. /\ IsFiniteSet(Permitted \cup {r})
      /\ Cardinality(Permitted \cup {r}) <= Cardinality(Permitted) + 1
  BY <1>1, FS_AddElement, FS_CardinalityType
<1>3. After \subseteq Permitted \cup {r}
  BY DEF Permitted, HasPermit
<1>4. Cardinality(After) <= Cardinality(Permitted \cup {r})
  BY <1>2, <1>3, FS_Subset
<1>5. IsFiniteSet(After)
  BY <1>2, <1>3, FS_Subset
<1> QED
  BY <1>1, <1>2, <1>4, <1>5, FS_CardinalityType DEF HasCapacity, InUse, TypeOK

\* A grant and a reservation, whoever asks for them, keep to the capacity and to
\* the order of the waiting runs.
LEMMA GrantKeepsOrder ==
  ASSUME StoreInv, NEW r \in Runs, NEW o, GrantPermit(r, o) \/ ReserveRun(r, o)
  PROVE  GrantsInOrder
<1>1. /\ HasCapacity /\ capacity' = capacity
      /\ Runnable = {} \/ IsFirst(r)
      /\ \A q \in Runs \ {r} : permit'[q] = permit[q]
  BY DEF StoreInv, TypeOK, GrantPermit, Grantable, ReserveRun, Reservable
<1>2. Cardinality({q \in Runs : permit'[q].owner # 0}) <= capacity'
  BY <1>1, OneMorePermit DEF StoreInv
<1> QED
  BY <1>1, <1>2 DEF GrantsInOrder, HasPermit, IsFirst

\* Only a grant and a reservation add a permit.
LEMMA StepGrantsInOrder ==
  ASSUME StoreInv, [StoreNext]_storeVars
  PROVE  [GrantsInOrder]_storeVars
<1>1. ASSUME \A q \in Runs : permit'[q].owner # 0 => permit[q].owner # 0
      PROVE  GrantsInOrder
  BY <1>1 DEF GrantsInOrder, HasPermit
<1>2. ASSUME NEW r \in Runs, NEW o \in Owners, GrantPermit(r, o) \/ ReserveRun(r, o)
      PROVE  GrantsInOrder
  BY <1>2, GrantKeepsOrder
<1>3. ASSUME NEW r \in Runs, NEW o \in Owners, RunStep(r, o) PROVE GrantsInOrder
  <2>1. CASE AdoptPermit(r, o)
    BY <2>1, <1>1 DEF StoreInv, TypeOK, AdoptPermit, Adoptable
  <2>2. CASE AcquireLease(r, o) \/ RenewLease(r, o) \/ ReleaseLease(r, o)
    BY <2>2, <1>1 DEF AcquireLease, RenewLease, ReleaseLease
  <2>3. ASSUME NEW reason \in ReleaseReason, ReleasePermit(r, o, permit[r].ver, reason)
        PROVE  GrantsInOrder
    BY <2>3, <1>1 DEF StoreInv, TypeOK, ReleasePermit, NoPermit
  <2> QED
    BY <1>2, <1>3, <2>1, <2>2, <2>3 DEF RunStep
<1>4. ASSUME NEW r \in Runs, RunRowStep(r) PROVE GrantsInOrder
  <2>1. ASSUME NEW q \in Phase \ {"absent"}, Transition(r, q) PROVE GrantsInOrder
    BY <2>1, <1>1 DEF StoreInv, TypeOK, Transition, SetPhase, ReleaseTerminalAuthority, TerminalRow, NoPermit
  <2>2. CASE \E t \in now..MaxTime : DeferSchedulingRun(r, t)
    BY <2>2, <1>1 DEF DeferSchedulingRun
  <2>3. CASE \/ AppendOperatorAttention(r) \/ BeginAttempt(r) \/ FinishUnproven(r)
             \/ CommitAttemptProcessLaunch(r) \/ FinishAttempt(r)
    BY <2>3, <1>1 DEF AppendOperatorAttention, BeginAttempt, CommitAttemptProcessLaunch,
                      FinishAttempt, FinishUnproven, SetAttempt
  <2> QED
    BY <1>4, <2>1, <2>2, <2>3 DEF RunRowStep
<1>5. CASE ReconcileSchedulingAuthorities
  BY <1>5, <1>1 DEF ReconcileSchedulingAuthorities, ReconciledPermit, NoPermit
<1>6. ASSUME NEW c \in 1..MaxCapacity, ConfigureHeavyCapacity(c) PROVE GrantsInOrder
  BY <1>6, <1>1 DEF ConfigureHeavyCapacity
<1>7. CASE Tick
  BY <1>7, <1>1 DEF Tick
<1> QED
  BY <1>3, <1>4, <1>5, <1>6, <1>7 DEF StoreNext

\* Permits are granted within the capacity in force, first waiting run first.
THEOREM GrantsOrdered == StoreSpec => GrantsWithinCapacity
BY Invariance, StepGrantsInOrder, PTL DEF StoreSpec, GrantsWithinCapacity
=============================================================================
