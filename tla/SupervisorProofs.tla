-------------------------- MODULE SupervisorProofs ---------------------------
(***************************************************************************)
(* What the worker process, the store and the operator's commands guarantee *)
(* together of managed children, for every set of runs, every number of     *)
(* dispatch goroutines and every number of restarts.                        *)
(***************************************************************************)
EXTENDS Supervisor, SchedulingProofs

\* The positions of a dispatch goroutine; at the unplaced ones it has no run.
Unplaced  == {"idle", "scan", "admit", "done"}
Positions ==
  Unplaced \cup
  {"claim", "prepare", "recover", "stop", "finish", "reacquire", "check", "postpone",
   "drive", "act", "enter", "leasing", "local", "launch", "spawn", "running", "leave",
   "exit", "settle", "defer"}

WorkerRecord ==
  [pc : Positions, run : Runs \cup {NoRun}, heavy : BOOLEAN, dp : Nat, lp : Nat,
   back : {"check", "reacquire"}, out : {"driven", "error", "retry", "waiting"},
   seen : Phase, via : {"admit", "resume", "retry"}, adm : BOOLEAN]

Command == [pc : {"idle", "stop", "commit"}, run : Runs \cup {NoRun}, from : Phase]

Placed(w) == wk[w].pc \notin Unplaced

\* The types of the process, its goroutines and the operator's command.
Shape ==
  /\ child \in [Runs -> Nat]
  /\ epoch \in 0..MaxEpoch /\ proc \in 0..epoch
  /\ wk \in [Workers -> WorkerRecord]
  /\ \A w \in Workers : /\ Placed(w) <=> RunOf(w) # NoRun
                        /\ ~At(w, "idle") => proc # 0
  /\ op \in Command
  /\ op.pc # "idle" => op.run # NoRun

\* A run is dispatched by one goroutine at a time: whoever else has selected it
\* has not claimed it.
Alone ==
  \A w, v \in Workers :
    w # v /\ RunOf(w) = RunOf(v) /\ RunOf(w) # NoRun => At(w, "claim") \/ At(v, "claim")

\* The operator's command works under the run's lease.
Commanded == op.pc # "idle" => lease[op.run].by = Operator /\ LeaseLive(op.run)

Leased(w)     == wk[w].pc \in {"stop", "finish", "local", "launch", "spawn", "running", "leave"}
Launching(w)  == wk[w].pc \in {"spawn", "running"}
Working(w)    == wk[w].pc \in {"local", "launch", "spawn", "running"}
Recovering(w) == wk[w].heavy /\ wk[w].pc \in {"claim", "prepare", "recover", "stop", "finish"}

\* Nothing of run r is left from an earlier process: a started attempt belongs
\* to a goroutine, one of unproven exit keeps its permit with this process.
Fresh(r) ==
  /\ attempt[r] = "started" => \E v \in Workers : Launching(v) /\ RunOf(v) = r
  /\ Active(r) /\ Started(r) => permit[r].owner = proc

\* What a goroutine's position says of its run.
Fit(w) ==
  /\ Leased(w) => lease[RunOf(w)].by = proc /\ LeaseLive(RunOf(w))
  /\ At(w, "leasing") /\ Heavy(RunOf(w)) => permit[RunOf(w)].owner = proc
  /\ Working(w) => Heavy(RunOf(w)) /\ permit[RunOf(w)].owner = proc
  /\ At(w, "launch") => attempt[RunOf(w)] = "prepared"
  /\ Launching(w) => attempt[RunOf(w)] = "started"
  /\ At(w, "spawn") \/ At(w, "finish") => child[RunOf(w)] = 0
  /\ Placed(w) /\ ~Recovering(w) => Fresh(RunOf(w))

\* A live child has a started attempt, and a started attempt the permit, until
\* the run becomes terminal.
RunFit(r) ==
  /\ child[r] <= 1
  /\ Active(r) /\ child[r] > 0 => Started(r)
  /\ Active(r) /\ Started(r) => HasPermit(r)
  /\ Active(r) /\ attempt[r] = "started" => Heavy(r)
  /\ phase[r] = "absent" => child[r] = 0 /\ attempt[r] = "none"

WorkersFit == \A w \in Workers : Fit(w)
RunsFit    == \A r \in Runs : RunFit(r)

\* The inductive invariant.
SupInv == StoreInv /\ Shape /\ Alone /\ Commanded /\ WorkersFit /\ RunsFit
-----------------------------------------------------------------------------
\* Initially no goroutine, child, attempt or command exists.
LEMMA SupInit == Init => SupInv
<1> SUFFICES ASSUME Init PROVE SupInv
  OBVIOUS
<1>1. StoreInv
  BY InitInv DEF Init
<1>2. wk = [w \in Workers |-> IdleWorker] /\ op = IdleCommand /\ child = [r \in Runs |-> 0]
      /\ proc = 0 /\ epoch = 0 /\ attempt = [r \in Runs |-> "none"]
  BY DEF Init, StoreInit
<1>3. Shape
  <2>1. IdleWorker \in WorkerRecord
    BY DEF IdleWorker, WorkerRecord, Positions, Unplaced, Phase
  <2>2. op \in Command /\ op.pc = "idle"
    BY <1>2 DEF IdleCommand, Command, Phase
  <2> QED
    BY <1>2, <2>1, <2>2, EpochAssumption DEF Shape, IdleWorker, Placed, Unplaced, At, RunOf
<1>4. Alone /\ Commanded
  BY <1>2 DEF Alone, Commanded, IdleWorker, IdleCommand, RunOf
<1>5. WorkersFit
  BY <1>2 DEF WorkersFit, Fit, Leased, At, Working, Launching, Placed, Unplaced, IdleWorker
<1>6. RunsFit
  BY <1>2 DEF RunsFit, RunFit, Started
<1> QED
  BY <1>1, <1>3, <1>4, <1>5, <1>6 DEF SupInv
-----------------------------------------------------------------------------
(***************************************************************************)
(* Frames: what a step leaves of the runs it is not about.                  *)
(***************************************************************************)

\* Run r keeps its phase, attempt and children, and the permit its children
\* and its goroutine work under.
KeepsRun(r) ==
  /\ phase'[r] = phase[r] /\ attempt'[r] = attempt[r] /\ child'[r] = child[r]
  /\ Active(r) /\ Started(r) => /\ permit[r].owner # 0 => permit'[r].owner # 0
                                /\ permit[r].owner = proc => permit'[r].owner = proc

KeepsHeavy(r) == Heavy(r) /\ permit[r].owner = proc => permit'[r].owner = proc

KeepsLease(r, o) == lease[r].by = o /\ LeaseLive(r) => lease'[r].by = o /\ LeaseLive(r)'

\* What a goroutine does to leases: those of its own run only.
LeaseMoves(q) ==
  \/ lease' = lease
  \/ LeaseFree(q) /\ lease' = TakenLease(q, proc)
  \/ lease' = ReleasedLease(q, proc)

\* A run that is kept stays fit.
LEMMA KeptRunFit ==
  ASSUME NEW r \in Runs, RunFit(r), KeepsRun(r)
  PROVE  RunFit(r)'
BY DEF RunFit, KeepsRun, Active, Started, HasPermit, Heavy

\* A run stays free of an earlier process's remains while its launchers stay.
LEMMA KeptFresh ==
  ASSUME NEW r \in Runs, Fresh(r), KeepsRun(r), proc' = proc,
         \A v \in Workers : Launching(v) /\ RunOf(v) = r => wk'[v] = wk[v]
  PROVE  Fresh(r)'
BY DEF Fresh, KeepsRun, Active, Started, Launching, RunOf

\* A goroutine that does not move stays fit when its run is kept.
LEMMA KeptFit ==
  ASSUME NEW v \in Workers, NEW r \in Runs, RunOf(v) = r, Fit(v), wk'[v] = wk[v], proc' = proc,
         KeepsRun(r),
         Leased(v) => KeepsLease(r, proc),
         At(v, "leasing") \/ Working(v) => KeepsHeavy(r),
         Fresh(r) => Fresh(r)'
  PROVE  Fit(v)'
<1>1. RunOf(v)' = r
  BY DEF RunOf
<1>2. /\ Leased(v)' = Leased(v) /\ Working(v)' = Working(v) /\ Launching(v)' = Launching(v)
      /\ Recovering(v)' = Recovering(v) /\ Placed(v)' = Placed(v)
  BY DEF Leased, Working, Launching, Recovering, Placed
<1>3. \A pc : At(v, pc)' = At(v, pc)
  BY DEF At
<1>4. (Leased(v) => lease[RunOf(v)].by = proc /\ LeaseLive(RunOf(v)))'
  BY <1>1, <1>2 DEF Fit, KeepsLease, LeaseLive
<1>5. /\ (At(v, "leasing") /\ Heavy(RunOf(v)) => permit[RunOf(v)].owner = proc)'
      /\ (Working(v) => Heavy(RunOf(v)) /\ permit[RunOf(v)].owner = proc)'
  BY <1>1, <1>2, <1>3 DEF Fit, KeepsHeavy, KeepsRun, Heavy
<1>6. /\ (At(v, "launch") => attempt[RunOf(v)] = "prepared")'
      /\ (Launching(v) => attempt[RunOf(v)] = "started")'
      /\ (At(v, "spawn") \/ At(v, "finish") => child[RunOf(v)] = 0)'
  BY <1>1, <1>2, <1>3 DEF Fit, KeepsRun
<1>7. (Placed(v) /\ ~Recovering(v) => Fresh(RunOf(v)))'
  BY <1>1, <1>2 DEF Fit, Fresh
<1> QED
  BY <1>4, <1>5, <1>6, <1>7 DEF Fit

\* No worker process has the operator's nonce.
LEMMA OperatorApart == Shape => proc # Operator /\ Operator # 0
BY EpochAssumption, OperatorAssumption DEF Shape

\* A goroutine's lease statements leave other runs' leases and the operator's.
LEMMA LeasesKept ==
  ASSUME SupInv, NEW q \in Runs, LeaseMoves(q), now' = now, op' = op, proc # 0
  PROVE  /\ \A r \in Runs \ {q} : lease'[r] = lease[r]
         /\ \A r \in Runs \ {q} : KeepsLease(r, proc)
         /\ Commanded'
<1>1. \A r \in Runs \ {q} : lease'[r] = lease[r]
  BY DEF SupInv, StoreInv, TypeOK, LeaseMoves, TakenLease, ReleasedLease
<1>2. \A r \in Runs \ {q} : KeepsLease(r, proc)
  BY <1>1 DEF KeepsLease, LeaseLive
<1>3. Commanded'
  <2> SUFFICES ASSUME op.pc # "idle"
               PROVE  lease'[op.run].by = Operator /\ lease'[op.run].exp > now
    BY DEF Commanded, LeaseLive
  <2>1. lease[op.run].by = Operator /\ lease[op.run].exp > now /\ op.run \in Runs
    BY DEF SupInv, Shape, Command, Commanded, LeaseLive
  <2>2. CASE op.run # q
    BY <1>1, <2>1, <2>2
  <2>3. CASE op.run = q
    BY <2>1, <2>3, OperatorApart DEF SupInv, LeaseMoves, LeaseFree, LeaseLive, ReleasedLease
  <2> QED
    BY <2>2, <2>3
<1> QED
  BY <1>1, <1>2, <1>3

\* Only goroutine w moves, and it keeps its run or puts it down.
Moves(w) ==
  /\ proc' = proc /\ epoch' = epoch /\ op' = op
  /\ child' \in [Runs -> Nat]
  /\ wk' \in [Workers -> WorkerRecord]
  /\ \A v \in Workers \ {w} : wk'[v] = wk[v]
  /\ \/ wk'[w].run = wk[w].run /\ wk'[w].pc \notin Unplaced \cup {"claim"}
     \/ wk'[w].run = NoRun /\ wk'[w].pc = "done"

\* The step is about run q: every other run is kept.
Elsewhere(q) ==
  /\ StoreInv' /\ now' = now
  /\ LeaseMoves(q)
  /\ \A r \in Runs \ {q} : KeepsRun(r) /\ KeepsHeavy(r)

\* A goroutine past its claim has its run to itself.
LEMMA RunToItself ==
  ASSUME SupInv, NEW w \in Workers, Placed(w), ~At(w, "claim")
  PROVE  /\ RunOf(w) \in Runs /\ proc # 0
         /\ \A v \in Workers \ {w} : RunOf(v) = RunOf(w) => At(v, "claim")
<1>1. RunOf(w) # NoRun /\ wk[w].run \in Runs \cup {NoRun} /\ proc # 0
  BY DEF SupInv, Shape, WorkerRecord, Placed, Unplaced, At
<1> QED
  BY <1>1 DEF SupInv, Alone, RunOf

\* The moving goroutine keeps the shape and the claims.
LEMMA MoveShape ==
  ASSUME SupInv, NEW w \in Workers, Placed(w), ~At(w, "claim"), Moves(w)
  PROVE  Shape' /\ Alone'
<1>1. \A v \in Workers : (Placed(v) <=> RunOf(v) # NoRun)' /\ (~At(v, "idle") => proc # 0)'
  <2> TAKE v \in Workers
  <2>1. CASE v # w
    BY <2>1 DEF SupInv, Shape, Moves, Placed, RunOf, At
  <2>2. CASE v = w
    BY <2>2, RunToItself, RunsAssumption, NoRunAssumption DEF Moves, Placed, RunOf, Unplaced
  <2> QED
    BY <2>1, <2>2
<1>2. Shape'
  BY <1>1 DEF SupInv, Shape, Moves
<1>3. Alone'
  <2> SUFFICES ASSUME NEW u \in Workers, NEW v \in Workers, u # v,
                      wk'[u].run = wk'[v].run, wk'[u].run # NoRun
               PROVE  wk'[u].pc = "claim" \/ wk'[v].pc = "claim"
    BY DEF Alone, RunOf, At
  <2>1. CASE u # w /\ v # w
    BY <2>1 DEF SupInv, Alone, Moves, RunOf, At
  <2>2. CASE u = w
    BY <2>2, RunToItself DEF Moves, RunOf, At
  <2>3. CASE v = w
    BY <2>3, RunToItself DEF Moves, RunOf, At
  <2> QED
    BY <2>1, <2>2, <2>3
<1> QED
  BY <1>2, <1>3

\* The step of a goroutine past its claim: it is enough to look at its own
\* position and its own run.
LEMMA StepFits ==
  ASSUME SupInv, NEW w \in Workers, NEW q \in Runs, RunOf(w) = q, ~At(w, "claim"), Moves(w),
         Elsewhere(q), Fit(w)', RunFit(q)', Fresh(q) => Fresh(q)'
  PROVE  SupInv'
<1>1. Placed(w)
  BY RunsAssumption, NoRunAssumption DEF SupInv, Shape
<1>2. proc # 0 /\ \A v \in Workers \ {w} : RunOf(v) = q => At(v, "claim")
  BY <1>1, RunToItself
<1>3. \A r \in Runs \ {q} : KeepsRun(r) /\ KeepsHeavy(r) /\ KeepsLease(r, proc)
  BY <1>2, LeasesKept DEF Elsewhere, Moves
<1>4. Commanded'
  BY <1>2, LeasesKept DEF Elsewhere, Moves
<1>5. ASSUME NEW r \in Runs, Fresh(r) PROVE Fresh(r)'
  <2>1. CASE r # q
    BY <2>1, <1>3, <1>5, KeptFresh DEF Moves
  <2>2. CASE r = q
    BY <2>2, <1>5
  <2> QED
    BY <2>1, <2>2
<1>6. ASSUME NEW v \in Workers, v # w PROVE Fit(v)'
  <2>1. wk'[v] = wk[v] /\ Fit(v) /\ Shape /\ proc' = proc
    BY <1>6 DEF Moves, SupInv, WorkersFit
  <2>2. CASE ~Placed(v)
    <3>1. ~Placed(v)'
      BY <2>1, <2>2 DEF Placed
    <3> QED
      BY <3>1 DEF Fit, Placed, Unplaced, Leased, At, Working, Launching
  <2>3. CASE Placed(v)
    <3>1. PICK r \in Runs : RunOf(v) = r
      BY <2>1, <2>3 DEF Shape, WorkerRecord, RunOf
    <3>2. CASE r # q
      BY <2>1, <3>1, <3>2, <1>3, <1>5, KeptFit
    <3>3. CASE r = q
      <4>1. At(v, "claim")
        BY <1>2, <1>6, <3>1, <3>3
      <4>2. ~Recovering(v) => Fresh(r)'
        BY <2>1, <2>3, <3>1, <1>5 DEF Fit
      <4>3. wk'[v].pc = "claim" /\ RunOf(v)' = r /\ Recovering(v)' = Recovering(v)
        BY <2>1, <3>1, <4>1 DEF At, RunOf, Recovering
      <4>4. (Placed(v) /\ ~Recovering(v) => Fresh(RunOf(v)))'
        BY <4>2, <4>3 DEF Fresh
      <4> QED
        BY <4>3, <4>4 DEF Fit, Leased, At, Working, Launching
    <3> QED
      BY <3>2, <3>3
  <2> QED
    BY <2>2, <2>3
<1>7. WorkersFit'
  BY <1>6 DEF WorkersFit
<1>8. RunsFit'
  BY <1>3, KeptRunFit DEF SupInv, RunsFit
<1> QED
  BY <1>1, <1>4, <1>7, <1>8, MoveShape DEF SupInv, Elsewhere
-----------------------------------------------------------------------------
(***************************************************************************)
(* The store's statements as goroutines make them, and the positions that   *)
(* say nothing of a lease, an attempt or a permit.                          *)
(***************************************************************************)

\* A statement about run q that changes no run's phase, attempt or children.
Calm(q) ==
  /\ StoreInv' /\ now' = now /\ child' = child
  /\ LeaseMoves(q)
  /\ \A r \in Runs : KeepsRun(r)
  /\ \A r \in Runs \ {q} : KeepsHeavy(r)

\* No statement.
LEMMA CalmStutter ==
  ASSUME SupInv, UNCHANGED storeVars, child' = child
  PROVE  \A q \in Runs : Calm(q)
BY StutterInv DEF SupInv, storeVars, Calm, LeaseMoves, KeepsRun, KeepsHeavy

\* An acquisition that holds: the permit is this process's afterwards.
LEMMA CalmAcquire ==
  ASSUME SupInv, NEW q \in Runs, AcquireHeld(q, proc), child' = child, proc # 0
  PROVE  Calm(q) /\ Heavy(q) /\ permit'[q].owner = proc
<1>1. proc \in Nat \ {0}
  BY EpochAssumption DEF SupInv, Shape
<1>2. CASE AlreadyHeld(q, proc) /\ UNCHANGED storeVars
  BY <1>2, CalmStutter DEF AlreadyHeld, storeVars
<1>3. CASE AdoptPermit(q, proc)
  <2>1. StoreInv'
    BY <1>1, <1>3, AdoptInv DEF SupInv
  <2>2. permit'[q].owner = proc /\ \A r \in Runs \ {q} : permit'[r] = permit[r]
    BY <1>3 DEF AdoptPermit, SupInv, StoreInv, TypeOK
  <2>3. Calm(q)
    BY <1>1, <1>3, <2>1, <2>2 DEF AdoptPermit, Calm, LeaseMoves, KeepsRun, KeepsHeavy
  <2> QED
    BY <1>3, <2>2, <2>3 DEF AdoptPermit, Adoptable
<1>4. CASE GrantPermit(q, proc)
  <2>1. StoreInv'
    BY <1>1, <1>4, GrantInv DEF SupInv
  <2>2. permit'[q].owner = proc /\ \A r \in Runs \ {q} : permit'[r] = permit[r]
    BY <1>4 DEF GrantPermit, SupInv, StoreInv, TypeOK
  <2>3. Calm(q)
    BY <1>1, <1>4, <2>1, <2>2 DEF GrantPermit, Calm, LeaseMoves, KeepsRun, KeepsHeavy
  <2> QED
    BY <1>4, <2>2, <2>3 DEF GrantPermit, Grantable
<1> QED
  BY <1>2, <1>3, <1>4 DEF AcquireHeld

\* A release, which a started attempt refuses.
LEMMA CalmRelease ==
  ASSUME SupInv, NEW q \in Runs, NEW v, NEW reason,
         ReleaseHeavyPermit(q, proc, v, reason), child' = child, proc # 0
  PROVE  Calm(q)
<1>1. CASE ReleasePermit(q, proc, v, reason)
  <2>1. proc \in Nat \ {0}
    BY EpochAssumption DEF SupInv, Shape
  <2>2. StoreInv'
    BY <1>1, <2>1, ReleaseInv DEF SupInv
  <2>3. ~Started(q) /\ \A r \in Runs \ {q} : permit'[r] = permit[r]
    BY <1>1 DEF ReleasePermit, Releases, SupInv, StoreInv, TypeOK
  <2> QED
    BY <1>1, <2>2, <2>3 DEF ReleasePermit, Calm, LeaseMoves, KeepsRun, KeepsHeavy
<1>2. CASE UNCHANGED storeVars
  BY <1>2, CalmStutter
<1> QED
  BY <1>1, <1>2 DEF ReleaseHeavyPermit

\* Taking the run's lease, or giving it up.
LEMMA CalmLease ==
  ASSUME SupInv, NEW q \in Runs, AcquireLease(q, proc) \/ ReleaseLease(q, proc),
         child' = child, proc # 0
  PROVE  Calm(q)
<1>1. proc \in Nat \ {0}
  BY EpochAssumption DEF SupInv, Shape
<1>2. StoreInv'
  BY <1>1, LeaseInv DEF SupInv
<1> QED
  BY <1>2 DEF AcquireLease, ReleaseLease, Calm, LeaseMoves, KeepsRun, KeepsHeavy

\* An attention event.
LEMMA CalmAttention ==
  ASSUME SupInv, NEW q \in Runs, AppendOperatorAttention(q), child' = child
  PROVE  Calm(q)
<1>1. StoreInv'
  BY RowInv DEF SupInv
<1> QED
  BY <1>1 DEF AppendOperatorAttention, Calm, LeaseMoves, KeepsRun, KeepsHeavy

\* A deferral.
LEMMA CalmDefer ==
  ASSUME SupInv, NEW q \in Runs, NEW t \in Nat, DeferSchedulingRun(q, t), child' = child
  PROVE  Calm(q)
<1>1. StoreInv'
  BY RowInv DEF SupInv
<1> QED
  BY <1>1 DEF DeferSchedulingRun, Calm, LeaseMoves, KeepsRun, KeepsHeavy

\* Reconciling takes a permit neither from heavy work nor from
\* under a started attempt.
LEMMA ReconcileKeepsRuns ==
  ASSUME NEW r \in Runs, ~ReconcileConflict, permit'[r] = ReconciledPermit(r)
  PROVE  /\ Active(r) /\ Started(r) => permit'[r] = permit[r] \/ ~HasPermit(r)
         /\ Heavy(r) => permit'[r] = permit[r]
<1>1. Heavy(r) => permit'[r] = permit[r]
  BY DEF ReconciledPermit, Heavy
<1>2. ASSUME Active(r), Started(r), HasPermit(r) PROVE permit'[r] = permit[r]
  BY <1>2 DEF ReconciledPermit, ReconcileConflict, Active
<1> QED
  BY <1>1, <1>2

\* A sibling's reconciliation.
LEMMA CalmReconcile ==
  ASSUME SupInv, NEW q \in Runs, ReconcileSchedulingAuthorities, child' = child, proc # 0
  PROVE  Calm(q)
<1>1. StoreInv'
  BY ReconcileInv
    DEF SupInv, StoreInv, TypeOK, ReconcileSchedulingAuthorities, Reconciles
<1>2. ASSUME NEW r \in Runs PROVE KeepsRun(r) /\ KeepsHeavy(r)
  <2>1. permit'[r] = ReconciledPermit(r) /\ phase' = phase /\ attempt' = attempt
    BY DEF ReconcileSchedulingAuthorities
  <2>2. /\ Active(r) /\ Started(r) => permit'[r] = permit[r] \/ ~HasPermit(r)
        /\ Heavy(r) => permit'[r] = permit[r]
    BY <2>1, ReconcileKeepsRuns DEF ReconcileSchedulingAuthorities
  <2> QED
    BY <2>1, <2>2 DEF KeepsRun, KeepsHeavy, HasPermit
<1> QED
  BY <1>1, <1>2 DEF ReconcileSchedulingAuthorities, Calm, LeaseMoves

Quiet == {"prepare", "recover", "reacquire", "check", "postpone", "drive", "act", "enter",
          "exit", "settle", "defer", "done"}

\* A step to a quiet position: recovery is left only when nothing is started.
LEMMA QuietFits ==
  ASSUME SupInv, NEW w \in Workers, NEW q \in Runs, RunOf(w) = q, ~At(w, "claim"), Moves(w),
         Calm(q), ~Launching(w), wk'[w].pc \in Quiet,
         Recovering(w) => Recovering(w)' \/ wk'[w].pc = "done" \/ ~Started(q)
  PROVE  SupInv'
<1>1. Placed(w)
  BY RunsAssumption, NoRunAssumption DEF SupInv, Shape
<1>2. \A v \in Workers \ {w} : RunOf(v) = q => At(v, "claim")
  BY <1>1, RunToItself
<1>3. KeepsRun(q) /\ RunFit(q)
  BY DEF Calm, SupInv, RunsFit
<1>4. Fresh(q) => Fresh(q)'
  BY <1>2, <1>3, KeptFresh DEF Moves, Launching, At
<1>5. Fit(w)'
  <2>1. CASE wk'[w].pc = "done"
    BY <2>1 DEF Fit, Placed, Unplaced, Leased, At, Working, Launching
  <2>2. CASE wk'[w].pc # "done"
    <3>1. RunOf(w)' = q
      BY <2>2 DEF Moves, RunOf, Unplaced
    <3>2. ~Recovering(w)' => Fresh(q)
      BY <1>1, <2>2 DEF SupInv, WorkersFit, Fit, Fresh, Started
    <3>3. (Placed(w) /\ ~Recovering(w) => Fresh(RunOf(w)))'
      BY <3>1, <3>2, <1>4 DEF Fresh
    <3> QED
      BY <3>3, <2>2 DEF Quiet, Fit, Leased, At, Working, Launching
  <2> QED
    BY <2>1, <2>2
<1>6. RunFit(q)'
  BY <1>3, KeptRunFit
<1>7. Elsewhere(q)
  BY DEF Calm, Elsewhere
<1> QED
  BY <1>4, <1>5, <1>6, <1>7, StepFits
-----------------------------------------------------------------------------
\* The quiet positions are positions.
LEMMA QuietPosition ==
  /\ "recover" \in Positions /\ "check" \in Positions /\ "drive" \in Positions
  /\ "enter" \in Positions /\ "act" \in Positions /\ "exit" \in Positions
  /\ "settle" \in Positions /\ "postpone" \in Positions /\ "defer" \in Positions
  /\ "reacquire" \in Positions
BY DEF Positions

\* The moves of a goroutine.
LEMMA GotoMoves ==
  ASSUME SupInv, NEW w \in Workers, NEW pc \in Positions \ (Unplaced \cup {"claim"}),
         Goto(w, pc), UNCHANGED <<proc, epoch, op>>, child' \in [Runs -> Nat]
  PROVE  Moves(w) /\ wk'[w] = [wk[w] EXCEPT !.pc = pc]
BY DEF Goto, SupInv, Shape, WorkerRecord, Moves

\* So is any step that rewrites its record, keeps its run and leaves it inside a
\* run's drive.
LEMMA SetMoves ==
  ASSUME SupInv, NEW w \in Workers, wk' = [wk EXCEPT ![w] = wk'[w]], wk'[w] \in WorkerRecord,
         wk'[w].run = wk[w].run, wk'[w].pc \notin Unplaced \cup {"claim"},
         UNCHANGED <<proc, epoch, op>>, child' \in [Runs -> Nat]
  PROVE  Moves(w)
BY DEF SupInv, Shape, Moves

\* An error return that still unwinds through the run's deferred calls keeps
\* the run and the heavy flag.
LEMMA FailMoves ==
  ASSUME SupInv, NEW w \in Workers, NEW pc \in Positions \ (Unplaced \cup {"claim"}),
         Fail(w, pc), UNCHANGED <<proc, epoch, op>>, child' \in [Runs -> Nat]
  PROVE  Moves(w) /\ wk'[w].pc = pc /\ wk'[w].heavy = wk[w].heavy
<1>1. wk \in [Workers -> WorkerRecord]
  BY DEF SupInv, Shape
<1>2. /\ wk' = [wk EXCEPT ![w] = wk'[w]] /\ wk'[w] \in WorkerRecord
      /\ wk'[w].run = wk[w].run /\ wk'[w].pc = pc /\ wk'[w].heavy = wk[w].heavy
  BY <1>1, ZenonT(60) DEF Fail, WorkerRecord
<1> QED
  BY <1>2, SetMoves

\* A goroutine that returns, by any of its three exits, ends at done.
LEMMA DoneMoves ==
  ASSUME SupInv, NEW w \in Workers, Done(w) \/ Fatal(w) \/ Abort(w),
         UNCHANGED <<proc, epoch, op>>, child' \in [Runs -> Nat]
  PROVE  Moves(w) /\ wk'[w].pc = "done"
<1>1. DoneWorker \in WorkerRecord /\ [DoneWorker EXCEPT !.out = "error"] \in WorkerRecord
  BY DEF DoneWorker, IdleWorker, WorkerRecord, Positions, Unplaced, Phase
<1>2. /\ DoneWorker.pc = "done" /\ DoneWorker.run = NoRun
      /\ [DoneWorker EXCEPT !.out = "error"].pc = "done"
      /\ [DoneWorker EXCEPT !.out = "error"].run = NoRun
  BY DEF DoneWorker, IdleWorker
<1>3. PICK rec \in {DoneWorker, [DoneWorker EXCEPT !.out = "error"]} : wk' = [wk EXCEPT ![w] = rec]
  BY DEF Done, Fatal, Abort
<1> QED
  BY <1>1, <1>2, <1>3 DEF SupInv, Shape, Moves

\* A goroutine past its claim is at a run of its own.
LEMMA AtRun ==
  ASSUME SupInv, NEW w \in Workers, wk[w].pc \notin Unplaced \cup {"claim"}
  PROVE  RunOf(w) \in Runs /\ proc # 0 /\ ~At(w, "claim") /\ Placed(w)
BY RunToItself DEF Placed, At

\* Statements outside the process keep its types.
LEMMA RestKept ==
  ASSUME SupInv, KeepProcess
  PROVE  UNCHANGED <<proc, epoch, op>> /\ child' = child /\ child' \in [Runs -> Nat]
BY DEF KeepProcess, SupInv, Shape
-----------------------------------------------------------------------------
(***************************************************************************)
(* The quiet steps.                                                         *)
(***************************************************************************)

\* Preparing the permit: only a run read outside heavy work skips recovery.
LEMMA PrepareFits ==
  ASSUME SupInv, NEW w \in Workers,
         PrepareLight(w) \/ PrepareHeld(w) \/ PrepareRecover(w) \/ Reacquire(w) \/ PrepareWaits(w)
  PROVE  SupInv'
<1>1. /\ RunOf(w) \in Runs /\ proc # 0 /\ ~At(w, "claim") /\ ~Launching(w)
      /\ At(w, "prepare") \/ At(w, "reacquire")
  BY AtRun DEF PrepareLight, PrepareHeld, PrepareRecover, Reacquire, PrepareWaits, At, Unplaced,
               Launching
<1>2. PICK q \in Runs : q = RunOf(w)
  BY <1>1
<1>3. UNCHANGED <<proc, epoch, op>> /\ child' = child /\ child' \in [Runs -> Nat]
  BY RestKept DEF PrepareLight, PrepareHeld, PrepareRecover, Reacquire, PrepareWaits, KeepRest
<1>4. wk \in [Workers -> WorkerRecord]
  BY DEF SupInv, Shape
<1>5. CASE PrepareLight(w)
  <2>1. Calm(q)
    BY <1>3, <1>5, CalmStutter DEF PrepareLight, KeepStore
  <2>2. Moves(w) /\ wk'[w] = [wk[w] EXCEPT !.pc = "check"]
    BY <1>3, <1>5, GotoMoves DEF PrepareLight, Positions, Unplaced
  <2>3. wk'[w].pc = "check"
    BY <1>4, <2>2 DEF WorkerRecord
  <2> QED
    BY <1>1, <1>2, <1>5, <2>1, <2>2, <2>3, QuietFits DEF PrepareLight, Recovering, Quiet
<1>6. CASE PrepareHeld(w)
  <2>1. Calm(q)
    BY <1>1, <1>2, <1>3, <1>6, CalmAcquire DEF PrepareHeld
  <2>2. permit'[q].ver \in Nat
    BY <2>1 DEF Calm, StoreInv, TypeOK
  <2>3. /\ wk' = [wk EXCEPT ![w] = wk'[w]] /\ wk'[w] \in WorkerRecord
        /\ wk'[w].run = wk[w].run /\ wk'[w].pc = "recover" /\ wk'[w].heavy
    BY <1>2, <1>4, <1>6, <2>2, QuietPosition, ZenonT(60) DEF PrepareHeld, WorkerRecord
  <2>4. Moves(w) /\ Recovering(w)'
    BY <1>3, <2>3, SetMoves DEF Unplaced, Recovering
  <2> QED
    BY <1>1, <1>2, <2>1, <2>3, <2>4, QuietFits DEF Quiet
<1>7. CASE PrepareRecover(w)
  <2>1. Calm(q)
    BY <1>3, <1>7, CalmStutter DEF PrepareRecover, KeepStore
  <2>2. /\ wk' = [wk EXCEPT ![w] = wk'[w]] /\ wk'[w] \in WorkerRecord
        /\ wk'[w].run = wk[w].run /\ wk'[w].pc = "recover" /\ wk'[w].heavy
    BY <1>4, <1>7, QuietPosition, ZenonT(60) DEF PrepareRecover, WorkerRecord
  <2>3. Moves(w) /\ Recovering(w)'
    BY <1>3, <2>2, SetMoves DEF Unplaced, Recovering
  <2> QED
    BY <1>1, <1>2, <2>1, <2>2, <2>3, QuietFits DEF Quiet
<1>8. CASE Reacquire(w)
  <2>1. Calm(q)
    BY <1>1, <1>2, <1>3, <1>8, CalmAcquire DEF Reacquire
  <2>2. permit'[q].ver \in Nat
    BY <2>1 DEF Calm, StoreInv, TypeOK
  <2>3. /\ wk' = [wk EXCEPT ![w] = wk'[w]] /\ wk'[w] \in WorkerRecord
        /\ wk'[w].run = wk[w].run /\ wk'[w].pc = "check"
    BY <1>2, <1>4, <1>8, <2>2, QuietPosition, ZenonT(60) DEF Reacquire, WorkerRecord
  <2>4. Moves(w)
    BY <1>3, <2>3, SetMoves DEF Unplaced
  <2> QED
    BY <1>1, <1>2, <1>8, <2>1, <2>3, <2>4, QuietFits DEF Quiet, Reacquire, At, Recovering
<1>9. CASE PrepareWaits(w)
  <2>1. Calm(q)
    BY <1>3, <1>9, CalmStutter DEF PrepareWaits, KeepStore
  <2>2. Moves(w) /\ wk'[w].pc = "done"
    BY <1>3, <1>9, DoneMoves DEF PrepareWaits
  <2> QED
    BY <1>1, <1>2, <2>1, <2>2, QuietFits DEF Quiet
<1> QED
  BY <1>5, <1>6, <1>7, <1>8, <1>9

\* A goroutine moves on to a quiet position, or its dispatch returns.
SetsQuiet(w) ==
  \/ /\ wk' = [wk EXCEPT ![w] = wk'[w]] /\ wk'[w] \in WorkerRecord
     /\ wk'[w].run = wk[w].run /\ wk'[w].pc \in Quiet \ {"done"}
  \/ Done(w) \/ Fatal(w) \/ Abort(w)

\* From outside recovery and launch, one calm statement on the way.
LEMMA QuietStep ==
  ASSUME SupInv, NEW w \in Workers, NEW q \in Runs, RunOf(w) = q, KeepProcess,
         wk[w].pc \in {"reacquire", "check", "postpone", "drive", "act", "enter", "leasing",
                       "local", "leave", "exit", "settle", "defer"},
         Calm(q), SetsQuiet(w)
  PROVE  SupInv'
<1>1. UNCHANGED <<proc, epoch, op>> /\ child' = child /\ child' \in [Runs -> Nat]
  BY RestKept
<1>2. ~At(w, "claim") /\ ~Launching(w) /\ ~Recovering(w)
  BY DEF At, Launching, Recovering
<1>3. Moves(w) /\ wk'[w].pc \in Quiet
  <2>1. CASE Done(w) \/ Fatal(w) \/ Abort(w)
    BY <1>1, <2>1, DoneMoves DEF Quiet
  <2>2. CASE ~(Done(w) \/ Fatal(w) \/ Abort(w))
    BY <1>1, <2>2, SetMoves DEF SetsQuiet, Quiet, Unplaced
  <2> QED
    BY <2>1, <2>2
<1> QED
  BY <1>2, <1>3, QuietFits

\* The retry schedule is consulted outside heavy work's statements.
LEMMA RetryFits ==
  ASSUME SupInv, NEW w \in Workers,
         RetryAttention(w) \/ RetryNotEligible(w) \/ DeferRetryRun(w) \/ Resume(w)
  PROVE  SupInv'
<1>1. wk[w].pc \in {"check", "postpone"} /\ KeepProcess
  BY DEF RetryAttention, RetryNotEligible, DeferRetryRun, Resume, At, KeepRest
<1>2. RunOf(w) \in Runs /\ proc # 0
  BY <1>1, AtRun DEF Unplaced
<1>3. PICK q \in Runs : q = RunOf(w)
  BY <1>2
<1>4. child' = child /\ wk \in [Workers -> WorkerRecord] /\ now \in Nat
  BY <1>1, RestKept DEF SupInv, Shape, StoreInv, TypeOK
<1>5. CASE RetryAttention(w)
  <2>1. Calm(q)
    BY <1>2, <1>3, <1>4, <1>5, CalmRelease DEF RetryAttention
  <2> QED
    BY <1>1, <1>3, <1>5, <2>1, QuietStep DEF RetryAttention, SetsQuiet
<1>6. CASE RetryNotEligible(w)
  <2>1. Calm(q)
    BY <1>2, <1>3, <1>4, <1>6, CalmRelease DEF RetryNotEligible
  <2>2. SetsQuiet(w)
    BY <1>4, <1>6, QuietPosition DEF RetryNotEligible, Goto, WorkerRecord, SetsQuiet, Quiet
  <2> QED
    BY <1>1, <1>3, <2>1, <2>2, QuietStep
<1>7. CASE DeferRetryRun(w)
  <2>1. now + 1 \in Nat
    BY <1>4
  <2>2. Calm(q) /\ SetsQuiet(w)
    BY <1>3, <1>4, <1>7, <2>1, CalmDefer, CalmStutter DEF DeferRetryRun, Deferral, KeepStore, SetsQuiet
  <2> QED
    BY <1>1, <1>3, <2>2, QuietStep
<1>8. CASE Resume(w)
  <2>1. Calm(q)
    BY <1>3, <1>4, <1>8, CalmStutter DEF Resume, KeepStore
  <2>2. PICK pc \in {"drive", "enter"}, via \in {"resume", "retry"} :
          wk' = [wk EXCEPT ![w].pc = pc, ![w].adm = FALSE, ![w].via = via]
    BY <1>8 DEF Resume
  <2>3. pc \in Positions
    BY QuietPosition
  <2>4. /\ wk' = [wk EXCEPT ![w] = wk'[w]] /\ wk'[w] \in WorkerRecord
        /\ wk'[w].run = wk[w].run /\ wk'[w].pc = pc
    BY <1>4, <2>2, <2>3, ZenonT(60) DEF WorkerRecord
  <2>5. SetsQuiet(w)
    BY <2>4 DEF SetsQuiet, Quiet
  <2> QED
    BY <1>1, <1>3, <2>1, <2>5, QuietStep
<1> QED
  BY <1>5, <1>6, <1>7, <1>8, SMTT(30)

\* The outcome of a drive is settled with releases, deferrals and attentions.
LEMMA SettleFits ==
  ASSUME SupInv, NEW w \in Workers,
         \/ ReleaseReserved(w) \/ FailureElsewhere(w) \/ RunFailure(w) \/ SettleRetry(w)
         \/ SettleWaiting(w) \/ SettleDriven(w) \/ DeferExternalRun(w) \/ DriveExit(w)
  PROVE  SupInv'
<1>1. wk[w].pc \in {"settle", "defer", "exit"} /\ KeepProcess
  BY DEF ReleaseReserved, FailureElsewhere, RunFailure, SettleRetry, SettleWaiting, SettleDriven,
         DeferExternalRun, DriveExit, At, KeepRest
<1>2. RunOf(w) \in Runs /\ proc # 0
  BY <1>1, AtRun DEF Unplaced
<1>3. PICK q \in Runs : q = RunOf(w)
  BY <1>2
<1>4. child' = child /\ wk \in [Workers -> WorkerRecord] /\ now \in Nat
  BY <1>1, RestKept DEF SupInv, Shape, StoreInv, TypeOK
<1>5. Calm(q)
  <2>1. CASE ReleaseReserved(w)
    BY <1>2, <1>3, <1>4, <2>1, CalmRelease DEF ReleaseReserved
  <2>2. CASE FailureElsewhere(w)
    BY <1>3, <1>4, <2>2, CalmStutter DEF FailureElsewhere, KeepStore
  <2>3. CASE RunFailure(w)
    BY <1>3, <1>4, <2>3, CalmStutter, CalmAttention DEF RunFailure, KeepStore
  <2>4. CASE SettleRetry(w)
    BY <1>2, <1>3, <1>4, <2>4, CalmRelease DEF SettleRetry
  <2>5. CASE SettleWaiting(w)
    BY <1>2, <1>3, <1>4, <2>5, CalmRelease DEF SettleWaiting
  <2>6. CASE SettleDriven(w)
    BY <1>2, <1>3, <1>4, <2>6, CalmRelease, CalmStutter DEF SettleDriven, KeepStore
  <2>7. CASE DeferExternalRun(w)
    <3>1. now + 1 \in Nat
      BY <1>4
    <3> QED
      BY <1>3, <1>4, <2>7, <3>1, CalmDefer, CalmStutter DEF DeferExternalRun, Deferral, KeepStore
  <2>8. CASE DriveExit(w)
    BY <1>2, <1>3, <1>4, <2>8, CalmRelease DEF DriveExit
  <2> QED
    BY <2>1, <2>2, <2>3, <2>4, <2>5, <2>6, <2>7, <2>8
<1>6. SetsQuiet(w)
  <2>1. CASE ReleaseReserved(w)
    BY <1>4, <2>1, QuietPosition DEF ReleaseReserved, At, WorkerRecord, SetsQuiet, Quiet
  <2>2. CASE FailureElsewhere(w) \/ SettleRetry(w) \/ SettleWaiting(w)
    BY <2>2 DEF FailureElsewhere, SettleRetry, SettleWaiting, SetsQuiet
  <2>3. CASE RunFailure(w)
    BY <1>4, <2>3, QuietPosition DEF RunFailure, At, WorkerRecord, SetsQuiet, Quiet, Phase
  <2>4. CASE SettleDriven(w)
    BY <1>4, <2>4, QuietPosition DEF SettleDriven, Goto, WorkerRecord, SetsQuiet, Quiet
  <2>5. CASE DeferExternalRun(w)
    BY <2>5 DEF DeferExternalRun, Deferral, SetsQuiet
  <2>6. CASE DriveExit(w)
    <3>1. wk' = [wk EXCEPT ![w].pc = "settle", ![w].lp = 0]
      BY <2>6 DEF DriveExit
    <3>2. /\ wk' = [wk EXCEPT ![w] = wk'[w]] /\ wk'[w] \in WorkerRecord
          /\ wk'[w].run = wk[w].run /\ wk'[w].pc = "settle"
      BY <1>4, <3>1, QuietPosition, ZenonT(60) DEF WorkerRecord
    <3> QED
      BY <3>2 DEF SetsQuiet, Quiet
  <2> QED
    BY <2>1, <2>2, <2>3, <2>4, <2>5, <2>6
<1> QED
  BY <1>1, <1>3, <1>5, <1>6, QuietStep

\* A refused recovery, one that finds nothing to stop and one whose stop fails
\* end in a quiet position.
LEMMA RecoverFits ==
  ASSUME SupInv, NEW w \in Workers, RecoverRefused(w) \/ StopNothing(w) \/ StopFails(w)
  PROVE  SupInv'
<1>1. wk[w].pc \in {"recover", "stop"} /\ KeepProcess
  BY DEF RecoverRefused, StopNothing, StopFails, At, KeepRest
<1>2. RunOf(w) \in Runs /\ proc # 0 /\ ~At(w, "claim") /\ ~Launching(w)
  BY <1>1, AtRun DEF Unplaced, Launching, At
<1>3. PICK q \in Runs : q = RunOf(w)
  BY <1>2
<1>4. UNCHANGED <<proc, epoch, op>> /\ child' = child /\ child' \in [Runs -> Nat]
  BY <1>1, RestKept
<1>5. CASE RecoverRefused(w)
  <2>1. Calm(q)
    BY <1>4, <1>5, CalmStutter DEF RecoverRefused, KeepStore
  <2>2. Moves(w) /\ wk'[w].pc = "done"
    BY <1>4, <1>5, DoneMoves DEF RecoverRefused
  <2> QED
    BY <1>2, <1>3, <2>1, <2>2, QuietFits DEF Quiet
<1>6. CASE StopNothing(w)
  <2>1. Calm(q)
    BY <1>2, <1>3, <1>4, <1>6, CalmLease DEF StopNothing
  <2>2. wk[w].back \in {"check", "reacquire"}
    BY DEF SupInv, Shape, WorkerRecord
  <2>3. PICK pc \in {"check", "reacquire"} : pc = wk[w].back
    BY <2>2
  <2>4. pc \in Positions \ (Unplaced \cup {"claim"}) /\ pc \in Quiet
    BY <2>3 DEF Positions, Unplaced, Quiet
  <2>5. Moves(w) /\ wk'[w] = [wk[w] EXCEPT !.pc = pc]
    BY <1>4, <1>6, <2>3, <2>4, GotoMoves DEF StopNothing
  <2>6. wk'[w].pc = pc
    BY <2>5 DEF SupInv, Shape, WorkerRecord
  <2> QED
    BY <1>2, <1>3, <1>6, <2>1, <2>4, <2>5, <2>6, QuietFits DEF StopNothing
<1>7. CASE StopFails(w)
  <2>1. Calm(q)
    BY <1>2, <1>3, <1>4, <1>7, CalmLease DEF StopFails
  <2>2. Moves(w) /\ wk'[w].pc = "done"
    BY <1>4, <1>7, DoneMoves DEF StopFails
  <2> QED
    BY <1>2, <1>3, <2>1, <2>2, QuietFits DEF Quiet
<1> QED
  BY <1>5, <1>6, <1>7

\* After an error a drive is at a quiet position.
LEMMA AfterErrorQuiet ==
  ASSUME SupInv, NEW w \in Workers, AfterError(w)
  PROVE  SetsQuiet(w)
<1>1. wk \in [Workers -> WorkerRecord] /\ phase \in [Runs -> Phase]
  BY DEF SupInv, Shape, StoreInv, TypeOK
<1>2. CASE wk' = [wk EXCEPT ![w].pc = "exit", ![w].out = "error"]
  <2>1. /\ wk' = [wk EXCEPT ![w] = wk'[w]] /\ wk'[w] \in WorkerRecord
        /\ wk'[w].run = wk[w].run /\ wk'[w].pc = "exit"
    BY <1>1, <1>2, QuietPosition DEF WorkerRecord
  <2> QED
    BY <2>1 DEF SetsQuiet, Quiet
<1>3. ASSUME NEW p \in {"human", "terminal"}, wk' = [wk EXCEPT ![w].pc = "act", ![w].seen = p]
      PROVE  SetsQuiet(w)
  <2>1. p \in Phase
    BY DEF Phase
  <2>2. /\ wk' = [wk EXCEPT ![w] = wk'[w]] /\ wk'[w] \in WorkerRecord
        /\ wk'[w].run = wk[w].run /\ wk'[w].pc = "act"
    BY <1>1, <1>3, <2>1, QuietPosition DEF WorkerRecord
  <2> QED
    BY <2>2 DEF SetsQuiet, Quiet
<1> QED
  BY <1>2, <1>3 DEF AfterError

\* An iteration of Drive makes one statement about its run's permit or none.
LEMMA DriveFits ==
  ASSUME SupInv, NEW w \in Workers,
         \/ DriveAcquire(w) \/ DriveHeld(w) \/ DriveRelease(w) \/ ActStop(w) \/ ActWait(w)
         \/ ActFails(w)
  PROVE  SupInv'
<1>1. wk[w].pc \in {"drive", "act"} /\ KeepProcess
  BY DEF DriveAcquire, DriveHeld, DriveRelease, ActStop, ActWait, ActFails, At, KeepRest
<1>2. RunOf(w) \in Runs /\ proc # 0
  BY <1>1, AtRun DEF Unplaced
<1>3. PICK q \in Runs : q = RunOf(w)
  BY <1>2
<1>4. child' = child /\ wk \in [Workers -> WorkerRecord] /\ phase[q] \in Phase
  BY <1>1, RestKept DEF SupInv, Shape, StoreInv, TypeOK
<1>5. Calm(q)
  <2>1. CASE DriveAcquire(w)
    BY <1>2, <1>3, <1>4, <2>1, CalmAcquire DEF DriveAcquire
  <2>2. CASE DriveHeld(w) \/ ActFails(w)
    BY <1>3, <1>4, <2>2, CalmStutter DEF DriveHeld, ActFails, KeepStore
  <2>3. CASE DriveRelease(w)
    BY <1>2, <1>3, <1>4, <2>3, CalmRelease DEF DriveRelease
  <2>4. CASE ActStop(w)
    BY <1>3, <1>4, <2>4, CalmStutter, CalmAttention DEF ActStop, KeepStore
  <2>5. CASE ActWait(w)
    BY <1>2, <1>3, <1>4, <2>5, CalmRelease, CalmStutter DEF ActWait, KeepStore
  <2> QED
    BY <2>1, <2>2, <2>3, <2>4, <2>5
<1>6. SetsQuiet(w)
  <2>1. CASE DriveAcquire(w)
    <3>1. permit'[q].ver \in Nat
      BY <1>5 DEF Calm, StoreInv, TypeOK
    <3>2. PICK v \in Nat : wk' = [wk EXCEPT ![w].pc = "enter", ![w].lp = v]
      BY <1>3, <2>1, <3>1 DEF DriveAcquire
    <3>3. /\ wk' = [wk EXCEPT ![w] = wk'[w]] /\ wk'[w] \in WorkerRecord
          /\ wk'[w].run = wk[w].run /\ wk'[w].pc = "enter"
      BY <1>4, <3>2, QuietPosition, ZenonT(60) DEF WorkerRecord
    <3> QED
      BY <3>3 DEF SetsQuiet, Quiet
  <2>2. CASE DriveHeld(w)
    <3>1. wk' = [wk EXCEPT ![w].pc = "enter"]
      BY <2>2 DEF DriveHeld, Goto
    <3>2. /\ wk' = [wk EXCEPT ![w] = wk'[w]] /\ wk'[w] \in WorkerRecord
          /\ wk'[w].run = wk[w].run /\ wk'[w].pc = "enter"
      BY <1>4, <3>1, QuietPosition DEF WorkerRecord
    <3> QED
      BY <3>2 DEF SetsQuiet, Quiet
  <2>3. CASE DriveRelease(w)
    <3>1. wk[w].lp \in Nat
      BY <1>4 DEF WorkerRecord
    <3>2. PICK v \in Nat, p \in Phase :
            wk' = [wk EXCEPT ![w].pc = "act", ![w].seen = p, ![w].lp = v]
      BY <1>3, <1>4, <2>3, <3>1 DEF DriveRelease
    <3>3. /\ wk' = [wk EXCEPT ![w] = wk'[w]] /\ wk'[w] \in WorkerRecord
          /\ wk'[w].run = wk[w].run /\ wk'[w].pc = "act"
      BY <1>4, <3>2, QuietPosition, ZenonT(60) DEF WorkerRecord
    <3> QED
      BY <3>3 DEF SetsQuiet, Quiet
  <2>4. CASE ActStop(w)
    <3>1. wk' = [wk EXCEPT ![w].pc = "exit", ![w].out = "driven"]
      BY <2>4 DEF ActStop
    <3>2. /\ wk' = [wk EXCEPT ![w] = wk'[w]] /\ wk'[w] \in WorkerRecord
          /\ wk'[w].run = wk[w].run /\ wk'[w].pc = "exit"
      BY <1>4, <3>1, QuietPosition, ZenonT(60) DEF WorkerRecord
    <3> QED
      BY <3>2 DEF SetsQuiet, Quiet
  <2>5. CASE ActWait(w)
    <3>1. PICK p \in Phase : wk' = [wk EXCEPT ![w].pc = "exit", ![w].seen = p]
      BY <1>3, <1>4, <2>5 DEF ActWait
    <3>2. /\ wk' = [wk EXCEPT ![w] = wk'[w]] /\ wk'[w] \in WorkerRecord
          /\ wk'[w].run = wk[w].run /\ wk'[w].pc = "exit"
      BY <1>4, <3>1, QuietPosition, ZenonT(60) DEF WorkerRecord
    <3> QED
      BY <3>2 DEF SetsQuiet, Quiet
  <2>6. CASE ActFails(w)
    BY <2>6, AfterErrorQuiet DEF ActFails
  <2> QED
    BY <2>1, <2>2, <2>3, <2>4, <2>5, <2>6
<1> QED
  BY <1>1, <1>3, <1>5, <1>6, QuietStep

\* A goroutine that fails does so at a quiet position.
LEMMA FailQuiet ==
  ASSUME SupInv, NEW w \in Workers, Fail(w, "exit")
  PROVE  SetsQuiet(w)
<1>1. wk \in [Workers -> WorkerRecord] /\ wk' = [wk EXCEPT ![w].pc = "exit", ![w].out = "error"]
  BY DEF SupInv, Shape, Fail
<1>2. /\ wk' = [wk EXCEPT ![w] = wk'[w]] /\ wk'[w] \in WorkerRecord
      /\ wk'[w].run = wk[w].run /\ wk'[w].pc = "exit"
  BY <1>1, QuietPosition, ZenonT(60) DEF WorkerRecord
<1> QED
  BY <1>2 DEF SetsQuiet, Quiet

\* Heavy work that is not entered, and heavy work that is left.
LEMMA BorderFits ==
  ASSUME SupInv, NEW w \in Workers,
         EnterRefused(w) \/ StartFails(w) \/ LeasingRefused(w) \/ Leave(w)
  PROVE  SupInv'
<1>1. wk[w].pc \in {"enter", "leasing", "leave"} /\ KeepProcess
  BY DEF EnterRefused, StartFails, LeasingRefused, Leave, At, KeepRest
<1>2. RunOf(w) \in Runs /\ proc # 0
  BY <1>1, AtRun DEF Unplaced
<1>3. PICK q \in Runs : q = RunOf(w)
  BY <1>2
<1>4. child' = child /\ wk \in [Workers -> WorkerRecord]
  BY <1>1, RestKept DEF SupInv, Shape
<1>5. Calm(q)
  <2>1. CASE EnterRefused(w) \/ StartFails(w) \/ LeasingRefused(w)
    BY <1>3, <1>4, <2>1, CalmStutter DEF EnterRefused, StartFails, LeasingRefused, KeepStore
  <2>2. CASE Leave(w)
    BY <1>2, <1>3, <1>4, <2>2, CalmLease DEF Leave
  <2> QED
    BY <2>1, <2>2
<1>6. ASSUME NEW pc \in {"settle", "drive"}, Goto(w, pc) PROVE SetsQuiet(w)
  <2>1. pc \in Positions /\ wk' = [wk EXCEPT ![w].pc = pc]
    BY <1>6, QuietPosition DEF Goto
  <2>2. /\ wk' = [wk EXCEPT ![w] = wk'[w]] /\ wk'[w] \in WorkerRecord
        /\ wk'[w].run = wk[w].run /\ wk'[w].pc = pc
    BY <1>4, <2>1 DEF WorkerRecord
  <2> QED
    BY <2>2 DEF SetsQuiet, Quiet
<1>7. SetsQuiet(w)
  <2>1. CASE EnterRefused(w) \/ LeasingRefused(w)
    BY <2>1, FailQuiet DEF EnterRefused, LeasingRefused
  <2>2. CASE StartFails(w)
    BY <1>6, <2>2, FailQuiet DEF StartFails
  <2>3. CASE Leave(w)
    BY <1>6, <2>3, AfterErrorQuiet DEF Leave
  <2> QED
    BY <2>1, <2>2, <2>3
<1> QED
  BY <1>1, <1>3, <1>5, <1>7, QuietStep
-----------------------------------------------------------------------------
(***************************************************************************)
(* Steps into and within the positions that hold a lease, a permit or an    *)
(* attempt.                                                                 *)
(***************************************************************************)

\* A goroutine's other positions are positions too.
LEMMA HeldPosition ==
  /\ "stop" \in Positions /\ "finish" \in Positions /\ "leasing" \in Positions
  /\ "local" \in Positions /\ "launch" \in Positions /\ "spawn" \in Positions
  /\ "running" \in Positions /\ "leave" \in Positions
BY DEF Positions

\* No sibling launches for the run of a goroutine past its claim.
LEMMA NoOtherLauncher ==
  ASSUME SupInv, NEW w \in Workers, NEW q \in Runs, RunOf(w) = q, ~At(w, "claim")
  PROVE  \A v \in Workers \ {w} : RunOf(v) = q => ~Launching(v)
<1>1. Placed(w)
  BY RunsAssumption, NoRunAssumption DEF SupInv, Shape
<1> QED
  BY <1>1, RunToItself DEF Launching, At

\* Nor is anything started for it, unless by itself or before its recovery.
LEMMA NothingStarted ==
  ASSUME SupInv, NEW w \in Workers, NEW q \in Runs, RunOf(w) = q, ~At(w, "claim"),
         ~Launching(w), ~Recovering(w)
  PROVE  Fresh(q) /\ attempt[q] # "started"
<1>1. Placed(w)
  BY RunsAssumption, NoRunAssumption DEF SupInv, Shape
<1>2. Fresh(q)
  BY <1>1 DEF SupInv, WorkersFit, Fit
<1> QED
  BY <1>2, NoOtherLauncher DEF Fresh

\* One calm statement on the way to any position that fits.
LEMMA CalmStep ==
  ASSUME SupInv, NEW w \in Workers, NEW q \in Runs, RunOf(w) = q, ~At(w, "claim"),
         ~Launching(w), Moves(w), Calm(q), (Fresh(q) => Fresh(q)') => Fit(w)'
  PROVE  SupInv'
<1>1. KeepsRun(q) /\ RunFit(q)
  BY DEF Calm, SupInv, RunsFit
<1>2. Fresh(q) => Fresh(q)'
  BY <1>1, NoOtherLauncher, KeptFresh DEF Moves
<1>3. RunFit(q)'
  BY <1>1, KeptRunFit
<1>4. Elsewhere(q)
  BY DEF Calm, Elsewhere
<1> QED
  BY <1>2, <1>3, <1>4, StepFits

\* Recovery takes the run's lease before it stops anything.
LEMMA RecoverLeaseFits ==
  ASSUME SupInv, NEW w \in Workers, RecoverLease(w)
  PROVE  SupInv'
<1>1. wk[w].pc = "recover" /\ KeepProcess
  BY DEF RecoverLease, At, KeepRest
<1>2. RunOf(w) \in Runs /\ proc # 0 /\ ~At(w, "claim") /\ ~Launching(w) /\ Placed(w)
  BY <1>1, AtRun DEF Unplaced, Launching, At
<1>3. PICK q \in Runs : q = RunOf(w)
  BY <1>2
<1>4. UNCHANGED <<proc, epoch, op>> /\ child' = child /\ child' \in [Runs -> Nat]
  BY <1>1, RestKept
<1>5. Calm(q)
  BY <1>2, <1>3, <1>4, CalmLease DEF RecoverLease
<1>6. Moves(w) /\ wk'[w] = [wk[w] EXCEPT !.pc = "stop"]
  BY <1>4, GotoMoves, HeldPosition DEF RecoverLease, Unplaced
<1>7. wk'[w].pc = "stop" /\ wk'[w].run = q /\ wk'[w].heavy = wk[w].heavy
  BY <1>3, <1>6 DEF SupInv, Shape, WorkerRecord, RunOf
<1>8. lease'[q].by = proc /\ lease'[q].exp > now
  BY <1>3, BoundsAssumption DEF RecoverLease, AcquireLease, TakenLease, SupInv, StoreInv, TypeOK
<1>9. ~Recovering(w)' => Fresh(q)
  BY <1>1, <1>2, <1>3, <1>7 DEF Recovering, SupInv, WorkersFit, Fit
<1>10. ASSUME Fresh(q) => Fresh(q)' PROVE Fit(w)'
  <2>1. (Placed(w) /\ ~Recovering(w) => Fresh(RunOf(w)))'
    BY <1>7, <1>9, <1>10 DEF Fresh, RunOf
  <2>2. (Leased(w) => lease[RunOf(w)].by = proc /\ LeaseLive(RunOf(w)))'
    BY <1>4, <1>5, <1>7, <1>8 DEF RunOf, LeaseLive, Calm
  <2> QED
    BY <1>7, <2>1, <2>2 DEF Fit, At, Working, Launching
<1> QED
  BY <1>2, <1>3, <1>5, <1>6, <1>10, CalmStep

\* Heavy work is entered under the run's permit, begun under its lease, and left
\* at a handoff or after an error.
LEMMA EnterFits ==
  ASSUME SupInv, NEW w \in Workers,
         EnterHeld(w) \/ Leasing(w) \/ LocalReturn(w) \/ LocalFails(w)
  PROVE  SupInv'
<1>1. wk[w].pc \in {"enter", "leasing", "local"} /\ KeepProcess
  BY DEF EnterHeld, Leasing, LocalReturn, LocalFails, At, KeepRest
<1>2. RunOf(w) \in Runs /\ proc # 0 /\ ~At(w, "claim") /\ ~Launching(w) /\ ~Recovering(w)
  BY <1>1, AtRun DEF Unplaced, Launching, At, Recovering
<1>3. PICK q \in Runs : q = RunOf(w)
  BY <1>2
<1>4. UNCHANGED <<proc, epoch, op>> /\ child' = child /\ child' \in [Runs -> Nat]
  BY <1>1, RestKept
<1>5. Fresh(q) /\ Fit(w)
  BY <1>2, <1>3, NothingStarted DEF SupInv, WorkersFit
<1>6. CASE EnterHeld(w)
  <2>1. Calm(q) /\ permit'[q].owner = proc
    BY <1>2, <1>3, <1>4, <1>6, CalmAcquire DEF EnterHeld
  <2>2. Moves(w) /\ wk'[w] = [wk[w] EXCEPT !.pc = "leasing"]
    BY <1>4, <1>6, GotoMoves, HeldPosition DEF EnterHeld, Unplaced
  <2>3. wk'[w].pc = "leasing" /\ wk'[w].run = q
    BY <1>3, <2>2 DEF SupInv, Shape, WorkerRecord, RunOf
  <2>4. ASSUME Fresh(q)' PROVE Fit(w)'
    <3>1. (Placed(w) /\ ~Recovering(w) => Fresh(RunOf(w)))'
      BY <2>3, <2>4 DEF Fresh, RunOf
    <3>2. (At(w, "leasing") /\ Heavy(RunOf(w)) => permit[RunOf(w)].owner = proc)'
      BY <1>4, <2>1, <2>3 DEF RunOf
    <3> QED
      BY <2>3, <3>1, <3>2 DEF Fit, Leased, At, Working, Launching
  <2> QED
    BY <1>2, <1>3, <1>5, <2>1, <2>2, <2>4, CalmStep
<1>7. CASE Leasing(w)
  <2>1. Calm(q)
    BY <1>2, <1>3, <1>4, <1>7, CalmLease DEF Leasing
  <2>2. Moves(w) /\ wk'[w] = [wk[w] EXCEPT !.pc = "local"]
    BY <1>4, <1>7, GotoMoves, HeldPosition DEF Leasing, Unplaced
  <2>3. wk'[w].pc = "local" /\ wk'[w].run = q
    BY <1>3, <2>2 DEF SupInv, Shape, WorkerRecord, RunOf
  <2>4. lease'[q].by = proc /\ lease'[q].exp > now
    BY <1>3, <1>7, BoundsAssumption DEF Leasing, AcquireLease, TakenLease, SupInv, StoreInv, TypeOK
  <2>5. phase'[q] = "heavy" /\ permit'[q].owner = proc
    BY <1>3, <1>5, <1>7 DEF Leasing, AcquireLease, Fit, Heavy
  <2>6. ASSUME Fresh(q)' PROVE Fit(w)'
    <3>1. (Placed(w) /\ ~Recovering(w) => Fresh(RunOf(w)))'
      BY <2>3, <2>6 DEF Fresh, RunOf
    <3>2. (Leased(w) => lease[RunOf(w)].by = proc /\ LeaseLive(RunOf(w)))'
      BY <1>4, <2>1, <2>3, <2>4 DEF RunOf, LeaseLive, Calm
    <3>3. (Working(w) => Heavy(RunOf(w)) /\ permit[RunOf(w)].owner = proc)'
      BY <1>4, <2>3, <2>5 DEF RunOf, Heavy
    <3> QED
      BY <2>3, <3>1, <3>2, <3>3 DEF Fit, At, Launching
  <2> QED
    BY <1>2, <1>3, <1>5, <2>1, <2>2, <2>6, CalmStep
<1>8. CASE LocalReturn(w) \/ LocalFails(w)
  <2>1. Calm(q) /\ lease' = lease
    BY <1>3, <1>4, <1>8, CalmStutter DEF LocalReturn, LocalFails, KeepStore, storeVars
  <2>2. Moves(w) /\ wk'[w].pc = "leave"
    <3>1. CASE LocalReturn(w)
      <4>1. Moves(w) /\ wk'[w] = [wk[w] EXCEPT !.pc = "leave"]
        BY <1>4, <3>1, GotoMoves, HeldPosition DEF LocalReturn, Unplaced
      <4> QED
        BY <4>1 DEF SupInv, Shape, WorkerRecord
    <3>2. CASE LocalFails(w)
      BY <1>4, <3>2, FailMoves, HeldPosition DEF LocalFails, Unplaced
    <3> QED
      BY <1>8, <3>1, <3>2
  <2>3. wk'[w].run = q
    BY <1>3, <2>2 DEF Moves, RunOf, Unplaced
  <2>4. wk[w].pc = "local"
    BY <1>8 DEF LocalReturn, LocalFails, At
  <2>5. lease'[q].by = proc /\ lease'[q].exp > now'
    BY <1>3, <1>5, <2>1, <2>4 DEF Fit, Leased, LeaseLive, Calm
  <2>6. ASSUME Fresh(q)' PROVE Fit(w)'
    <3>1. (Placed(w) /\ ~Recovering(w) => Fresh(RunOf(w)))'
      BY <2>3, <2>6 DEF Fresh, RunOf
    <3>2. (Leased(w) => lease[RunOf(w)].by = proc /\ LeaseLive(RunOf(w)))'
      BY <1>4, <2>3, <2>5 DEF RunOf, LeaseLive
    <3> QED
      BY <2>2, <3>1, <3>2 DEF Fit, At, Working, Launching
  <2> QED
    BY <1>2, <1>3, <1>5, <2>1, <2>2, <2>6, CalmStep
<1> QED
  BY <1>6, <1>7, <1>8

\* A step on the attempt and the children of run q touches no other run.
LEMMA AttemptElsewhere ==
  ASSUME SupInv, NEW q \in Runs, StoreInv', LeaseMoves(q), UNCHANGED <<phase, permit, now, proc>>,
         \A r \in Runs \ {q} : attempt'[r] = attempt[r] /\ child'[r] = child[r]
  PROVE  Elsewhere(q)
BY DEF Elsewhere, KeepsRun, KeepsHeavy, SupInv, StoreInv, TypeOK, Active, Started

\* Attempt statements keep the store's invariant.
LEMMA AttemptInv ==
  ASSUME StoreInv, attempt' \in [Runs -> AttemptStatus],
         lease' \in [Runs -> [by : Nat, exp : Nat]],
         UNCHANGED <<phase, attn, slot, permit, sched, capacity, now>>
  PROVE  StoreInv'
<1>1. TypeOK'
  BY DEF StoreInv, TypeOK
<1> QED
  BY <1>1, FrameInv DEF StoreInv

\* A step of the local controller on its run's attempt and children: a child
\* lives only under a started attempt, and a started attempt only with the
\* goroutine that launched it, unless its exit could not be proven.
LEMMA AttemptStep ==
  ASSUME SupInv, NEW w \in Workers, NEW q \in Runs, RunOf(w) = q, Working(w), Moves(w),
         attempt' \in [Runs -> AttemptStatus],
         UNCHANGED <<phase, attn, lease, slot, permit, sched, capacity, now>>,
         \A r \in Runs \ {q} : attempt'[r] = attempt[r] /\ child'[r] = child[r],
         child'[q] <= 1, child'[q] > 0 => attempt'[q] \in {"started", "unproven"},
         wk'[w].pc \in {"local", "launch", "spawn", "running", "leave"},
         wk'[w].pc = "launch" => attempt'[q] = "prepared",
         wk'[w].pc \in {"spawn", "running"} <=> attempt'[q] = "started",
         wk'[w].pc = "spawn" => child'[q] = 0
  PROVE  SupInv'
<1>1. ~At(w, "claim") /\ Fit(w) /\ proc # 0
  <2>1. wk[w].pc \notin Unplaced \cup {"claim"}
    BY DEF Working, Unplaced
  <2> QED
    BY <2>1, AtRun DEF SupInv, WorkersFit
<1>2. /\ lease[q].by = proc /\ lease[q].exp > now
      /\ phase[q] = "heavy" /\ permit[q].owner = proc
  BY <1>1 DEF Fit, Leased, Working, LeaseLive, Heavy
<1>3. proc' = proc /\ wk'[w].run = q
  BY DEF Moves, Unplaced, RunOf
<1>4. Fresh(q)'
  <2>1. attempt'[q] = "started" => \E v \in Workers : wk'[v].pc \in {"spawn", "running"} /\ wk'[v].run = q
    BY <1>3
  <2> QED
    BY <1>2, <1>3, <2>1 DEF Fresh, Launching, RunOf
<1>5. Fit(w)'
  <2>1. (Placed(w) /\ ~Recovering(w) => Fresh(RunOf(w)))'
    BY <1>3, <1>4 DEF Fresh, RunOf
  <2>2. (Leased(w) => lease[RunOf(w)].by = proc /\ LeaseLive(RunOf(w)))'
    BY <1>2, <1>3 DEF RunOf, LeaseLive
  <2>3. (Working(w) => Heavy(RunOf(w)) /\ permit[RunOf(w)].owner = proc)'
    BY <1>2, <1>3 DEF RunOf, Heavy
  <2>4. /\ (At(w, "launch") => attempt[RunOf(w)] = "prepared")'
        /\ (Launching(w) => attempt[RunOf(w)] = "started")'
        /\ (At(w, "spawn") \/ At(w, "finish") => child[RunOf(w)] = 0)'
    BY <1>3 DEF RunOf, At, Launching
  <2> QED
    BY <2>1, <2>2, <2>3, <2>4 DEF Fit, At
<1>6. RunFit(q)'
  BY <1>1, <1>2 DEF RunFit, Active, Started, HasPermit, Heavy
<1>7. StoreInv'
  BY AttemptInv DEF SupInv, StoreInv, TypeOK
<1>8. Elsewhere(q)
  BY <1>3, <1>7, AttemptElsewhere DEF LeaseMoves
<1> QED
  BY <1>1, <1>4, <1>5, <1>6, <1>8, StepFits

\* What the local controller knows of the attempt it works on.
LEMMA WorkingRun ==
  ASSUME SupInv, NEW w \in Workers, NEW q \in Runs, RunOf(w) = q, Working(w)
  PROVE  /\ At(w, "launch") => attempt[q] = "prepared"
         /\ At(w, "spawn") => child[q] = 0
         /\ Launching(w) => attempt[q] = "started"
         /\ child[q] \in Nat /\ child[q] <= 1
         /\ child[q] > 0 => attempt[q] \in {"started", "unproven"}
BY DEF SupInv, WorkersFit, Fit, RunsFit, RunFit, Heavy, Active, Started, Shape

\* An attempt is begun, launched, reaped and killed.
LEMMA LocalFits ==
  ASSUME SupInv, NEW w \in Workers,
         \/ LocalBegin(w) \/ Launch(w) \/ Spawn(w) \/ LaunchFails(w) \/ Reap(w) \/ Kill(w)
         \/ KillUnproven(w)
  PROVE  SupInv'
<1>1. Working(w)
  BY DEF LocalBegin, Launch, Spawn, LaunchFails, Reap, Kill, KillUnproven, At, Working
<1>2. RunOf(w) \in Runs
  <2>1. wk[w].pc \notin Unplaced \cup {"claim"}
    BY <1>1 DEF Working, Unplaced
  <2> QED
    BY <2>1, AtRun
<1>3. PICK q \in Runs : q = RunOf(w)
  BY <1>2
<1>4. /\ At(w, "launch") => attempt[q] = "prepared"
      /\ At(w, "spawn") => child[q] = 0
      /\ Launching(w) => attempt[q] = "started"
      /\ child[q] \in Nat /\ child[q] <= 1
      /\ child[q] > 0 => attempt[q] \in {"started", "unproven"}
  BY <1>1, <1>3, WorkingRun
<1>5. child \in [Runs -> Nat] /\ attempt \in [Runs -> AttemptStatus]
  BY DEF SupInv, Shape, StoreInv, TypeOK
<1>6. /\ "none" \in AttemptStatus /\ "prepared" \in AttemptStatus /\ "started" \in AttemptStatus
      /\ "unproven" \in AttemptStatus
  BY DEF AttemptStatus
<1>7. ASSUME NEW s \in AttemptStatus, attempt' = [attempt EXCEPT ![q] = s]
       PROVE  /\ attempt' \in [Runs -> AttemptStatus] /\ attempt'[q] = s
              /\ \A r \in Runs \ {q} : attempt'[r] = attempt[r]
  BY <1>5, <1>7
<1>8. ASSUME NEW pc \in {"local", "launch", "spawn", "running"}, Goto(w, pc),
             UNCHANGED <<proc, epoch, op>>, child' \in [Runs -> Nat]
      PROVE  Moves(w) /\ wk'[w].pc = pc
  <2>1. pc \in Positions \ (Unplaced \cup {"claim"})
    BY HeldPosition DEF Unplaced
  <2>2. Moves(w) /\ wk'[w] = [wk[w] EXCEPT !.pc = pc]
    BY <1>8, <2>1, GotoMoves
  <2> QED
    BY <2>2 DEF SupInv, Shape, WorkerRecord
<1>9. ASSUME Fail(w, "leave"), UNCHANGED <<proc, epoch, op>>, child' \in [Runs -> Nat]
      PROVE  Moves(w) /\ wk'[w].pc = "leave"
  BY <1>9, FailMoves, HeldPosition DEF Unplaced
<1>10. CASE LocalBegin(w)
  <2>1. UNCHANGED <<proc, epoch, op, child>> /\ Goto(w, "launch") /\ attempt[q] \in {"none", "prepared"}
    BY <1>3, <1>10 DEF LocalBegin, KeepRest, KeepProcess, BeginAttempt, SetAttempt
  <2>2. /\ attempt' = [attempt EXCEPT ![q] = "prepared"]
        /\ UNCHANGED <<phase, attn, lease, slot, permit, sched, capacity, now>>
    BY <1>3, <1>10 DEF LocalBegin, BeginAttempt, SetAttempt
  <2>3. Moves(w) /\ wk'[w].pc = "launch" /\ child'[q] = 0
    BY <1>4, <1>5, <1>8, <2>1
  <2>4. /\ attempt' \in [Runs -> AttemptStatus] /\ attempt'[q] = "prepared"
        /\ \A r \in Runs \ {q} : attempt'[r] = attempt[r]
    BY <1>6, <1>7, <2>2
  <2> QED
    BY <1>1, <1>3, <2>1, <2>2, <2>3, <2>4, AttemptStep
<1>11. CASE Launch(w)
  <2>1. UNCHANGED <<proc, epoch, op, child>> /\ Goto(w, "spawn") /\ attempt[q] = "prepared"
    BY <1>3, <1>11 DEF Launch, KeepRest, KeepProcess, CommitAttemptProcessLaunch, SetAttempt
  <2>2. /\ attempt' = [attempt EXCEPT ![q] = "started"]
        /\ UNCHANGED <<phase, attn, lease, slot, permit, sched, capacity, now>>
    BY <1>3, <1>11 DEF Launch, CommitAttemptProcessLaunch, SetAttempt
  <2>3. Moves(w) /\ wk'[w].pc = "spawn" /\ child'[q] = 0
    BY <1>4, <1>5, <1>8, <2>1
  <2>4. /\ attempt' \in [Runs -> AttemptStatus] /\ attempt'[q] = "started"
        /\ \A r \in Runs \ {q} : attempt'[r] = attempt[r]
    BY <1>6, <1>7, <2>2
  <2> QED
    BY <1>1, <1>3, <2>1, <2>2, <2>3, <2>4, AttemptStep
<1>12. CASE Spawn(w)
  <2>1. /\ UNCHANGED <<proc, epoch, op>> /\ Goto(w, "running") /\ At(w, "spawn")
        /\ child' = [child EXCEPT ![q] = @ + 1]
    BY <1>3, <1>12 DEF Spawn
  <2>2. /\ attempt' = attempt /\ attempt[q] = "started"
        /\ UNCHANGED <<phase, attn, lease, slot, permit, sched, capacity, now>>
    BY <1>4, <1>12, <2>1 DEF Spawn, KeepStore, storeVars, Launching, At
  <2>3. attempt' = [attempt EXCEPT ![q] = "started"]
    BY <1>5, <2>2
  <2>4. /\ child'[q] = 1 /\ child' \in [Runs -> Nat]
        /\ \A r \in Runs \ {q} : child'[r] = child[r]
    BY <1>4, <1>5, <2>1
  <2>5. Moves(w) /\ wk'[w].pc = "running"
    BY <1>8, <2>1, <2>4
  <2>6. /\ attempt' \in [Runs -> AttemptStatus] /\ attempt'[q] = "started"
        /\ \A r \in Runs \ {q} : attempt'[r] = attempt[r]
    BY <1>6, <1>7, <2>3
  <2> QED
    BY <1>1, <1>3, <2>2, <2>3, <2>4, <2>5, <2>6, AttemptStep
<1>13. CASE LaunchFails(w)
  <2>1. UNCHANGED <<proc, epoch, op, child>> /\ Fail(w, "leave")
    BY <1>13 DEF LaunchFails, KeepRest, KeepProcess
  <2>2. /\ attempt' = [attempt EXCEPT ![q] = "none"]
        /\ UNCHANGED <<phase, attn, lease, slot, permit, sched, capacity, now>>
    BY <1>3, <1>13 DEF LaunchFails, FinishAttempt, SetAttempt
  <2>3. child'[q] = 0
    BY <1>4, <1>13, <2>1 DEF LaunchFails, At
  <2>4. Moves(w) /\ wk'[w].pc = "leave"
    BY <1>5, <1>9, <2>1
  <2>5. /\ attempt' \in [Runs -> AttemptStatus] /\ attempt'[q] = "none"
        /\ \A r \in Runs \ {q} : attempt'[r] = attempt[r]
    BY <1>6, <1>7, <2>2
  <2> QED
    BY <1>1, <1>3, <2>1, <2>2, <2>3, <2>4, <2>5, AttemptStep
<1>14. CASE Reap(w)
  <2>1. UNCHANGED <<proc, epoch, op, child>> /\ Goto(w, "local") /\ child[q] = 0
    BY <1>3, <1>14 DEF Reap, KeepRest, KeepProcess
  <2>2. /\ attempt' = [attempt EXCEPT ![q] = "none"]
        /\ UNCHANGED <<phase, attn, lease, slot, permit, sched, capacity, now>>
    BY <1>3, <1>14 DEF Reap, FinishAttempt, SetAttempt
  <2>3. Moves(w) /\ wk'[w].pc = "local" /\ child'[q] = 0
    BY <1>5, <1>8, <2>1
  <2>4. /\ attempt' \in [Runs -> AttemptStatus] /\ attempt'[q] = "none"
        /\ \A r \in Runs \ {q} : attempt'[r] = attempt[r]
    BY <1>6, <1>7, <2>2
  <2> QED
    BY <1>1, <1>3, <2>1, <2>2, <2>3, <2>4, AttemptStep
<1>15. CASE Kill(w)
  <2>1. /\ UNCHANGED <<proc, epoch, op>> /\ Fail(w, "leave")
        /\ child' = [child EXCEPT ![q] = 0]
    BY <1>3, <1>15 DEF Kill
  <2>2. /\ attempt' = [attempt EXCEPT ![q] = "none"]
        /\ UNCHANGED <<phase, attn, lease, slot, permit, sched, capacity, now>>
    BY <1>3, <1>15 DEF Kill, FinishAttempt, SetAttempt
  <2>3. /\ child'[q] = 0 /\ child' \in [Runs -> Nat]
        /\ \A r \in Runs \ {q} : child'[r] = child[r]
    BY <1>5, <2>1
  <2>4. Moves(w) /\ wk'[w].pc = "leave"
    BY <1>9, <2>1, <2>3
  <2>5. /\ attempt' \in [Runs -> AttemptStatus] /\ attempt'[q] = "none"
        /\ \A r \in Runs \ {q} : attempt'[r] = attempt[r]
    BY <1>6, <1>7, <2>2
  <2> QED
    BY <1>1, <1>3, <2>2, <2>3, <2>4, <2>5, AttemptStep
<1>16. CASE KillUnproven(w)
  <2>1. UNCHANGED <<proc, epoch, op, child>> /\ Fail(w, "leave")
    BY <1>16 DEF KillUnproven, KeepRest, KeepProcess
  <2>2. /\ attempt' = [attempt EXCEPT ![q] = "unproven"]
        /\ UNCHANGED <<phase, attn, lease, slot, permit, sched, capacity, now>>
    BY <1>3, <1>16 DEF KillUnproven, FinishUnproven, SetAttempt
  <2>3. Moves(w) /\ wk'[w].pc = "leave" /\ child'[q] <= 1
    BY <1>4, <1>5, <1>9, <2>1
  <2>4. /\ attempt' \in [Runs -> AttemptStatus] /\ attempt'[q] = "unproven"
        /\ \A r \in Runs \ {q} : attempt'[r] = attempt[r]
    BY <1>6, <1>7, <2>2
  <2> QED
    BY <1>1, <1>3, <2>1, <2>2, <2>3, <2>4, AttemptStep
<1> QED
  BY <1>10, <1>11, <1>12, <1>13, <1>14, <1>15, <1>16

\* Recovery stops the child before it finishes the attempt.
LEMMA StopFits ==
  ASSUME SupInv, NEW w \in Workers,
         StopAttempt(w) \/ FinishStopped(w) \/ FinishMissingSession(w)
  PROVE  SupInv'
<1>1. wk[w].pc \in {"stop", "finish"} /\ UNCHANGED <<proc, epoch, op>>
  BY DEF StopAttempt, FinishStopped, FinishMissingSession, At, KeepRest, KeepProcess
<1>2. RunOf(w) \in Runs /\ proc # 0 /\ ~At(w, "claim") /\ ~Launching(w) /\ Placed(w)
  BY <1>1, AtRun DEF Unplaced, Launching, At
<1>3. PICK q \in Runs : q = RunOf(w)
  BY <1>2
<1>4. Fit(w) /\ RunFit(q) /\ wk \in [Workers -> WorkerRecord] /\ child \in [Runs -> Nat]
  BY DEF SupInv, WorkersFit, RunsFit, Shape
<1>5. CASE StopAttempt(w)
  <2>1. /\ child' = [child EXCEPT ![q] = 0] /\ Goto(w, "finish") /\ wk[w].pc = "stop"
        /\ UNCHANGED storeVars
    BY <1>3, <1>5 DEF StopAttempt, KeepStore, At
  <2>2. /\ child' \in [Runs -> Nat] /\ child'[q] = 0
        /\ \A r \in Runs \ {q} : child'[r] = child[r]
    BY <1>4, <2>1
  <2>3. Moves(w) /\ wk'[w] = [wk[w] EXCEPT !.pc = "finish"]
    BY <1>1, <2>1, <2>2, GotoMoves, HeldPosition DEF Unplaced
  <2>4. wk'[w].pc = "finish" /\ wk'[w].run = q /\ wk'[w].heavy = wk[w].heavy
    BY <1>3, <1>4, <2>3 DEF WorkerRecord, RunOf
  <2>5. Elsewhere(q)
    <3>1. StoreInv'
      BY <2>1, StutterInv DEF SupInv
    <3> QED
      BY <1>1, <2>1, <2>2, <3>1, AttemptElsewhere DEF storeVars, LeaseMoves
  <2>6. RunFit(q)'
    BY <1>4, <2>1, <2>2 DEF storeVars, RunFit, Active, Started, HasPermit, Heavy
  <2>7. Fresh(q) => Fresh(q)'
    <3>1. \A v \in Workers : RunOf(v) = q /\ Launching(v) => wk'[v] = wk[v]
      BY <1>2, <2>3 DEF Moves
    <3> QED
      BY <1>1, <2>1, <3>1 DEF storeVars, Fresh, Active, Started, Launching, RunOf
  <2>8. Fit(w)'
    <3>1. ~Recovering(w)' => Fresh(q)
      BY <1>2, <1>3, <1>4, <2>1, <2>4 DEF Fit, Recovering
    <3>2. (Placed(w) /\ ~Recovering(w) => Fresh(RunOf(w)))'
      BY <2>4, <2>7, <3>1 DEF Fresh, RunOf
    <3>3. lease[q].by = proc /\ lease[q].exp > now
      BY <1>3, <1>4, <2>1 DEF Fit, Leased, LeaseLive
    <3>4. (Leased(w) => lease[RunOf(w)].by = proc /\ LeaseLive(RunOf(w)))'
      BY <1>1, <2>1, <2>4, <3>3 DEF storeVars, RunOf, LeaseLive
    <3> QED
      BY <2>2, <2>4, <3>2, <3>4 DEF Fit, At, Working, Launching, RunOf
  <2> QED
    BY <1>2, <1>3, <2>3, <2>5, <2>6, <2>7, <2>8, StepFits
<1>6. ASSUME FinishStopped(w) \/ FinishMissingSession(w)
      PROVE  /\ attempt' = [attempt EXCEPT ![q] = "none"] /\ child' = child /\ now' = now
             /\ lease' = ReleasedLease(q, proc) /\ child[q] = 0
             /\ Fresh(q)' /\ lease' \in [Runs -> [by : Nat, exp : Nat]]
             /\ attempt' \in [Runs -> AttemptStatus] /\ attempt'[q] = "none"
             /\ \A r \in Runs \ {q} : attempt'[r] = attempt[r]
  <2>1. /\ attempt' = [attempt EXCEPT ![q] = "none"] /\ child' = child /\ now' = now
        /\ lease' = ReleasedLease(q, proc)
    BY <1>3, <1>6 DEF FinishStopped, FinishMissingSession, KeepRest, KeepProcess, SetPhase
  <2>2. child[q] = 0
    BY <1>3, <1>4, <1>6 DEF FinishStopped, FinishMissingSession, Fit, At
  <2>3. /\ lease' \in [Runs -> [by : Nat, exp : Nat]] /\ attempt' \in [Runs -> AttemptStatus]
        /\ attempt'[q] = "none" /\ \A r \in Runs \ {q} : attempt'[r] = attempt[r]
    BY <2>1 DEF SupInv, StoreInv, TypeOK, ReleasedLease, NoLease, AttemptStatus
  <2>4. Fresh(q)'
    BY <2>3 DEF Fresh, Started
  <2> QED
    BY <2>1, <2>2, <2>3, <2>4
<1>7. CASE FinishStopped(w)
  <2>1. wk[w].back \in {"check", "reacquire"}
    BY <1>4 DEF WorkerRecord
  <2>2. PICK pc \in {"check", "reacquire"} : pc = wk[w].back
    BY <2>1
  <2>3. pc \in Positions \ (Unplaced \cup {"claim"})
    BY <2>2 DEF Positions, Unplaced
  <2>4. Moves(w) /\ wk'[w] = [wk[w] EXCEPT !.pc = pc]
    BY <1>1, <1>4, <1>6, <1>7, <2>2, <2>3, GotoMoves DEF FinishStopped
  <2>5. wk'[w].pc = pc /\ wk'[w].run = q
    BY <1>3, <1>4, <2>4 DEF WorkerRecord, RunOf
  <2>6. StoreInv'
    BY <1>6, <1>7, AttemptInv DEF FinishStopped, SupInv
  <2>7. Elsewhere(q)
    BY <1>1, <1>6, <1>7, <2>6, AttemptElsewhere DEF FinishStopped, LeaseMoves
  <2>8. RunFit(q)'
    BY <1>6, <1>7 DEF RunFit, Started
  <2>9. Fit(w)'
    <3>1. (Placed(w) /\ ~Recovering(w) => Fresh(RunOf(w)))'
      BY <1>6, <1>7, <2>5 DEF Fresh, RunOf
    <3> QED
      BY <2>5, <3>1 DEF Fit, At, Leased, Working, Launching
  <2> QED
    BY <1>2, <1>3, <1>6, <1>7, <2>4, <2>7, <2>8, <2>9, StepFits
<1>8. CASE FinishMissingSession(w)
  <2>1. SetPhase(q, "human") /\ Active(q)
    BY <1>3, <1>8 DEF FinishMissingSession, Heavy, Active
  <2>2. Moves(w) /\ wk'[w].pc = "done"
    BY <1>1, <1>4, <1>6, <1>8, DoneMoves DEF FinishMissingSession
  <2>3. StoreInv'
    BY <1>6, <1>8, <2>1, SetPhaseInv DEF SupInv, Phase
  <2>4. permit' = permit /\ \A r \in Runs \ {q} : phase'[r] = phase[r]
    BY <2>1 DEF SetPhase, SupInv, StoreInv, TypeOK
  <2>5. Elsewhere(q)
    BY <1>1, <1>6, <1>8, <2>3, <2>4 DEF Elsewhere, LeaseMoves, KeepsRun, KeepsHeavy
  <2>6. RunFit(q)'
    BY <1>6, <1>8 DEF RunFit, Started
  <2>7. Fit(w)'
    BY <2>2 DEF Fit, Placed, Unplaced, Leased, At, Working, Launching
  <2> QED
    BY <1>2, <1>3, <1>6, <1>8, <2>2, <2>5, <2>6, <2>7, StepFits
<1> QED
  BY <1>5, <1>7, <1>8

\* No transition undoes the creation of a run.
LEMMA StepIsPresent == \A p : "absent" \notin PhaseStep(p)
<1> SUFFICES ASSUME NEW p, <<p, "absent">> \in PhaseEdges PROVE FALSE
  BY DEF PhaseStep
<1>1. PICK e \in State \X State : <<p, "absent">> = <<PhaseOf(e[1]), PhaseOf(e[2])>>
  BY DEF PhaseEdges
<1>2. PhaseOf(e[2]) = "absent"
  BY <1>1
<1>3. \A s : PhaseOf(s) # "absent"
  BY DEF PhaseOf
<1> QED
  BY <1>2, <1>3

\* A transition of the run of a goroutine past its claim, with nothing launched.
LEMMA TransitionFits ==
  ASSUME SupInv, NEW w \in Workers, NEW q \in Runs, RunOf(w) = q, ~At(w, "claim"),
         ~Launching(w), ~Recovering(w), Moves(w), child' = child,
         NEW p \in Phase, Transition(q, p),
         Fresh(q)' => Fit(w)'
  PROVE  SupInv'
<1>1. attempt[q] # "started" /\ Fresh(q) /\ RunFit(q) /\ proc' = proc
  BY NothingStarted DEF SupInv, RunsFit, Moves
<1>2. p # "absent"
  BY StepIsPresent DEF Transition
<1>3. StoreInv'
  BY <1>2, TransitionInv DEF SupInv
<1>4. /\ phase'[q] = p /\ attempt' = attempt /\ lease' = lease /\ now' = now
      /\ \A r \in Runs \ {q} : phase'[r] = phase[r] /\ permit'[r] = permit[r]
      /\ p # "terminal" => permit' = permit
      /\ Active(q)
  BY DEF Transition, SetPhase, ReleaseTerminalAuthority, SupInv, StoreInv, TypeOK
<1>5. Elsewhere(q)
  BY <1>3, <1>4 DEF Elsewhere, LeaseMoves, KeepsRun, KeepsHeavy
<1>6. Fresh(q)'
  BY <1>1, <1>4 DEF Fresh, Active, Started
<1>7. RunFit(q)'
  BY <1>1, <1>2, <1>4 DEF RunFit, Active, Started, HasPermit
<1> QED
  BY <1>5, <1>6, <1>7, StepFits

\* The transitions a drive makes.
LEMMA TransitionsFit ==
  ASSUME SupInv, NEW w \in Workers,
         ActExternal(w) \/ LocalTransition(w) \/ ApprovalInvalidated(w) \/ RepairDeadline(w)
  PROVE  SupInv'
<1>1. wk[w].pc \in {"act", "local", "leave"} /\ KeepProcess
  BY DEF ActExternal, LocalTransition, ApprovalInvalidated, RepairDeadline, At, KeepRest
<1>2. RunOf(w) \in Runs /\ proc # 0 /\ ~At(w, "claim") /\ ~Launching(w) /\ ~Recovering(w)
  BY <1>1, AtRun DEF Unplaced, Launching, Recovering, At
<1>3. PICK q \in Runs : q = RunOf(w)
  BY <1>2
<1>4. UNCHANGED <<proc, epoch, op>> /\ child' = child /\ child' \in [Runs -> Nat]
  BY <1>1, RestKept
<1>5. PICK p \in Phase, pc \in {"drive", "local", "leave"} :
        /\ Transition(q, p) /\ Goto(w, pc)
        /\ pc = "local" => wk[w].pc = "local" /\ p = "heavy"
        /\ pc = "leave" => wk[w].pc \in {"local", "leave"}
  <2>1. "terminal" \in Phase /\ "human" \in Phase
    BY DEF Phase
  <2>2. CASE ActExternal(w)
    BY <1>3, <2>2 DEF ActExternal
  <2>3. CASE LocalTransition(w)
    <3>1. PICK p \in Phase : Transition(q, p) /\ Goto(w, IF p = "heavy" THEN "local" ELSE "leave")
      BY <1>3, <2>3 DEF LocalTransition
    <3>2. wk[w].pc = "local"
      BY <2>3 DEF LocalTransition, At
    <3>3. CASE p = "heavy"
      BY <3>1, <3>2, <3>3
    <3>4. CASE p # "heavy"
      BY <3>1, <3>2, <3>4
    <3> QED
      BY <3>3, <3>4
  <2>4. CASE ApprovalInvalidated(w)
    BY <1>3, <2>1, <2>4 DEF ApprovalInvalidated, At
  <2>5. CASE RepairDeadline(w)
    BY <1>3, <2>1, <2>5 DEF RepairDeadline, At
  <2> QED
    BY <2>2, <2>3, <2>4, <2>5
<1>6. Moves(w) /\ wk'[w] = [wk[w] EXCEPT !.pc = pc]
  <2>1. pc \in Positions \ (Unplaced \cup {"claim"})
    BY QuietPosition, HeldPosition DEF Unplaced
  <2> QED
    BY <1>4, <1>5, <2>1, GotoMoves
<1>7. wk'[w].pc = pc /\ wk'[w].run = q
  BY <1>3, <1>6 DEF SupInv, Shape, WorkerRecord, RunOf
<1>8. ASSUME Fresh(q)' PROVE Fit(w)'
  <2>1. Fit(w) /\ lease' = lease /\ now' = now /\ phase'[q] = p
        /\ (p # "terminal" => permit' = permit)
    BY <1>5 DEF SupInv, WorkersFit, Transition, SetPhase, StoreInv, TypeOK
  <2>2. (Placed(w) /\ ~Recovering(w) => Fresh(RunOf(w)))'
    BY <1>7, <1>8 DEF Fresh, RunOf
  <2>3. pc \in {"local", "leave"} => lease[q].by = proc /\ lease[q].exp > now
    BY <1>3, <1>5, <2>1 DEF Fit, Leased, LeaseLive
  <2>4. (Leased(w) => lease[RunOf(w)].by = proc /\ LeaseLive(RunOf(w)))'
    BY <1>4, <1>5, <1>7, <2>1, <2>3 DEF RunOf, LeaseLive, Leased
  <2>5. pc = "local" => permit[q].owner = proc /\ permit' = permit /\ p = "heavy"
    BY <1>3, <1>5, <2>1 DEF Fit, Working
  <2>6. (Working(w) => Heavy(RunOf(w)) /\ permit[RunOf(w)].owner = proc)'
    BY <1>4, <1>5, <1>7, <2>1, <2>5 DEF RunOf, Heavy, Working
  <2> QED
    BY <1>5, <1>7, <2>2, <2>4, <2>6 DEF Fit, At, Launching
<1> QED
  BY <1>2, <1>3, <1>4, <1>5, <1>6, <1>8, TransitionFits
-----------------------------------------------------------------------------
(***************************************************************************)
(* The worker's loop and the selection of a run.                            *)
(***************************************************************************)

\* Goroutine w is at most at a claim, before and after; the store's statement
\* keeps every run, and the other goroutines stay where they are.
Selects(w) ==
  /\ wk[w].pc \in Unplaced \cup {"claim"}
  /\ UNCHANGED <<now, lease, child, epoch, op>>
  /\ StoreInv'
  /\ wk' \in [Workers -> WorkerRecord]
  /\ \A v \in Workers \ {w} : wk'[v] = wk[v]

\* A goroutine without a run, and a claim of a run no sibling has claimed, keep
\* the shape, the claims and the command's lease.
LEMMA SelectShape ==
  ASSUME SupInv, NEW w \in Workers, Selects(w), proc' = proc,
         (Placed(w) <=> RunOf(w) # NoRun)', (~At(w, "idle") => proc # 0)',
         At(w, "claim")' \/ ~Placed(w)' \/ \A v \in Workers \ {w} : RunOf(v) = RunOf(w)' => At(v, "claim")
  PROVE  Shape' /\ Alone' /\ Commanded'
<1>1. Shape'
  <2>1. \A v \in Workers : (Placed(v) <=> RunOf(v) # NoRun)' /\ (~At(v, "idle") => proc # 0)'
    <3> TAKE v \in Workers
    <3>1. CASE v # w
      BY <3>1 DEF SupInv, Shape, Selects, Placed, RunOf, At
    <3>2. CASE v = w
      BY <3>2
    <3> QED
      BY <3>1, <3>2
  <2> QED
    BY <2>1 DEF SupInv, Shape, Selects
<1>2. Alone'
  <2> SUFFICES ASSUME NEW u \in Workers, NEW v \in Workers, u # v,
                      wk'[u].run = wk'[v].run, wk'[u].run # NoRun
               PROVE  wk'[u].pc = "claim" \/ wk'[v].pc = "claim"
    BY DEF Alone, RunOf, At
  <2>1. CASE u # w /\ v # w
    BY <2>1 DEF SupInv, Alone, Selects, RunOf, At
  <2>2. CASE u = w
    BY <2>2 DEF Selects, RunOf, At, Placed
  <2>3. CASE v = w
    BY <2>3 DEF Selects, RunOf, At, Placed
  <2> QED
    BY <2>1, <2>2, <2>3
<1>3. Commanded'
  BY DEF SupInv, Commanded, Selects, LeaseLive
<1> QED
  BY <1>1, <1>2, <1>3

\* Such a step need be looked at for goroutine w only.
LEMMA SelectFits ==
  ASSUME SupInv, NEW w \in Workers, Selects(w), proc' = proc,
         \A r \in Runs : KeepsRun(r) /\ KeepsHeavy(r),
         (Placed(w) <=> RunOf(w) # NoRun)', (~At(w, "idle") => proc # 0)',
         At(w, "claim")' \/ ~Placed(w)' \/ \A v \in Workers \ {w} : RunOf(v) = RunOf(w)' => At(v, "claim"),
         (\A r \in Runs : Fresh(r) => Fresh(r)') => Fit(w)'
  PROVE  SupInv'
<1>1. ~Launching(w)
  BY DEF Selects, Launching, Unplaced
<1>2. Shape' /\ Alone' /\ Commanded'
  BY SelectShape
<1>3. \A r \in Runs : Fresh(r) => Fresh(r)'
  <2> TAKE r \in Runs
  <2>1. \A v \in Workers : Launching(v) /\ RunOf(v) = r => wk'[v] = wk[v]
    BY <1>1 DEF Selects
  <2> QED
    BY <2>1, KeptFresh
<1>4. ASSUME NEW v \in Workers PROVE Fit(v)'
  <2>1. CASE v = w
    BY <1>3, <2>1
  <2>2. CASE v # w
    <3>1. wk'[v] = wk[v] /\ Fit(v) /\ Shape
      BY <2>2 DEF Selects, SupInv, WorkersFit
    <3>2. CASE ~Placed(v)
      <4>1. ~Placed(v)'
        BY <3>1, <3>2 DEF Placed
      <4> QED
        BY <4>1 DEF Fit, Placed, Unplaced, Leased, At, Working, Launching
    <3>3. CASE Placed(v)
      <4>1. PICK r \in Runs : RunOf(v) = r
        BY <3>1, <3>3 DEF Shape, WorkerRecord, RunOf
      <4>2. KeepsLease(r, proc)
        BY DEF KeepsLease, Selects, LeaseLive
      <4> QED
        BY <3>1, <4>1, <4>2, <1>3, KeptFit
    <3> QED
      BY <3>2, <3>3
  <2> QED
    BY <2>1, <2>2
<1>5. RunsFit'
  BY KeptRunFit DEF SupInv, RunsFit
<1> QED
  BY <1>2, <1>4, <1>5 DEF SupInv, Selects, WorkersFit

\* What reconciliation and no statement at all leave of every run.
LEMMA ScanKeeps ==
  ASSUME SupInv, ReconcileSchedulingAuthorities \/ UNCHANGED storeVars, child' = child, proc # 0
  PROVE  /\ StoreInv' /\ now' = now /\ lease' = lease
         /\ \A r \in Runs : KeepsRun(r) /\ KeepsHeavy(r)
<1>1. CASE UNCHANGED storeVars
  BY <1>1, StutterInv DEF SupInv, storeVars, KeepsRun, KeepsHeavy
<1>2. CASE ReconcileSchedulingAuthorities
  <2>1. StoreInv'
    BY <1>2, ReconcileInv
    DEF SupInv, StoreInv, TypeOK, ReconcileSchedulingAuthorities, Reconciles
  <2>2. ASSUME NEW r \in Runs PROVE KeepsRun(r) /\ KeepsHeavy(r)
    <3>1. permit'[r] = ReconciledPermit(r) /\ phase' = phase /\ attempt' = attempt
      BY <1>2 DEF ReconcileSchedulingAuthorities
    <3>2. /\ Active(r) /\ Started(r) => permit'[r] = permit[r] \/ ~HasPermit(r)
          /\ Heavy(r) => permit'[r] = permit[r]
      BY <1>2, <3>1, ReconcileKeepsRuns DEF ReconcileSchedulingAuthorities
    <3> QED
      BY <3>1, <3>2 DEF KeepsRun, KeepsHeavy, HasPermit
  <2> QED
    BY <1>2, <2>1, <2>2 DEF ReconcileSchedulingAuthorities
<1> QED
  BY <1>1, <1>2

\* A dispatch that finds nothing returns, or asks for a new run.
LEMMA ScanEnds ==
  ASSUME SupInv, NEW w \in Workers, wk[w].pc \in {"scan", "claim", "admit"},
         ReconcileSchedulingAuthorities \/ UNCHANGED storeVars, KeepProcess,
         NEW rec \in WorkerRecord, rec.pc \in {"admit", "done"}, rec.run = NoRun,
         wk' = [wk EXCEPT ![w] = rec]
  PROVE  SupInv'
<1>1. UNCHANGED <<proc, epoch, op>> /\ child' = child
  BY DEF KeepProcess
<1>2. proc # 0 /\ wk \in [Workers -> WorkerRecord]
  BY DEF SupInv, Shape, At
<1>3. StoreInv' /\ now' = now /\ lease' = lease /\ \A r \in Runs : KeepsRun(r) /\ KeepsHeavy(r)
  BY <1>1, <1>2, ScanKeeps
<1>4. wk' \in [Workers -> WorkerRecord] /\ wk'[w] = rec /\ \A v \in Workers \ {w} : wk'[v] = wk[v]
  BY <1>2
<1>5. Selects(w)
  BY <1>1, <1>3, <1>4 DEF Selects, Unplaced
<1>6. /\ (Placed(w) <=> RunOf(w) # NoRun)' /\ (~At(w, "idle") => proc # 0)'
      /\ ~Placed(w)' /\ Fit(w)'
  BY <1>1, <1>2, <1>4 DEF Placed, RunOf, At, Unplaced, Fit, Leased, Working, Launching
<1> QED
  BY <1>1, <1>3, <1>5, <1>6, SelectFits

\* A run read outside heavy work whose reconciliation succeeds has nothing
\* started: a started attempt keeps its permit, which is a conflict there.
LEMMA PickedIsFresh ==
  ASSUME SupInv, NEW r \in Runs, Selectable(r), ~Heavy(r), ~ReconcileConflict
  PROVE  ~Started(r)
<1>1. Active(r) /\ Settled(r)
  BY DEF Selectable, ReconciledRow, ReconciledState
<1>2. Started(r) => HasPermit(r)
  BY <1>1 DEF SupInv, RunsFit, RunFit
<1> QED
  BY <1>1, <1>2 DEF ReconcileConflict

\* A dispatch reconciles and selects a run.
LEMMA ScanPickFits ==
  ASSUME SupInv, NEW w \in Workers, ScanPick(w)
  PROVE  SupInv'
<1>1. wk[w].pc = "scan" /\ UNCHANGED <<proc, epoch, op>> /\ child' = child
  BY DEF ScanPick, At, KeepRest, KeepProcess
<1>2. proc # 0 /\ wk \in [Workers -> WorkerRecord]
  BY <1>1 DEF SupInv, Shape, At
<1>3. StoreInv' /\ now' = now /\ lease' = lease /\ \A r \in Runs : KeepsRun(r) /\ KeepsHeavy(r)
  BY <1>1, <1>2, ScanKeeps DEF ScanPick
<1>4. PICK r \in Runs :
        /\ Selectable(r)
        /\ wk' = [wk EXCEPT ![w].pc = "claim", ![w].run = r, ![w].heavy = Heavy(r),
                            ![w].adm = ~LeaseFreePath]
  BY DEF ScanPick, NextScheduledRun
<1>5. PICK h \in BOOLEAN, a \in BOOLEAN :
        /\ h <=> Heavy(r)
        /\ wk' = [wk EXCEPT ![w].pc = "claim", ![w].run = r, ![w].heavy = h, ![w].adm = a]
  <2>1. Heavy(r) \in BOOLEAN
    BY DEF Heavy
  <2>2. (~LeaseFreePath) \in BOOLEAN
    BY Zenon
  <2> QED
    BY <1>4, <2>1, <2>2
<1>6. /\ wk' \in [Workers -> WorkerRecord] /\ \A v \in Workers \ {w} : wk'[v] = wk[v]
      /\ wk'[w].pc = "claim" /\ wk'[w].run = r /\ wk'[w].heavy = h
  <2>1. "claim" \in Positions
    BY DEF Positions
  <2>a. /\ wk[w] \in WorkerRecord
        /\ wk'[w] = [wk[w] EXCEPT !.pc = "claim", !.run = r, !.heavy = h, !.adm = a]
    BY <1>2, <1>5
  <2>2. wk'[w].pc = "claim" /\ wk'[w].run = r /\ wk'[w].heavy = h
    BY <2>a, ZenonT(60) DEF WorkerRecord
  <2>3. wk'[w] \in WorkerRecord
    BY <2>1, <2>a DEF WorkerRecord
  <2>4. wk' = [wk EXCEPT ![w] = wk'[w]]
    BY <1>2, <1>5, ZenonT(60)
  <2> QED
    BY <1>2, <2>2, <2>3, <2>4
<1>7. Selects(w)
  BY <1>1, <1>3, <1>6 DEF Selects, Unplaced
<1>8. /\ (Placed(w) <=> RunOf(w) # NoRun)' /\ (~At(w, "idle") => proc # 0)' /\ At(w, "claim")'
  BY <1>1, <1>2, <1>6, RunsAssumption, NoRunAssumption DEF Placed, RunOf, At, Unplaced
<1>9. ASSUME \A q \in Runs : Fresh(q) => Fresh(q)' PROVE Fit(w)'
  <2>1. ~h => Fresh(r)
    BY <1>4, <1>5, PickedIsFresh DEF ScanPick, ReconcileSchedulingAuthorities, Fresh, Started
  <2>2. (Placed(w) /\ ~Recovering(w) => Fresh(RunOf(w)))'
    BY <1>6, <1>9, <2>1 DEF Fresh, RunOf, Recovering
  <2> QED
    BY <1>6, <2>2 DEF Fit, Leased, Working, Launching, At
<1> QED
  BY <1>1, <1>3, <1>7, <1>8, <1>9, SelectFits

\* The records a dispatch ends with or asks for a new run with.
LEMMA EndRecords ==
  /\ DoneWorker \in WorkerRecord /\ DoneWorker.pc = "done" /\ DoneWorker.run = NoRun
  /\ [DoneWorker EXCEPT !.out = "error"] \in WorkerRecord
  /\ [DoneWorker EXCEPT !.out = "error"].pc = "done"
  /\ [DoneWorker EXCEPT !.out = "error"].run = NoRun
  /\ [IdleWorker EXCEPT !.pc = "admit", !.adm = TRUE] \in WorkerRecord
  /\ [IdleWorker EXCEPT !.pc = "admit", !.adm = TRUE].pc = "admit"
  /\ [IdleWorker EXCEPT !.pc = "admit", !.adm = TRUE].run = NoRun
  /\ IdleWorker \in WorkerRecord /\ IdleWorker.pc = "idle" /\ IdleWorker.run = NoRun
  /\ [IdleWorker EXCEPT !.pc = "scan"] \in WorkerRecord
  /\ [IdleWorker EXCEPT !.pc = "scan"].pc = "scan"
  /\ [IdleWorker EXCEPT !.pc = "scan"].run = NoRun
BY DEF DoneWorker, IdleWorker, WorkerRecord, Positions, Unplaced, Phase

\* A dispatch without a run to drive.
LEMMA ScanEndsFit ==
  ASSUME SupInv, NEW w \in Workers,
         ScanNone(w) \/ ScanBusy(w) \/ ScanConflict(w) \/ NoCandidate(w)
  PROVE  SupInv'
<1>1. wk[w].pc \in {"scan", "admit"} /\ KeepProcess
  BY DEF ScanNone, ScanBusy, ScanConflict, NoCandidate, At, KeepRest
<1>2. wk \in [Workers -> WorkerRecord] /\ wk[w].run = NoRun
  BY <1>1 DEF SupInv, Shape, Placed, Unplaced, RunOf
<1>3. ReconcileSchedulingAuthorities \/ UNCHANGED storeVars
  BY DEF ScanNone, ScanBusy, ScanConflict, NoCandidate, KeepStore
<1>4. CASE Done(w)
  BY <1>1, <1>3, <1>4, EndRecords, ScanEnds DEF Done
<1>5. CASE Fatal(w)
  BY <1>1, <1>3, <1>5, EndRecords, ScanEnds DEF Fatal
<1>6. CASE wk' = [wk EXCEPT ![w].pc = "admit", ![w].adm = TRUE]
  <2>1. "admit" \in Positions
    BY DEF Positions, Unplaced
  <2>2. wk'[w] \in WorkerRecord
    BY <1>2, <1>6, <2>1, ZenonT(60) DEF WorkerRecord
  <2>3. wk'[w].pc = "admit" /\ wk'[w].run = NoRun
    BY <1>2, <1>6 DEF WorkerRecord
  <2>4. wk' = [wk EXCEPT ![w] = wk'[w]]
    BY <1>2, <1>6
  <2> QED
    BY <1>1, <1>3, <2>2, <2>3, <2>4, ScanEnds
<1> QED
  BY <1>4, <1>5, <1>6 DEF ScanNone, ScanBusy, ScanConflict, NoCandidate

\* A claim succeeds while no sibling has the run.
LEMMA ClaimFits ==
  ASSUME SupInv, NEW w \in Workers, Claim(w)
  PROVE  SupInv'
<1>1. wk[w].pc = "claim" /\ KeepProcess /\ UNCHANGED storeVars
  BY DEF Claim, At, KeepRest, KeepStore
<1>2. wk \in [Workers -> WorkerRecord] /\ Fit(w)
  BY DEF SupInv, Shape, WorkersFit
<1>3. CASE Done(w)
  BY <1>1, <1>3, EndRecords, ScanEnds DEF Done
<1>4. CASE wk' = [wk EXCEPT ![w] = [IdleWorker EXCEPT !.pc = "admit", !.adm = TRUE]]
  BY <1>1, <1>4, EndRecords, ScanEnds
<1>5. CASE ~Claimed(RunOf(w)) /\ Goto(w, "prepare")
  <2>1. UNCHANGED <<proc, epoch, op>> /\ child' = child
    BY <1>1 DEF KeepProcess
  <2>2. PICK r \in Runs : r = RunOf(w)
    BY <1>1 DEF SupInv, Shape, WorkerRecord, Placed, Unplaced, RunOf
  <2>3. proc # 0
    BY <1>1 DEF SupInv, Shape, At
  <2>4. StoreInv' /\ now' = now /\ lease' = lease /\ \A q \in Runs : KeepsRun(q) /\ KeepsHeavy(q)
    BY <1>1, <2>1, <2>3, ScanKeeps
  <2>5. wk' = [wk EXCEPT ![w].pc = "prepare"]
    BY <1>5 DEF Goto
  <2>6. wk'[w].pc = "prepare" /\ wk'[w].run = r /\ wk'[w].heavy = wk[w].heavy
    BY <1>2, <2>2, <2>5 DEF WorkerRecord, RunOf
  <2>7. wk'[w] \in WorkerRecord /\ wk' = [wk EXCEPT ![w] = wk'[w]]
    <3>1. "prepare" \in Positions
      BY DEF Positions
    <3> QED
      BY <1>2, <2>5, <3>1 DEF WorkerRecord
  <2>8. Selects(w)
    BY <1>1, <1>2, <2>1, <2>4, <2>7 DEF Selects, Unplaced
  <2>9. /\ (Placed(w) <=> RunOf(w) # NoRun)' /\ (~At(w, "idle") => proc # 0)'
        /\ \A v \in Workers \ {w} : RunOf(v) = RunOf(w)' => At(v, "claim")
    BY <1>5, <2>1, <2>2, <2>3, <2>6, RunsAssumption, NoRunAssumption
    DEF Placed, RunOf, At, Unplaced, Claimed
  <2>10. ASSUME \A q \in Runs : Fresh(q) => Fresh(q)' PROVE Fit(w)'
    <3>1. ~Recovering(w)' => Fresh(r)
      BY <1>1, <1>2, <2>2, <2>6 DEF Fit, Placed, Unplaced, Recovering
    <3>2. (Placed(w) /\ ~Recovering(w) => Fresh(RunOf(w)))'
      BY <2>6, <2>10, <3>1 DEF Fresh, RunOf
    <3> QED
      BY <2>6, <3>2 DEF Fit, Leased, Working, Launching, At
  <2> QED
    BY <2>1, <2>4, <2>8, <2>9, <2>10, SelectFits
<1> QED
  BY <1>3, <1>4, <1>5 DEF Claim

\* The record of a goroutine at the run it has admitted.
LEMMA AdmittedRecord ==
  ASSUME NEW rec \in WorkerRecord, NEW q \in Runs, NEW d \in Nat
  PROVE  [rec EXCEPT !.pc = "enter", !.run = q, !.heavy = TRUE,
                     !.via = "admit", !.adm = FALSE, !.dp = d] \in WorkerRecord
BY QuietPosition DEF WorkerRecord

\* An admitted run starts with nothing launched, in its goroutine's hands.
LEMMA AdmitFits ==
  ASSUME SupInv, NEW w \in Workers, Admit(w)
  PROVE  SupInv'
<1>1. wk[w].pc = "admit" /\ UNCHANGED <<proc, epoch, op>> /\ child' = child
  BY DEF Admit, At, KeepRest, KeepProcess
<1>2. proc # 0 /\ proc \in Nat \ {0} /\ wk \in [Workers -> WorkerRecord]
  BY <1>1, EpochAssumption DEF SupInv, Shape, At
<1>3. PICK q \in Runs :
        /\ ~Claimed(q) /\ ReserveRun(q, proc)
        /\ wk' = [wk EXCEPT ![w].pc = "enter", ![w].run = q, ![w].heavy = TRUE,
                            ![w].via = "admit", ![w].adm = FALSE, ![w].dp = permit'[q].ver]
  BY DEF Admit
<1>4. StoreInv'
  BY <1>2, <1>3, ReserveInv DEF SupInv
<1>5. PICK d \in Nat :
        wk' = [wk EXCEPT ![w].pc = "enter", ![w].run = q, ![w].heavy = TRUE,
                         ![w].via = "admit", ![w].adm = FALSE, ![w].dp = d]
  BY <1>3, <1>4 DEF StoreInv, TypeOK
<1>6. wk'[w].pc = "enter" /\ wk'[w].run = q
  BY <1>2, <1>5 DEF WorkerRecord
<1>7. wk'[w] \in WorkerRecord
  <2>1. PICK rec \in WorkerRecord : rec = wk[w]
    BY <1>2
  <2>2. wk'[w] = [rec EXCEPT !.pc = "enter", !.run = q, !.heavy = TRUE,
                             !.via = "admit", !.adm = FALSE, !.dp = d]
    BY <1>2, <1>5, <2>1 DEF WorkerRecord
  <2>3. [rec EXCEPT !.pc = "enter", !.run = q, !.heavy = TRUE,
                    !.via = "admit", !.adm = FALSE, !.dp = d] \in WorkerRecord
    BY AdmittedRecord, Zenon
  <2> QED
    BY <2>2, <2>3, Zenon
<1>8. wk' = [wk EXCEPT ![w] = wk'[w]]
  BY <1>2, <1>5
<1>9. UNCHANGED <<attn, lease, attempt, capacity, now>> /\ phase[q] = "absent"
  BY <1>3 DEF ReserveRun, Reservable
<1>10. Selects(w)
  BY <1>1, <1>2, <1>4, <1>7, <1>8, <1>9 DEF Selects, Unplaced
<1>11. \A v \in Workers \ {w} : RunOf(v) = q => At(v, "claim")
  BY <1>3 DEF Claimed, RunOf, At
<1>12. Shape' /\ Alone' /\ Commanded'
  <2>1. /\ (Placed(w) <=> RunOf(w) # NoRun)' /\ (~At(w, "idle") => proc # 0)'
        /\ \A v \in Workers \ {w} : RunOf(v) = RunOf(w)' => At(v, "claim")
    BY <1>1, <1>2, <1>6, <1>11, RunsAssumption, NoRunAssumption DEF Placed, RunOf, At, Unplaced
  <2> QED
    BY <1>1, <1>10, <2>1, SelectShape
<1>13. attempt[q] = "none" /\ child[q] = 0
  BY <1>9 DEF SupInv, RunsFit, RunFit
<1>14. Fresh(q)' /\ RunFit(q)'
  <2>1. phase'[q] = "heavy"
    BY <1>3 DEF ReserveRun, SupInv, StoreInv, TypeOK
  <2> QED
    BY <1>1, <1>9, <1>13, <2>1 DEF Fresh, RunFit, Started
<1>15. \A r \in Runs \ {q} : KeepsRun(r) /\ KeepsHeavy(r)
  <2>1. \A r \in Runs \ {q} : permit'[r] = permit[r] /\ phase'[r] = phase[r]
    BY <1>3 DEF ReserveRun, SupInv, StoreInv, TypeOK
  <2> QED
    BY <1>1, <1>9, <2>1 DEF KeepsRun, KeepsHeavy
<1>16. \A r \in Runs \ {q} : Fresh(r) => Fresh(r)'
  <2>1. \A v \in Workers : Launching(v) => wk'[v] = wk[v]
    BY <1>1, <1>10 DEF Launching, Selects
  <2> QED
    BY <1>1, <1>15, <2>1, KeptFresh
<1>17. ASSUME NEW v \in Workers PROVE Fit(v)'
  <2>1. CASE v = w
    <3>1. (Placed(w) /\ ~Recovering(w) => Fresh(RunOf(w)))'
      BY <1>6, <1>14 DEF Fresh, RunOf
    <3> QED
      BY <1>6, <2>1, <3>1 DEF Fit, Leased, Working, Launching, At
  <2>2. CASE v # w
    <3>1. wk'[v] = wk[v] /\ Fit(v) /\ Shape
      BY <2>2, <1>10 DEF Selects, SupInv, WorkersFit
    <3>2. CASE ~Placed(v)
      <4>1. ~Placed(v)'
        BY <3>1, <3>2 DEF Placed
      <4> QED
        BY <4>1 DEF Fit, Placed, Unplaced, Leased, At, Working, Launching
    <3>3. CASE Placed(v)
      <4>1. PICK r \in Runs : RunOf(v) = r
        BY <3>1, <3>3 DEF Shape, WorkerRecord, RunOf
      <4>2. CASE r # q
        <5>1. KeepsLease(r, proc)
          BY <1>9 DEF KeepsLease, LeaseLive
        <5> QED
          BY <1>1, <1>15, <1>16, <3>1, <4>1, <4>2, <5>1, KeptFit
      <4>3. CASE r = q
        <5>1. wk'[v].pc = "claim" /\ wk'[v].run = q
          BY <1>11, <2>2, <3>1, <4>1, <4>3 DEF At, RunOf
        <5>2. (Placed(v) /\ ~Recovering(v) => Fresh(RunOf(v)))'
          BY <1>14, <5>1 DEF Fresh, RunOf
        <5> QED
          BY <5>1, <5>2 DEF Fit, Leased, At, Working, Launching
      <4> QED
        BY <4>2, <4>3
    <3> QED
      BY <3>2, <3>3
  <2> QED
    BY <2>1, <2>2
<1>18. RunsFit'
  BY <1>14, <1>15, KeptRunFit DEF SupInv, RunsFit
<1> QED
  BY <1>4, <1>12, <1>17, <1>18 DEF SupInv, WorkersFit

\* A process without a goroutine at work: its runs wait for a recovery.
LEMMA IdleFits ==
  ASSUME SupInv, StoreInv', UNCHANGED <<phase, attempt, lease, now, child, op>>,
         \A r \in Runs : Active(r) /\ Started(r) /\ HasPermit(r) => permit'[r].owner # 0,
         epoch' \in 0..MaxEpoch, proc' \in 0..epoch', wk' \in [Workers -> WorkerRecord],
         \A v \in Workers : wk'[v].pc = "idle" /\ wk'[v].run = NoRun
  PROVE  SupInv'
<1>1. Shape' /\ Alone'
  BY DEF SupInv, Shape, Alone, Placed, Unplaced, RunOf, At
<1>2. Commanded'
  BY DEF SupInv, Commanded, LeaseLive
<1>3. WorkersFit'
  BY DEF WorkersFit, Fit, Leased, At, Working, Launching, Placed, Unplaced
<1>4. RunsFit'
  BY DEF SupInv, RunsFit, RunFit, Active, Started, HasPermit, Heavy
<1> QED
  BY <1>1, <1>2, <1>3, <1>4 DEF SupInv

\* A batch of dispatches is started.
LEMMA FillFits ==
  ASSUME SupInv, Fill
  PROVE  SupInv'
<1>1. PICK S \in SUBSET Idle :
        wk' = [w \in Workers |-> IF w \in S THEN [IdleWorker EXCEPT !.pc = "scan"] ELSE wk[w]]
  BY DEF Fill
<1>2. UNCHANGED <<proc, epoch, op, child>> /\ UNCHANGED storeVars /\ proc # 0
  BY DEF Fill, KeepStore, KeepRest, KeepProcess
<1>3. UNCHANGED <<phase, attempt, lease, now, permit>> /\ StoreInv'
  BY <1>2, StutterInv DEF SupInv, storeVars
<1>4. /\ wk' \in [Workers -> WorkerRecord]
      /\ \A v \in Workers : \/ wk'[v] = wk[v]
                            \/ wk'[v].pc = "scan" /\ wk'[v].run = NoRun /\ wk[v].pc = "idle"
  BY <1>1, EndRecords DEF SupInv, Shape, Idle, At
<1>5. Shape'
  BY <1>2, <1>4 DEF SupInv, Shape, Placed, Unplaced, RunOf, At
<1>6. Alone'
  BY <1>4 DEF SupInv, Alone, RunOf, At
<1>7. Commanded'
  BY <1>2, <1>3 DEF SupInv, Commanded, LeaseLive
<1>8. \A r \in Runs : Fresh(r) => Fresh(r)'
  <2> TAKE r \in Runs
  <2>1. \A v \in Workers : Launching(v) => wk'[v] = wk[v]
    BY <1>4 DEF Launching
  <2>2. KeepsRun(r)
    BY <1>2, <1>3 DEF KeepsRun
  <2> QED
    BY <1>2, <2>1, <2>2, KeptFresh
<1>9. ASSUME NEW v \in Workers PROVE Fit(v)'
  <2>1. CASE wk'[v].pc = "scan"
    BY <2>1 DEF Fit, Leased, At, Working, Launching, Placed, Unplaced
  <2>2. CASE wk'[v].pc # "scan"
    <3>1. wk'[v] = wk[v] /\ Fit(v) /\ Shape
      BY <1>4, <2>2 DEF SupInv, WorkersFit
    <3>2. CASE ~Placed(v)
      <4>1. ~Placed(v)'
        BY <3>1, <3>2 DEF Placed
      <4> QED
        BY <4>1 DEF Fit, Placed, Unplaced, Leased, At, Working, Launching
    <3>3. CASE Placed(v)
      <4>1. PICK r \in Runs : RunOf(v) = r
        BY <3>1, <3>3 DEF Shape, WorkerRecord, RunOf
      <4>2. KeepsRun(r) /\ KeepsHeavy(r) /\ KeepsLease(r, proc)
        BY <1>2, <1>3 DEF KeepsRun, KeepsHeavy, KeepsLease, LeaseLive
      <4> QED
        BY <1>2, <1>8, <3>1, <4>1, <4>2, KeptFit
    <3> QED
      BY <3>2, <3>3
  <2> QED
    BY <2>1, <2>2
<1>10. RunsFit'
  BY <1>2, <1>3, KeptRunFit DEF SupInv, RunsFit, KeepsRun
<1> QED
  BY <1>3, <1>5, <1>6, <1>7, <1>9, <1>10 DEF SupInv, WorkersFit

\* A dispatch is collected; the last one of a failed batch ends the process.
LEMMA CollectFits ==
  ASSUME SupInv, NEW w \in Workers, Collect(w)
  PROVE  SupInv'
<1>1. /\ wk[w].pc = "done" /\ wk' = [wk EXCEPT ![w] = IdleWorker]
      /\ UNCHANGED storeVars /\ UNCHANGED <<child, epoch, op>>
  BY DEF Collect, At, KeepStore
<1>2. proc # 0 /\ wk \in [Workers -> WorkerRecord]
  BY <1>1 DEF SupInv, Shape, At
<1>3. /\ wk' \in [Workers -> WorkerRecord] /\ wk'[w].pc = "idle" /\ wk'[w].run = NoRun
      /\ \A v \in Workers \ {w} : wk'[v] = wk[v]
  BY <1>1, <1>2, EndRecords
<1>4. CASE proc' = proc
  <2>1. StoreInv' /\ now' = now /\ lease' = lease /\ \A r \in Runs : KeepsRun(r) /\ KeepsHeavy(r)
    BY <1>1, <1>2, ScanKeeps
  <2>2. Selects(w)
    BY <1>1, <1>3, <2>1 DEF Selects, Unplaced
  <2>3. /\ (Placed(w) <=> RunOf(w) # NoRun)' /\ (~At(w, "idle") => proc # 0)'
        /\ ~Placed(w)' /\ Fit(w)'
    BY <1>3 DEF Placed, RunOf, At, Unplaced, Fit, Leased, Working, Launching
  <2> QED
    BY <1>4, <2>1, <2>2, <2>3, SelectFits
<1>5. CASE proc' # proc
  <2>1. proc' = 0 /\ \A v \in Workers \ {w} : wk[v].pc = "idle"
    BY <1>5 DEF Collect, At
  <2>2. \A v \in Workers : wk'[v].pc = "idle" /\ wk'[v].run = NoRun
    BY <1>3, <2>1 DEF SupInv, Shape, Placed, Unplaced, RunOf
  <2>3. epoch' \in 0..MaxEpoch /\ proc' \in 0..epoch'
    BY <1>1, <2>1, EpochAssumption DEF SupInv, Shape
  <2>4. StoreInv' /\ UNCHANGED <<phase, attempt, lease, now, permit>>
    BY <1>1, StutterInv DEF SupInv, storeVars
  <2> QED
    BY <1>1, <1>3, <2>2, <2>3, <2>4, IdleFits DEF HasPermit
<1> QED
  BY <1>4, <1>5

\* A crash leaves its runs as they are.
LEMMA CrashFits ==
  ASSUME SupInv, Crash
  PROVE  SupInv'
<1>1. /\ wk' \in [Workers -> WorkerRecord]
      /\ \A v \in Workers : wk'[v].pc = "idle" /\ wk'[v].run = NoRun
  BY EndRecords DEF Crash
<1>2. /\ epoch' \in 0..MaxEpoch /\ proc' \in 0..epoch' /\ UNCHANGED <<child, op>>
      /\ UNCHANGED storeVars
  BY EpochAssumption DEF Crash, KeepStore, SupInv, Shape
<1>3. StoreInv' /\ UNCHANGED <<phase, attempt, lease, now, permit>>
  BY <1>2, StutterInv DEF SupInv, storeVars
<1> QED
  BY <1>1, <1>2, <1>3, IdleFits DEF HasPermit

\* A worker process starts with a reconciliation.
LEMMA StartFits ==
  ASSUME SupInv, NEW c \in 1..MaxCapacity, Start(c)
  PROVE  SupInv'
<1>1. Reconciles /\ ~ReconcileConflict /\ UNCHANGED <<phase, attempt, lease, now, child, op>>
  BY DEF Start, Reconciles
<1>2. StoreInv'
  BY <1>1, ReconcileInv DEF SupInv
<1>3. ASSUME NEW r \in Runs, Active(r), Started(r), HasPermit(r) PROVE permit'[r].owner # 0
  <2>1. permit'[r] = ReconciledPermit(r)
    BY <1>1 DEF Reconciles
  <2> QED
    BY <1>1, <1>3, <2>1, ReconcileKeepsRuns DEF HasPermit
<1>4. epoch' \in 0..MaxEpoch /\ proc' \in 0..epoch'
  BY EpochAssumption DEF Start, SupInv, Shape
<1>5. /\ wk' \in [Workers -> WorkerRecord]
      /\ \A v \in Workers : wk'[v].pc = "idle" /\ wk'[v].run = NoRun
  BY DEF Start, SupInv, Shape, At, RunOf, Placed, Unplaced
<1> QED
  BY <1>1, <1>2, <1>3, <1>4, <1>5, IdleFits
-----------------------------------------------------------------------------
(***************************************************************************)
(* The operator's commands and the environment.                             *)
(***************************************************************************)

\* The goroutines stay where they are.
Apart ==
  /\ StoreInv' /\ UNCHANGED <<wk, proc, epoch>>
  /\ child' \in [Runs -> Nat]
  /\ op' \in Command /\ (op'.pc # "idle" => op'.run # NoRun)

\* It is enough to look at the runs.
LEMMA ApartFits ==
  ASSUME SupInv, Apart, Commanded', RunsFit',
         \A w \in Workers, r \in Runs : RunOf(w) = r => Fit(w)'
  PROVE  SupInv'
<1>1. Shape' /\ Alone'
  BY DEF SupInv, Shape, Alone, Apart, Placed, RunOf, At
<1>2. ASSUME NEW w \in Workers PROVE Fit(w)'
  <2>1. CASE Placed(w)
    <3>1. PICK r \in Runs : RunOf(w) = r
      BY <2>1 DEF SupInv, Shape, WorkerRecord, RunOf
    <3> QED
      BY <3>1
  <2>2. CASE ~Placed(w)
    <3>1. wk'[w].pc \in Unplaced
      BY <2>2 DEF Apart, Placed
    <3> QED
      BY <3>1 DEF Fit, Placed, Unplaced, Leased, At, Working, Launching
  <2> QED
    BY <2>1, <2>2
<1> QED
  BY <1>1, <1>2 DEF SupInv, Apart, WorkersFit

\* A goroutine whose run and lease are kept stays fit.
LEMMA ApartFit ==
  ASSUME SupInv, Apart, NEW w \in Workers, NEW r \in Runs, RunOf(w) = r,
         KeepsRun(r), KeepsHeavy(r), proc # 0 => KeepsLease(r, proc)
  PROVE  Fit(w)'
<1>1. Fresh(r) => Fresh(r)'
  BY KeptFresh DEF Apart
<1>2. proc # 0
  BY RunsAssumption, NoRunAssumption DEF SupInv, Shape, Placed, Unplaced, At
<1> QED
  BY <1>1, <1>2, KeptFit DEF Apart, SupInv, WorkersFit

\* The operator's command takes and gives up leases of its own.
LEMMA AbandonLeaseFits ==
  ASSUME SupInv, NEW q \in Runs, AbandonLease(q)
  PROVE  SupInv'
<1>1. /\ LeaseFree(q) /\ lease' = TakenLease(q, Operator)
      /\ UNCHANGED <<phase, attn, attempt, slot, permit, sched, capacity, now>>
      /\ UNCHANGED <<child, proc, epoch, wk>>
      /\ op' = [pc |-> "stop", run |-> q, from |-> phase[q]]
  BY DEF AbandonLease, AcquireLease
<1>2. StoreInv'
  <2>1. Operator \in Nat \ {0}
    BY EpochAssumption, OperatorAssumption
  <2> QED
    BY <2>1, LeaseInv DEF SupInv, AbandonLease
<1>3. Apart
  BY <1>1, <1>2, RunsAssumption, NoRunAssumption
  DEF Apart, SupInv, Shape, Command, StoreInv, TypeOK
<1>4. Commanded'
  BY <1>1, BoundsAssumption DEF Commanded, LeaseLive, TakenLease, SupInv, StoreInv, TypeOK
<1>5. \A r \in Runs : KeepsRun(r) /\ KeepsHeavy(r) /\ (proc # 0 => KeepsLease(r, proc))
  <2> TAKE r \in Runs
  <2>1. KeepsRun(r) /\ KeepsHeavy(r)
    BY <1>1 DEF KeepsRun, KeepsHeavy
  <2>2. ASSUME proc # 0 PROVE KeepsLease(r, proc)
    <3>1. CASE r = q
      BY <1>1, <2>2, <3>1 DEF LeaseFree, KeepsLease
    <3>2. CASE r # q
      BY <1>1, <3>2 DEF KeepsLease, LeaseLive, TakenLease, SupInv, StoreInv, TypeOK
    <3> QED
      BY <3>1, <3>2
  <2> QED
    BY <2>1, <2>2
<1> QED
  BY <1>3, <1>4, <1>5, ApartFit, ApartFits, KeptRunFit DEF SupInv, RunsFit

\* No goroutine works under the lease of the operator's command.
LEMMA CommandedApart ==
  ASSUME SupInv, op.pc # "idle", NEW w \in Workers, RunOf(w) = op.run
  PROVE  ~Leased(w)
<1>1. lease[op.run].by = Operator /\ proc # Operator
  BY OperatorApart DEF SupInv, Commanded
<1> QED
  BY <1>1 DEF SupInv, WorkersFit, Fit

\* The command stops what it found started before it finishes the attempt.
LEMMA AbandonStopFit ==
  ASSUME SupInv, AbandonStop
  PROVE  SupInv'
<1>1. /\ op.pc = "stop" /\ op' = [op EXCEPT !.pc = "commit"]
      /\ UNCHANGED <<phase, attn, lease, slot, permit, sched, capacity, now>>
      /\ UNCHANGED <<proc, epoch, wk>>
  BY DEF AbandonStop
<1>2. PICK q \in Runs : q = op.run
  BY <1>1 DEF SupInv, Shape, Command
<1>3. /\ attempt' = [attempt EXCEPT ![q] = "none"]
      /\ child' = IF Started(q) THEN [child EXCEPT ![q] = 0] ELSE child
  BY <1>2 DEF AbandonStop
<1>4. /\ attempt' \in [Runs -> AttemptStatus] /\ attempt'[q] = "none"
      /\ \A r \in Runs \ {q} : attempt'[r] = attempt[r] /\ child'[r] = child[r]
      /\ child' \in [Runs -> Nat]
      /\ child'[q] = IF Started(q) THEN 0 ELSE child[q]
  <2>1. child \in [Runs -> Nat] /\ attempt \in [Runs -> AttemptStatus] /\ "none" \in AttemptStatus
    BY DEF SupInv, Shape, StoreInv, TypeOK, AttemptStatus
  <2> QED
    BY <1>3, <2>1
<1>5. StoreInv'
  BY <1>1, <1>4, AttemptInv DEF SupInv, StoreInv, TypeOK
<1>6. op' \in Command /\ op'.pc = "commit" /\ op'.run = q
  BY <1>1, <1>2 DEF SupInv, Shape, Command
<1>7. Apart
  BY <1>1, <1>4, <1>5, <1>6, RunsAssumption, NoRunAssumption DEF Apart
<1>8. Commanded'
  BY <1>1, <1>2, <1>6 DEF SupInv, Commanded, LeaseLive
<1>9. RunFit(q)'
  BY <1>1, <1>4 DEF SupInv, RunsFit, RunFit, Started, Active
<1>10. \A r \in Runs \ {q} : KeepsRun(r) /\ KeepsHeavy(r) /\ KeepsLease(r, proc)
  BY <1>1, <1>4 DEF KeepsRun, KeepsHeavy, KeepsLease, LeaseLive
<1>11. RunsFit'
  BY <1>9, <1>10, KeptRunFit DEF SupInv, RunsFit
<1>12. ASSUME NEW w \in Workers, NEW r \in Runs, RunOf(w) = r PROVE Fit(w)'
  <2>1. CASE r # q
    BY <1>7, <1>10, <1>12, <2>1, ApartFit
  <2>2. CASE r = q
    <3>1. ~Leased(w)
      BY <1>1, <1>2, <1>12, <2>2, CommandedApart
    <3>2. wk'[w] = wk[w] /\ wk[w].run = q
      BY <1>1, <1>12, <2>2 DEF RunOf
    <3>3. /\ ~(At(w, "leasing") /\ Heavy(q)) \/ permit[q].owner = proc
          /\ Fit(w)
      BY <1>12, <2>2 DEF SupInv, WorkersFit, Fit
    <3>4. Fresh(q)'
      BY <1>4 DEF Fresh, Started
    <3>5. (Placed(w) /\ ~Recovering(w) => Fresh(RunOf(w)))'
      BY <3>2, <3>4 DEF Fresh, RunOf
    <3>6. (At(w, "leasing") /\ Heavy(RunOf(w)) => permit[RunOf(w)].owner = proc)'
      BY <1>1, <3>2, <3>3 DEF At, RunOf, Heavy
    <3> QED
      BY <3>1, <3>2, <3>5, <3>6 DEF Fit, Leased, At, Working, Launching
  <2> QED
    BY <2>1, <2>2
<1> QED
  BY <1>7, <1>8, <1>11, <1>12, ApartFits

\* A stop that fails moves the command on.
LEMMA AbandonStopFailsFit ==
  ASSUME SupInv, AbandonStopFails
  PROVE  SupInv'
<1>1. /\ op.pc = "stop" /\ op' = [op EXCEPT !.pc = "commit"] /\ UNCHANGED storeVars
      /\ UNCHANGED <<child, proc, epoch, wk>>
  BY DEF AbandonStopFails, KeepStore
<1>2. StoreInv' /\ UNCHANGED <<phase, attempt, lease, now, permit>>
  BY <1>1, StutterInv DEF SupInv, storeVars
<1>3. op' \in Command /\ op'.pc = "commit" /\ op'.run = op.run /\ op.run # NoRun
  BY <1>1 DEF SupInv, Shape, Command
<1>4. Apart
  BY <1>1, <1>2, <1>3 DEF Apart, SupInv, Shape
<1>5. Commanded'
  BY <1>1, <1>2, <1>3 DEF SupInv, Commanded, LeaseLive
<1>6. \A r \in Runs : KeepsRun(r) /\ KeepsHeavy(r) /\ KeepsLease(r, proc)
  BY <1>1, <1>2 DEF KeepsRun, KeepsHeavy, KeepsLease, LeaseLive
<1> QED
  BY <1>4, <1>5, <1>6, ApartFit, ApartFits, KeptRunFit DEF SupInv, RunsFit

\* A command that ends gives its lease up or leaves it to expire.
LEMMA AbandonEndsFit ==
  ASSUME SupInv, AbandonEnds
  PROVE  SupInv'
<1>1. /\ op.pc # "idle" /\ op' = IdleCommand /\ UNCHANGED <<child, proc, epoch, wk>>
      /\ \/ lease' = ReleasedLease(op.run, Operator) /\ ReleaseLease(op.run, Operator)
         \/ UNCHANGED storeVars
  BY DEF AbandonEnds, KeepStore, ReleaseLease
<1>2. PICK q \in Runs : q = op.run
  BY <1>1 DEF SupInv, Shape, Command
<1>3. StoreInv'
  <2>1. Operator \in Nat \ {0}
    BY EpochAssumption, OperatorAssumption
  <2>2. CASE ReleaseLease(q, Operator)
    BY <2>1, <2>2, LeaseInv DEF SupInv
  <2>3. CASE UNCHANGED storeVars
    BY <2>3, StutterInv DEF SupInv
  <2> QED
    BY <1>1, <1>2, <2>2, <2>3
<1>4. /\ UNCHANGED <<phase, attempt, now, permit>>
      /\ lease' = ReleasedLease(q, Operator) \/ lease' = lease
  BY <1>1, <1>2 DEF storeVars, ReleaseLease
<1>5. op' \in Command /\ op'.pc = "idle"
  BY <1>1 DEF IdleCommand, Command, Phase
<1>6. Apart
  BY <1>1, <1>3, <1>5 DEF Apart, SupInv, Shape
<1>7. Commanded'
  BY <1>5 DEF Commanded
<1>8. \A r \in Runs : KeepsRun(r) /\ KeepsHeavy(r) /\ KeepsLease(r, proc)
  BY <1>1, <1>4, OperatorApart
  DEF KeepsRun, KeepsHeavy, KeepsLease, LeaseLive, ReleasedLease, SupInv, StoreInv, TypeOK
<1> QED
  BY <1>6, <1>7, <1>8, ApartFit, ApartFits, KeptRunFit DEF SupInv, RunsFit

\* A goroutine without the run's lease stays fit through a change of phase that
\* leaves attempt and children alone, when heavy work does not begin.
LEMMA PhaseFit ==
  ASSUME SupInv, Apart, NEW w \in Workers, NEW q \in Runs, RunOf(w) = q, ~Leased(w),
         \A v \in Workers : RunOf(v) = q => ~Leased(v),
         attempt' = attempt, phase'[q] # "heavy",
         phase'[q] # "terminal" => Active(q) /\ permit'[q] = permit[q]
  PROVE  Fit(w)'
<1>1. wk' = wk /\ proc' = proc /\ Fit(w)
  BY DEF Apart, SupInv, WorkersFit
<1>2. Fresh(q) => attempt[q] # "started"
  BY DEF Fresh, Launching, Leased
<1>3. Fresh(q) => Fresh(q)'
  BY <1>1, <1>2 DEF Fresh, Active, Started
<1>4. (Placed(w) /\ ~Recovering(w) => Fresh(RunOf(w)))'
  BY <1>1, <1>3 DEF Fit, Fresh, RunOf, Placed, Recovering
<1>5. wk'[w] = wk[w] /\ RunOf(w)' = q
  BY <1>1 DEF RunOf
<1>6. (At(w, "leasing") /\ Heavy(RunOf(w)) => permit[RunOf(w)].owner = proc)'
  BY <1>5 DEF Heavy
<1> QED
  BY <1>4, <1>5, <1>6 DEF Fit, Leased, At, Working, Launching

\* The abandonment commits under the command's lease.
LEMMA AbandonCommitFits ==
  ASSUME SupInv, AbandonCommit
  PROVE  SupInv'
<1>1. /\ op.pc = "commit" /\ op' = IdleCommand /\ attempt' = attempt
      /\ UNCHANGED <<child, proc, epoch, wk>>
  BY DEF AbandonCommit
<1>2. PICK q \in Runs : q = op.run
  BY <1>1 DEF SupInv, Shape, Command
<1>3. SetPhase(q, "terminal") /\ lease' = ReleasedLease(q, Operator)
  BY <1>2 DEF AbandonCommit
<1>4. /\ lease' \in [Runs -> [by : Nat, exp : Nat]]
      /\ \A r \in Runs : KeepsLease(r, proc)
      /\ now' = now
  BY <1>3, OperatorApart
  DEF KeepsLease, LeaseLive, ReleasedLease, NoLease, SupInv, StoreInv, TypeOK, SetPhase
<1>5. StoreInv'
  BY <1>1, <1>3, <1>4, SetPhaseInv DEF SupInv, StoreInv, TypeOK, Phase
<1>6. Apart
  BY <1>1, <1>5 DEF Apart, SupInv, Shape, IdleCommand, Command, Phase
<1>7. Commanded'
  BY <1>1 DEF Commanded, IdleCommand
<1>8. phase'[q] = "terminal" /\ \A r \in Runs \ {q} : phase'[r] = phase[r] /\ permit'[r] = permit[r]
  BY <1>3 DEF SetPhase, ReleaseTerminalAuthority, SupInv, StoreInv, TypeOK
<1>9. \A r \in Runs \ {q} : KeepsRun(r) /\ KeepsHeavy(r)
  BY <1>1, <1>8 DEF KeepsRun, KeepsHeavy
<1>10. RunFit(q)'
  BY <1>1, <1>8 DEF RunFit, SupInv, RunsFit, Active
<1>11. RunsFit'
  BY <1>9, <1>10, KeptRunFit DEF SupInv, RunsFit
<1>12. ASSUME NEW w \in Workers, NEW r \in Runs, RunOf(w) = r PROVE Fit(w)'
  <2>1. CASE r # q
    BY <1>4, <1>6, <1>9, <1>12, <2>1, ApartFit
  <2>2. CASE r = q
    <3>1. \A v \in Workers : RunOf(v) = q => ~Leased(v)
      BY <1>1, <1>2, CommandedApart
    <3> QED
      BY <1>1, <1>6, <1>8, <1>12, <2>2, <3>1, PhaseFit
  <2> QED
    BY <2>1, <2>2
<1> QED
  BY <1>6, <1>7, <1>11, <1>12, ApartFits

\* A resumed run has no goroutine under its lease, and heavy work is resumed
\* only while no worker process runs.
LEMMA ResumeFits ==
  ASSUME SupInv, NEW q \in Runs, NEW p \in Phase, OperatorResumes(q, p)
  PROVE  SupInv'
<1>1. /\ phase[q] = "human" /\ p # "terminal" /\ LeaseFree(q) /\ (p = "heavy" => proc = 0)
      /\ Transition(q, p) /\ UNCHANGED <<child, proc, epoch, wk, op>>
  BY DEF OperatorResumes
<1>2. p # "absent"
  BY <1>1, StepIsPresent DEF Transition
<1>3. StoreInv'
  BY <1>1, <1>2, TransitionInv DEF SupInv
<1>4. Apart
  BY <1>1, <1>3 DEF Apart, SupInv, Shape
<1>5. /\ UNCHANGED <<attempt, lease, permit, now>> /\ phase'[q] = p
      /\ \A r \in Runs \ {q} : phase'[r] = phase[r]
  BY <1>1 DEF Transition, SetPhase, SupInv, StoreInv, TypeOK
<1>6. Commanded'
  BY <1>1, <1>5 DEF SupInv, Commanded, LeaseLive
<1>7. \A r \in Runs \ {q} : KeepsRun(r) /\ KeepsHeavy(r)
  BY <1>1, <1>5 DEF KeepsRun, KeepsHeavy
<1>8. \A r \in Runs : KeepsLease(r, proc)
  BY <1>5 DEF KeepsLease, LeaseLive
<1>9. RunFit(q)'
  <2>1. RunFit(q) /\ Active(q) /\ ~Heavy(q)
    BY <1>1 DEF SupInv, RunsFit, Active, Heavy
  <2> QED
    BY <1>1, <1>2, <1>5, <2>1 DEF RunFit, Active, Started, HasPermit
<1>10. RunsFit'
  BY <1>7, <1>9, KeptRunFit DEF SupInv, RunsFit
<1>11. ASSUME NEW w \in Workers, NEW r \in Runs, RunOf(w) = r PROVE Fit(w)'
  <2>1. CASE r # q
    BY <1>4, <1>7, <1>8, <1>11, <2>1, ApartFit
  <2>2. CASE r = q
    <3>1. proc # 0
      BY <1>11, RunsAssumption, NoRunAssumption DEF SupInv, Shape, Placed, Unplaced, At
    <3>2. \A v \in Workers : RunOf(v) = q => ~Leased(v)
      BY <1>1, <3>1 DEF SupInv, WorkersFit, Fit, LeaseFree
    <3>3. phase'[q] # "heavy" /\ Active(q)
      BY <1>1, <1>5, <3>1 DEF Active
    <3> QED
      BY <1>4, <1>5, <1>11, <2>2, <3>2, <3>3, PhaseFit
  <2> QED
    BY <2>1, <2>2
<1> QED
  BY <1>4, <1>6, <1>10, <1>11, ApartFits

\* A child that exits leaves its attempt to whoever awaits it.
LEMMA ChildExitsFit ==
  ASSUME SupInv, NEW q \in Runs, ChildExits(q)
  PROVE  SupInv'
<1>1. /\ child[q] > 0 /\ child' = [child EXCEPT ![q] = @ - 1] /\ UNCHANGED storeVars
      /\ UNCHANGED <<proc, epoch, wk, op>>
  BY DEF ChildExits, KeepStore
<1>2. StoreInv' /\ UNCHANGED <<phase, attempt, lease, now, permit>>
  BY <1>1, StutterInv DEF SupInv, storeVars
<1>3. /\ child[q] \in Nat /\ child' \in [Runs -> Nat] /\ child'[q] = child[q] - 1
      /\ \A r \in Runs \ {q} : child'[r] = child[r]
  BY <1>1 DEF SupInv, Shape
<1>4. Apart
  BY <1>1, <1>2, <1>3 DEF Apart, SupInv, Shape
<1>5. Commanded'
  BY <1>1, <1>2 DEF SupInv, Commanded, LeaseLive
<1>6. \A r \in Runs : KeepsHeavy(r) /\ KeepsLease(r, proc) /\ (r # q => KeepsRun(r))
  BY <1>2, <1>3 DEF KeepsRun, KeepsHeavy, KeepsLease, LeaseLive
<1>7. RunFit(q)'
  BY <1>1, <1>2, <1>3 DEF SupInv, RunsFit, RunFit, Active, Started, HasPermit, Heavy
<1>8. RunsFit'
  BY <1>6, <1>7, KeptRunFit DEF SupInv, RunsFit
<1>9. ASSUME NEW w \in Workers, NEW r \in Runs, RunOf(w) = r PROVE Fit(w)'
  <2>1. CASE r # q
    BY <1>4, <1>6, <1>9, <2>1, ApartFit
  <2>2. CASE r = q
    <3>1. Fit(w) /\ ~At(w, "spawn") /\ ~At(w, "finish") /\ wk' = wk
      BY <1>1, <1>9, <2>2 DEF SupInv, WorkersFit, Fit
    <3>2. (At(w, "spawn") \/ At(w, "finish") => child[RunOf(w)] = 0)'
      BY <3>1 DEF At
    <3> QED
      BY <1>1, <1>2, <3>1, <3>2
      DEF Fit, Leased, LeaseLive, Heavy, Working, Launching, At, Placed, Recovering, Fresh,
          Active, Started, RunOf
  <2> QED
    BY <2>1, <2>2
<1> QED
  BY <1>4, <1>5, <1>8, <1>9, ApartFits

\* Live holders keep their leases as time passes.
LEMMA TickFits ==
  ASSUME SupInv, TickRenewing
  PROVE  SupInv'
<1>1. /\ now' = now + 1
      /\ lease' = [r \in Runs |-> IF Renewed(r) THEN [lease[r] EXCEPT !.exp = now + 1 + LeaseTTL]
                                                ELSE lease[r]]
      /\ UNCHANGED <<phase, attn, attempt, slot, permit, sched, capacity>>
      /\ UNCHANGED <<child, proc, epoch, wk, op>>
  BY DEF TickRenewing, supVars
<1>2. now \in Nat /\ lease \in [Runs -> [by : Nat, exp : Nat]] /\ LeaseTTL \in Nat \ {0}
  BY BoundsAssumption DEF SupInv, StoreInv, TypeOK
<1>3. lease' \in [Runs -> [by : Nat, exp : Nat]] /\ now' \in Nat
  BY <1>1, <1>2
<1>4. StoreInv'
  <2>1. TypeOK'
    BY <1>1, <1>3 DEF SupInv, StoreInv, TypeOK
  <2> QED
    BY <1>1, <2>1, FrameInv DEF SupInv
<1>5. Apart
  BY <1>1, <1>4 DEF Apart, SupInv, Shape
<1>6. \A r \in Runs : Renewed(r) => lease'[r].by = lease[r].by /\ lease'[r].exp > now'
  BY <1>1, <1>2
<1>7. Commanded'
  BY <1>1, <1>6 DEF SupInv, Shape, Command, Commanded, LeaseLive, Renewed
<1>8. \A r \in Runs : KeepsRun(r) /\ KeepsHeavy(r) /\ (proc # 0 => KeepsLease(r, proc))
  BY <1>1, <1>6 DEF KeepsRun, KeepsHeavy, KeepsLease, LeaseLive, Renewed
<1> QED
  BY <1>5, <1>7, <1>8, ApartFit, ApartFits, KeptRunFit DEF SupInv, RunsFit
-----------------------------------------------------------------------------
(***************************************************************************)
(* The theorems.                                                            *)
(***************************************************************************)

\* A step that changes nothing keeps the invariant.
LEMMA StutterFits ==
  ASSUME SupInv, UNCHANGED vars
  PROVE  SupInv'
<1>1. StoreInv'
  BY StutterInv DEF SupInv, vars
<1>2. UNCHANGED <<phase, attempt, lease, permit, now>> /\ UNCHANGED <<child, proc, epoch, wk, op>>
  BY DEF vars, storeVars, supVars
<1>3. Apart
  BY <1>1, <1>2 DEF Apart, SupInv, Shape
<1>4. Commanded'
  BY <1>2 DEF SupInv, Commanded, LeaseLive
<1>5. \A r \in Runs : KeepsRun(r) /\ KeepsHeavy(r) /\ KeepsLease(r, proc)
  BY <1>2 DEF KeepsRun, KeepsHeavy, KeepsLease, LeaseLive
<1> QED
  BY <1>3, <1>4, <1>5, ApartFit, ApartFits, KeptRunFit DEF SupInv, RunsFit

\* Every step of every goroutine preserves the invariant.
LEMMA WorkerFits ==
  ASSUME SupInv, NEW w \in Workers, WorkerStep(w)
  PROVE  SupInv'
<1>1. CASE DispatchStep(w)
  BY <1>1, ScanPickFits, ScanEndsFit, ClaimFits, AdmitFits, PrepareFits, RecoverLeaseFits,
     RecoverFits, StopFits, RetryFits, SettleFits, CollectFits
  DEF DispatchStep
<1>2. CASE DriveStep(w)
  BY <1>2, DriveFits, TransitionsFit, SettleFits DEF DriveStep
<1>3. CASE LocalStep(w)
  BY <1>3, EnterFits, BorderFits, TransitionsFit, LocalFits DEF LocalStep
<1> QED
  BY <1>1, <1>2, <1>3 DEF WorkerStep

\* Every step of the system preserves the invariant.
LEMMA NextFits == SupInv /\ [Next]_vars => SupInv'
<1> SUFFICES ASSUME SupInv, [Next]_vars PROVE SupInv'
  OBVIOUS
<1>1. CASE Fill
  BY <1>1, FillFits
<1>2. CASE \E w \in Workers : WorkerStep(w)
  BY <1>2, WorkerFits
<1>3. CASE Crash
  BY <1>3, CrashFits
<1>4. CASE \E c \in 1..MaxCapacity : Start(c)
  BY <1>4, StartFits
<1>5. CASE Abandon
  BY <1>5, AbandonLeaseFits, AbandonStopFit, AbandonStopFailsFit, AbandonCommitFits,
     AbandonEndsFit
  DEF Abandon
<1>6. CASE \E r \in Runs, q \in Phase : OperatorResumes(r, q)
  BY <1>6, ResumeFits
<1>7. CASE \E r \in Runs : ChildExits(r)
  BY <1>7, ChildExitsFit
<1>8. CASE TickRenewing
  BY <1>8, TickFits
<1>9. CASE UNCHANGED vars
  BY <1>9, StutterFits
<1> QED
  BY <1>1, <1>2, <1>3, <1>4, <1>5, <1>6, <1>7, <1>8, <1>9 DEF Next

\* The inductive invariant holds of every reachable state of the supervisor.
LEMMA SupInvariance == Spec => []SupInv
BY SupInit, NextFits, PTL DEF Spec

\* The store keeps its authority invariants with the worker process, the
\* operator's commands and every crash between two of their statements as its
\* clients (module Supervisor's Spec, where SchedulingProofs has any client).
THEOREM StoreAuthorities == Spec => [](TypeOK /\ SlotAuthority /\ PermitUnderSlot /\ ActiveOwnsSlot)
<1>1. SupInv => TypeOK /\ SlotAuthority /\ PermitUnderSlot /\ ActiveOwnsSlot
  BY DEF SupInv, StoreInv
<1> QED
  BY <1>1, SupInvariance, PTL

\* A live managed child of a nonterminal run is covered by the run's heavy
\* permit: ReleaseHeavyPermit refuses under a started attempt, reconciliation
\* conflicts with it, and recovery stops the child before it ends the attempt.
THEOREM ChildrenCovered == Spec => []ChildCovered
<1>1. SupInv => ChildCovered
  BY DEF SupInv, RunsFit, RunFit, ChildCovered
<1> QED
  BY <1>1, SupInvariance, PTL

\* A run has at most one live managed child, through crashes, restarts, kills of
\* unproven exit and the operator's commands.
THEOREM OneChild == Spec => []SingleChild
<1>1. SupInv => SingleChild
  BY DEF SupInv, RunsFit, RunFit, SingleChild
<1> QED
  BY <1>1, SupInvariance, PTL

\* Whoever prepares or launches a child has the run's lease, the run's permit and
\* the run's only claim (local_controller.go under enterHeavyWork's permit).
THEOREM LaunchesAuthorized == Spec => []LaunchAuthority
<1>1. ASSUME SupInv PROVE LaunchAuthority
  <2> SUFFICES ASSUME NEW w \in Workers, wk[w].pc \in {"launch", "spawn", "running"}
               PROVE  /\ permit[RunOf(w)].owner = proc
                      /\ lease[RunOf(w)].by = proc /\ LeaseLive(RunOf(w))
                      /\ \A v \in Workers \ {w} : RunOf(v) = RunOf(w) => At(v, "claim")
    BY DEF LaunchAuthority
  <2>1. Fit(w) /\ Leased(w) /\ Working(w)
    BY <1>1 DEF SupInv, WorkersFit, Leased, Working
  <2>2. Placed(w) /\ ~At(w, "claim")
    BY DEF Placed, Unplaced, At
  <2> QED
    BY <1>1, <2>1, <2>2, RunToItself DEF Fit
<1> QED
  BY <1>1, SupInvariance, PTL

\* A drive meets no started attempt of an earlier process: prepareRunPermit sends
\* every run with one through ReconcileInterruptedRun first.
THEOREM RecoveredBeforeDrive == Spec => []RecoveryBeforeDrive
<1>1. ASSUME SupInv PROVE RecoveryBeforeDrive
  <2> SUFFICES ASSUME NEW w \in Workers, wk[w].pc \in {"drive", "enter", "leasing", "local"}
               PROVE  /\ attempt[RunOf(w)] # "started"
                      /\ Started(RunOf(w)) /\ Active(RunOf(w)) => permit[RunOf(w)].owner = proc
    BY DEF RecoveryBeforeDrive
  <2>1. wk[w].pc \notin Unplaced \cup {"claim"}
    BY DEF Unplaced
  <2>2. PICK q \in Runs : q = RunOf(w)
    BY <1>1, <2>1, AtRun
  <2>3. ~At(w, "claim") /\ ~Launching(w) /\ ~Recovering(w)
    BY DEF At, Launching, Recovering
  <2> QED
    BY <1>1, <2>2, <2>3, NothingStarted DEF Fresh
<1> QED
  BY <1>1, SupInvariance, PTL
-----------------------------------------------------------------------------
(***************************************************************************)
(* What a step does to the permits and to the children, which is all that   *)
(* the heavy-work contract and the grant order look at.                     *)
(***************************************************************************)
Running == {r \in Runs : child[r] > 0}

\* No run gains a permit, none whose launched child may be alive loses it, the
\* running runs are the same, and none of them ends.
Wanes == /\ Permitted' \subseteq Permitted /\ KeepsStartedPermits /\ Running' = Running
         /\ \A r \in Running : Active(r) => phase'[r] # "terminal"

\* Run r gains its permit by one of the two statements that insert one.
Gains(r) == /\ GrantPermit(r, proc) \/ ReserveRun(r, proc)
            /\ proc # 0 /\ child' = child

Launches(r) == /\ UNCHANGED <<phase, permit, capacity>> /\ HasPermit(r)
               /\ lease[r].by = proc /\ proc # 0
               /\ r \notin Running /\ Running' = Running \cup {r}

Stops(r) == /\ UNCHANGED <<phase, permit, capacity>>
            /\ r \in Running /\ Running' = Running \ {r}

\* Run r ends with a child whose stop was not proven.
Forced(r) == ForcedEnd(r) /\ Permitted' = Permitted \ {r}

Effect == Wanes \/ \E r \in Runs : Gains(r) \/ Launches(r) \/ Stops(r) \/ Forced(r)

\* A statement that leaves phases alone, inserts no permit and spares the runs
\* with a started attempt.
LEMMA WanesQuietly ==
  ASSUME UNCHANGED <<phase, child>>, KeepsStartedPermits,
         \A r \in Runs : permit'[r].owner # 0 => permit[r].owner # 0
  PROVE  Effect
BY DEF Effect, Wanes, Permitted, HasPermit, Running, Active

\* No statement at all.
LEMMA WanesStutter ==
  ASSUME UNCHANGED storeVars, child' = child
  PROVE  Effect
BY WanesQuietly DEF storeVars, KeepsStartedPermits, HasPermit

\* An acquisition inserts a permit or changes one's owner.
LEMMA EffectAcquire ==
  ASSUME StoreInv, NEW r \in Runs, AcquireHeld(r, proc), child' = child, proc # 0
  PROVE  Effect
<1>1. CASE AlreadyHeld(r, proc) /\ UNCHANGED storeVars
  BY <1>1, WanesStutter
<1>2. CASE AdoptPermit(r, proc)
  <2>1. KeepsStartedPermits
    BY <1>2 DEF AdoptPermit, KeepsStartedPermits, HasPermit, StoreInv, TypeOK
  <2> QED
    BY <1>2, <2>1, WanesQuietly DEF AdoptPermit, Adoptable, StoreInv, TypeOK
<1>3. CASE GrantPermit(r, proc)
  BY <1>3 DEF Effect, Gains
<1> QED
  BY <1>1, <1>2, <1>3 DEF AcquireHeld

\* A release deletes at most a permit.
LEMMA EffectRelease ==
  ASSUME StoreInv, NEW r \in Runs, NEW o, NEW v, NEW reason,
         ReleaseHeavyPermit(r, o, v, reason), child' = child
  PROVE  Effect
<1>1. CASE ReleasePermit(r, o, v, reason)
  <2>1. KeepsStartedPermits
    BY <1>1 DEF ReleasePermit, Releases, KeepsStartedPermits, HasPermit, StoreInv, TypeOK
  <2> QED
    BY <1>1, <2>1, WanesQuietly DEF ReleasePermit, NoPermit, StoreInv, TypeOK
<1>2. CASE UNCHANGED storeVars
  BY <1>2, WanesStutter
<1> QED
  BY <1>1, <1>2 DEF ReleaseHeavyPermit

\* Reconciliation deletes permits, and conflicts rather than delete one of a run
\* with a started attempt.
LEMMA EffectReconcile ==
  ASSUME ~ReconcileConflict, permit' = [r \in Runs |-> ReconciledPermit(r)],
         UNCHANGED <<phase, child>>
  PROVE  Effect
<1>1. KeepsStartedPermits
  BY DEF ReconcileConflict, ReconciledPermit, KeepsStartedPermits, HasPermit
<1> QED
  BY <1>1, WanesQuietly DEF ReconciledPermit, NoPermit

\* A change of phase between nonterminal phases touches no permit; one to a
\* terminal phase ends a run that has no child, or forces its end.
LEMMA EffectSetPhase ==
  ASSUME SupInv, NEW r \in Runs, NEW p, SetPhase(r, p), child' = child,
         p = "terminal" /\ Active(r) /\ child[r] > 0 =>
           attempt[r] = "unproven" \/ (op.pc = "commit" /\ op.run = r)
  PROVE  Effect
<1>1. /\ phase'[r] = p /\ \A q \in Runs \ {r} : phase'[q] = phase[q]
      /\ Running' = Running
  BY DEF SetPhase, SupInv, StoreInv, TypeOK, Running
<1>2. CASE p # "terminal"
  <2>1. permit' = permit
    BY <1>2 DEF SetPhase
  <2>2. \A q \in Running : Active(q) => phase'[q] # "terminal"
    BY <1>1, <1>2 DEF Running, Active
  <2>3. Permitted' = Permitted /\ KeepsStartedPermits
    BY <2>1 DEF KeepsStartedPermits, Permitted, HasPermit
  <2> QED
    BY <1>1, <2>2, <2>3 DEF Effect, Wanes
<1>3. CASE p = "terminal"
  <2>1. permit'[r].owner = 0 /\ \A q \in Runs \ {r} : permit'[q] = permit[q]
    BY <1>3 DEF SetPhase, ReleaseTerminalAuthority, NoPermit, SupInv, StoreInv, TypeOK
  <2>2. Permitted' = Permitted \ {r}
    BY <2>1 DEF Permitted, HasPermit
  <2>3. CASE Active(r) /\ child[r] > 0
    BY <1>1, <1>3, <2>2, <2>3 DEF Effect, Forced, ForcedEnd
  <2>4. CASE ~(Active(r) /\ child[r] > 0)
    <3>1. \A q \in Running : Active(q) => phase'[q] # "terminal"
      BY <1>1, <2>4 DEF Running, Active
    <3>2. KeepsStartedPermits
      BY <1>1, <1>3, <2>1 DEF KeepsStartedPermits, HasPermit
    <3> QED
      BY <1>1, <2>2, <3>1, <3>2 DEF Effect, Wanes
  <2> QED
    BY <2>3, <2>4
<1> QED
  BY <1>2, <1>3

\* Outside heavy work a live child is one whose group's exit is unproven.
LEMMA LightChild ==
  ASSUME SupInv, NEW r \in Runs, Active(r), ~Heavy(r), child[r] > 0
  PROVE  attempt[r] = "unproven"
BY DEF SupInv, RunsFit, RunFit, Started

\* A transition of the run state machine ends no run of heavy work with a child.
LEMMA EffectTransition ==
  ASSUME SupInv, NEW r \in Runs, NEW p, Transition(r, p), child' = child,
         p = "terminal" => ~Heavy(r) \/ ~Started(r)
  PROVE  Effect
<1>1. p = "terminal" /\ child[r] > 0 => attempt[r] = "unproven"
  BY LightChild DEF Transition, SupInv, RunsFit, RunFit
<1> QED
  BY <1>1, EffectSetPhase DEF Transition

\* Children of one run are stopped.
LEMMA EffectStop ==
  ASSUME NEW r \in Runs, UNCHANGED <<phase, permit, capacity>>,
         child'[r] = 0, \A q \in Runs \ {r} : child'[q] = child[q]
  PROVE  Effect
<1>1. Running' = Running \ {r}
  BY DEF Running
<1>2. CASE r \in Running
  BY <1>1, <1>2 DEF Effect, Stops
<1>3. CASE r \notin Running
  BY <1>1, <1>3 DEF Effect, Wanes, KeepsStartedPermits, Permitted, HasPermit, Active
<1> QED
  BY <1>2, <1>3

\* Statements on leases, attempts, attention and deferrals.
LEMMA EffectStill ==
  ASSUME UNCHANGED <<phase, permit, child>>
  PROVE  Effect
BY WanesQuietly DEF KeepsStartedPermits, HasPermit

\* A goroutine's dispatch.
LEMMA DispatchEffect ==
  ASSUME SupInv, NEW w \in Workers, DispatchStep(w)
  PROVE  Effect
<1>1. CASE \/ ScanBusy(w) \/ ScanConflict(w) \/ Claim(w) \/ NoCandidate(w) \/ PrepareLight(w)
           \/ PrepareRecover(w) \/ PrepareWaits(w) \/ RecoverRefused(w) \/ Resume(w)
           \/ FailureElsewhere(w) \/ Collect(w)
  BY <1>1, WanesStutter
  DEF ScanBusy, ScanConflict, Claim, NoCandidate, PrepareLight, PrepareRecover, PrepareWaits,
      RecoverRefused, Resume, FailureElsewhere, Collect, KeepStore, KeepRest, KeepProcess
<1>2. CASE ScanPick(w) \/ ScanNone(w)
  BY <1>2, EffectReconcile
  DEF ScanPick, ScanNone, ReconcileSchedulingAuthorities, KeepRest, KeepProcess
<1>3. CASE Admit(w)
  BY <1>3 DEF Admit, KeepRest, KeepProcess, Effect, Gains, SupInv, Shape, At
<1>4. CASE \/ RecoverLease(w) \/ StopNothing(w) \/ StopFails(w) \/ FinishStopped(w)
           \/ DeferRetryRun(w) \/ DeferExternalRun(w) \/ RunFailure(w)
  BY <1>4, EffectStill
  DEF RecoverLease, StopNothing, StopFails, FinishStopped, DeferRetryRun, DeferExternalRun,
      RunFailure, Deferral, DeferSchedulingRun, AppendOperatorAttention, AcquireLease,
      ReleaseLease, KeepStore, storeVars, KeepRest, KeepProcess
<1>5. CASE PrepareHeld(w) \/ Reacquire(w)
  <2>1. RunOf(w) \in Runs /\ proc # 0
    BY <1>5, AtRun DEF PrepareHeld, Reacquire, At, Unplaced
  <2> QED
    BY <1>5, <2>1, EffectAcquire DEF PrepareHeld, Reacquire, KeepRest, KeepProcess, SupInv
<1>6. CASE StopAttempt(w)
  <2>1. RunOf(w) \in Runs
    BY <1>6, AtRun DEF StopAttempt, At, Unplaced
  <2> QED
    BY <1>6, <2>1, EffectStop DEF StopAttempt, KeepStore, storeVars, SupInv, Shape
<1>7. CASE FinishMissingSession(w)
  <2>1. RunOf(w) \in Runs
    BY <1>7, AtRun DEF FinishMissingSession, At, Unplaced
  <2> QED
    BY <1>7, <2>1, EffectSetPhase DEF FinishMissingSession, KeepProcess
<1>8. CASE \/ RetryAttention(w) \/ RetryNotEligible(w) \/ ReleaseReserved(w) \/ SettleRetry(w)
           \/ SettleWaiting(w) \/ SettleDriven(w)
  <2>1. RunOf(w) \in Runs
    BY <1>8, AtRun
    DEF RetryAttention, RetryNotEligible, ReleaseReserved, SettleRetry, SettleWaiting,
        SettleDriven, At, Unplaced
  <2>2. /\ child' = child
        /\ \/ UNCHANGED storeVars
           \/ \E reason : ReleaseHeavyPermit(RunOf(w), proc, wk[w].dp, reason)
    BY <1>8
    DEF RetryAttention, RetryNotEligible, ReleaseReserved, SettleRetry, SettleWaiting,
        SettleDriven, KeepStore, KeepRest, KeepProcess
  <2> QED
    BY <2>1, <2>2, WanesStutter, EffectRelease DEF SupInv
<1> QED
  BY <1>1, <1>2, <1>3, <1>4, <1>5, <1>6, <1>7, <1>8, SMTT(30) DEF DispatchStep

\* A goroutine's drive.
LEMMA DriveEffect ==
  ASSUME SupInv, NEW w \in Workers, DriveStep(w)
  PROVE  Effect
<1>1. RunOf(w) \in Runs /\ proc # 0
  BY AtRun DEF DriveStep, DriveAcquire, DriveHeld, DriveRelease, ActStop, ActExternal, ActWait,
               ActFails, DriveExit, At, Unplaced
<1>2. CASE DriveAcquire(w)
  BY <1>1, <1>2, EffectAcquire DEF DriveAcquire, KeepRest, KeepProcess, SupInv
<1>3. CASE DriveHeld(w) \/ ActFails(w) \/ ActStop(w)
  BY <1>3, EffectStill
  DEF DriveHeld, ActFails, ActStop, AppendOperatorAttention, KeepStore, storeVars, KeepRest, KeepProcess
<1>4. CASE ActExternal(w)
  BY <1>1, <1>4, EffectTransition DEF ActExternal, KeepProcess, Heavy
<1>5. CASE DriveRelease(w) \/ ActWait(w) \/ DriveExit(w)
  <2>1. /\ child' = child
        /\ \/ UNCHANGED storeVars
           \/ \E reason : ReleaseHeavyPermit(RunOf(w), proc, wk[w].lp, reason)
    BY <1>5 DEF DriveRelease, ActWait, DriveExit, KeepStore, KeepRest, KeepProcess
  <2> QED
    BY <1>1, <2>1, WanesStutter, EffectRelease DEF SupInv
<1> QED
  BY <1>2, <1>3, <1>4, <1>5 DEF DriveStep

\* The local controller under it.
LEMMA LocalEffect ==
  ASSUME SupInv, NEW w \in Workers, LocalStep(w)
  PROVE  Effect
<1>1. RunOf(w) \in Runs /\ proc # 0
  BY AtRun DEF LocalStep, EnterHeld, EnterRefused, StartFails, ApprovalInvalidated, Leasing,
               LeasingRefused, LocalBegin, LocalTransition, LocalReturn, LocalFails, Launch,
               Spawn, LaunchFails, Reap, Kill, KillUnproven, RepairDeadline, Leave, At, Unplaced
<1>2. CASE EnterHeld(w)
  BY <1>1, <1>2, EffectAcquire DEF EnterHeld, KeepRest, KeepProcess, SupInv
<1>3. CASE \/ EnterRefused(w) \/ StartFails(w) \/ LeasingRefused(w) \/ LocalReturn(w) \/ LocalFails(w)
  BY <1>3, WanesStutter
  DEF EnterRefused, StartFails, LeasingRefused, LocalReturn, LocalFails, KeepStore, KeepRest,
      KeepProcess
<1>4. CASE \/ Leasing(w) \/ LocalBegin(w) \/ Launch(w) \/ LaunchFails(w) \/ Reap(w)
           \/ KillUnproven(w) \/ Leave(w)
  BY <1>4, EffectStill
  DEF Leasing, LocalBegin, Launch, LaunchFails, Reap, KillUnproven, Leave, AcquireLease,
      ReleaseLease, BeginAttempt, CommitAttemptProcessLaunch, FinishAttempt, FinishUnproven,
      SetAttempt, KeepRest, KeepProcess
<1>5. CASE ApprovalInvalidated(w) \/ LocalTransition(w) \/ RepairDeadline(w)
  BY <1>1, <1>5, EffectTransition
  DEF ApprovalInvalidated, LocalTransition, RepairDeadline, KeepRest, KeepProcess, Heavy
<1>6. CASE Spawn(w)
  <2>1. PICK q \in Runs : q = RunOf(w)
    BY <1>1
  <2>2. child[q] = 0 /\ HasPermit(q) /\ lease[q].by = proc
    BY <1>1, <1>6, <2>1, WorkingRun
    DEF Spawn, At, Working, Leased, SupInv, WorkersFit, Fit, HasPermit
  <2>3. /\ UNCHANGED <<phase, permit, capacity>>
        /\ child'[q] = 1 /\ \A r \in Runs \ {q} : child'[r] = child[r]
    BY <1>6, <2>1, <2>2 DEF Spawn, KeepStore, storeVars, SupInv, Shape
  <2>4. q \notin Running /\ Running' = Running \cup {q}
    BY <2>2, <2>3 DEF Running
  <2> QED
    BY <1>1, <2>2, <2>3, <2>4 DEF Effect, Launches
<1>7. CASE Kill(w)
  BY <1>1, <1>7, EffectStop DEF Kill, FinishAttempt, SetAttempt, SupInv, Shape
<1> QED
  BY <1>2, <1>3, <1>4, <1>5, <1>6, <1>7 DEF LocalStep

\* Every step has one of the effects.
LEMMA EveryEffect ==
  ASSUME SupInv, [Next]_vars
  PROVE  Effect
<1>1. CASE Fill \/ Crash \/ UNCHANGED vars \/ AbandonStopFails
  BY <1>1, WanesStutter
  DEF Fill, Crash, vars, supVars, AbandonStopFails, KeepStore, KeepRest, KeepProcess
<1>2. ASSUME NEW w \in Workers, WorkerStep(w) PROVE Effect
  BY <1>2, DispatchEffect, DriveEffect, LocalEffect DEF WorkerStep
<1>3. ASSUME NEW c \in 1..MaxCapacity, Start(c) PROVE Effect
  BY <1>3, EffectReconcile DEF Start
<1>4. ASSUME NEW r \in Runs, AbandonLease(r) PROVE Effect
  BY <1>4, EffectStill DEF AbandonLease, AcquireLease
<1>5. CASE AbandonStop
  <2>1. PICK q \in Runs : q = op.run
    BY <1>5 DEF AbandonStop, SupInv, Shape, Command
  <2>2. CASE Started(q)
    BY <1>5, <2>1, <2>2, EffectStop DEF AbandonStop, SupInv, Shape
  <2>3. CASE ~Started(q)
    BY <1>5, <2>1, <2>3, EffectStill DEF AbandonStop
  <2> QED
    BY <2>2, <2>3
<1>6. CASE AbandonCommit
  <2>1. op.run \in Runs
    BY <1>6 DEF AbandonCommit, SupInv, Shape, Command
  <2> QED
    BY <1>6, <2>1, EffectSetPhase DEF AbandonCommit
<1>7. CASE AbandonEnds
  BY <1>7, EffectStill DEF AbandonEnds, ReleaseLease, KeepStore, storeVars
<1>8. ASSUME NEW r \in Runs, NEW p \in Phase, OperatorResumes(r, p) PROVE Effect
  BY <1>8, EffectTransition DEF OperatorResumes
<1>9. ASSUME NEW r \in Runs, ChildExits(r) PROVE Effect
  <2>1. child[r] = 1
    BY <1>9 DEF ChildExits, SupInv, Shape, RunsFit, RunFit
  <2> QED
    BY <1>9, <2>1, EffectStop DEF ChildExits, KeepStore, storeVars, SupInv, Shape
<1>10. CASE TickRenewing
  BY <1>10, EffectStill DEF TickRenewing, supVars
<1> QED
  BY <1>1, <1>2, <1>3, <1>4, <1>5, <1>6, <1>7, <1>8, <1>9, <1>10 DEF Next, Abandon

\* No dispatch, recovery, restart or command takes the permit from a run whose
\* launched child may be alive, unless it ends the run (the callers of
\* ReleaseHeavyPermit, configureSchedulingAuthorities, AbandonAutomaticAdmission).
THEOREM SupervisorKeepsStarted == Spec => StartedKeepsPermit
<1>1. SupInv /\ [Next]_vars => [KeepsStartedPermits]_storeVars
  <2> SUFFICES ASSUME SupInv, [Next]_vars PROVE KeepsStartedPermits
    OBVIOUS
  <2>1. ASSUME NEW r \in Runs, Gains(r) PROVE KeepsStartedPermits
    <3>1. PICK v \in Nat : permit' = [permit EXCEPT ![r] = [owner |-> proc, ver |-> v]]
      BY <2>1 DEF Gains, GrantPermit, ReserveRun
    <3>2. permit'[r].owner = proc /\ \A q \in Runs \ {r} : permit'[q] = permit[q]
      BY <3>1 DEF SupInv, StoreInv, TypeOK
    <3> QED
      BY <2>1, <3>2 DEF Gains, KeepsStartedPermits, HasPermit
  <2>2. ASSUME NEW r \in Runs, Launches(r) \/ Stops(r) PROVE KeepsStartedPermits
    BY <2>2 DEF Launches, Stops, KeepsStartedPermits, HasPermit
  <2>3. ASSUME NEW r \in Runs, Forced(r) PROVE KeepsStartedPermits
    BY <2>3 DEF Forced, ForcedEnd, Permitted, KeepsStartedPermits, HasPermit
  <2> QED
    BY <2>1, <2>2, <2>3, EveryEffect DEF Effect, Wanes
<1> QED
  BY <1>1, SupInvariance, PTL DEF Spec, StartedKeepsPermit

\* The worker, the operator's commands and every crash between two statements
\* keep to the capacity and to the order of the waiting runs.
THEOREM SupervisorGrants == Spec => GrantsWithinCapacity
<1>1. ASSUME SupInv, [Next]_vars PROVE GrantsInOrder
  <2>1. ASSUME NEW r \in Runs, Gains(r) PROVE GrantsInOrder
    BY <1>1, <2>1, GrantKeepsOrder DEF Gains, SupInv
  <2>2. ASSUME Permitted' \subseteq Permitted PROVE GrantsInOrder
    BY <2>2 DEF GrantsInOrder, Permitted, HasPermit
  <2>3. ASSUME NEW r \in Runs, Launches(r) \/ Stops(r) \/ Forced(r) PROVE Permitted' \subseteq Permitted
    BY <2>3 DEF Launches, Stops, Forced, Permitted, HasPermit
  <2> QED
    BY <1>1, <2>1, <2>2, <2>3, EveryEffect DEF Effect, Wanes
<1> QED
  BY <1>1, SupInvariance, PTL DEF Spec, GrantsWithinCapacity
-----------------------------------------------------------------------------
(***************************************************************************)
(* The heavy-work contract.  A repository's permit holder is well defined   *)
(* because a permit is held only under the repository's slot.               *)
(***************************************************************************)
Holder == [b \in Bindings |->
             IF \E r \in Permitted : BindingOf[r] = b
               THEN CHOOSE r \in Permitted : BindingOf[r] = b ELSE NoRun]

Holders == {b \in Bindings : Holder[b] # NoRun}

HolderFacts ==
  /\ Holder \in [Bindings -> Runs \cup {NoRun}]
  /\ \A b \in Bindings : Holder[b] # NoRun => Holder[b] \in Permitted /\ BindingOf[Holder[b]] = b
  /\ \A r \in Permitted : Holder[BindingOf[r]] = r

\* Every permitted run is the holder of its repository's permit.
LEMMA HolderIs == StoreInv => HolderFacts
<1> SUFFICES ASSUME StoreInv PROVE HolderFacts
  OBVIOUS
<1>1. NoRun \notin Runs /\ Permitted \subseteq Runs
  BY RunsAssumption, NoRunAssumption DEF Permitted
<1>2. \A p, q \in Permitted : BindingOf[p] = BindingOf[q] => p = q
  BY DEF StoreInv, PermitUnderSlot, OwnsSlot, Permitted
<1>3. ASSUME NEW b \in Bindings
      PROVE  \/ Holder[b] = NoRun /\ \A r \in Permitted : BindingOf[r] # b
             \/ Holder[b] \in Permitted /\ BindingOf[Holder[b]] = b
  BY DEF Holder
<1>4. \A b \in Bindings : Holder[b] \in Runs \cup {NoRun}
  BY <1>1, <1>3
<1>5. Holder \in [Bindings -> Runs \cup {NoRun}]
  BY <1>4 DEF Holder
<1>6. \A r \in Permitted : Holder[BindingOf[r]] = r
  BY <1>1, <1>2, <1>3, BindingAssumption
<1> QED
  BY <1>1, <1>3, <1>5, <1>6 DEF HolderFacts

\* There are no more holders than permits.
LEMMA HoldersCounted ==
  ASSUME StoreInv
  PROVE  Cardinality(Holders) \in Nat /\ Cardinality(Holders) <= InUse
<1>1. HolderFacts
  BY HolderIs
<1> DEFINE f == [b \in Holders |-> Holder[b]]
<1>2. f \in [Holders -> Permitted]
  BY <1>1 DEF HolderFacts, Holders
<1>3. \A b, c \in Holders : f[b] = f[c] => b = c
  BY <1>1 DEF HolderFacts, Holders
<1>4. f \in Injection(Holders, Permitted)
  BY <1>2, <1>3 DEF Injection, IsInjective
<1>5. IsFiniteSet(Permitted)
  BY RunsAssumption, FS_Subset DEF Permitted
<1> HIDE DEF f
<1>6. IsFiniteSet(Holders) /\ Cardinality(Holders) <= Cardinality(Permitted)
  BY <1>4, <1>5, FS_Injection
<1> QED
  BY <1>6, FS_CardinalityType DEF InUse

\* The contract counts as the store does.
LEMMA ContractCounts ==
  ASSUME NEW S
  PROVE  HeavyWorkContract!Cardinality(S) = Cardinality(S)
BY DEF HeavyWorkContract!Cardinality, Cardinality

\* What the contract sees of a supervisor's state.
LEMMA ContractSees ==
  /\ HeavyWorkContract!Granted = Holders
  /\ \A r \in Runs : HeavyWorkContract!Holds(r) <=> Holder[BindingOf[r]] = r
BY DEF HeavyWorkContract!Granted, HeavyWorkContract!Holds, Holders, Holder

\* Permits that go and runs that stay: the contract's withdrawal.
LEMMA WanesWithdraws ==
  ASSUME SupInv, SupInv', Wanes
  PROVE  HeavyWorkContract!Withdraw
<1>1. HolderFacts /\ HolderFacts'
  BY HolderIs, PTL DEF SupInv
<1> DEFINE W == {b \in Holders : Holder[b] \notin Permitted'}
<1>2. W \subseteq HeavyWorkContract!Granted
  BY ContractSees
<1>3. \A b \in W : Holder[b] \notin Running
  <2> SUFFICES ASSUME NEW b \in W, Holder[b] \in Running PROVE FALSE
    OBVIOUS
  <2>1. PICK r \in Runs : r = Holder[b] /\ HasPermit(r) /\ child[r] > 0
    BY <1>1 DEF HolderFacts, Holders, Permitted, Running
  <2>2. Active(r)
    BY <2>1, BindingAssumption, RunsAssumption, NoRunAssumption
    DEF SupInv, StoreInv, PermitUnderSlot, SlotAuthority, OwnsSlot
  <2>3. Started(r) /\ phase'[r] # "terminal"
    BY <2>1, <2>2 DEF SupInv, RunsFit, RunFit, Wanes, Running
  <2>4. Holder[b] \in Permitted'
    BY <2>1, <2>3 DEF Wanes, KeepsStartedPermits, Permitted, HasPermit
  <2> QED
    BY <2>4
<1>4. Holder' = [b \in Bindings |-> IF b \in W THEN NoRun ELSE Holder[b]]
  <2>1. ASSUME NEW b \in Bindings PROVE Holder'[b] = IF b \in W THEN NoRun ELSE Holder[b]
    <3>1. CASE Holder[b] = NoRun
      <4>1. Holder'[b] = NoRun
        BY <1>1, <3>1 DEF HolderFacts, Wanes
      <4> QED
        BY <3>1, <4>1
    <3>2. CASE b \in W
      BY <1>1, <3>2 DEF HolderFacts, Wanes
    <3>3. CASE Holder[b] # NoRun /\ b \notin W
      BY <1>1, <3>3 DEF HolderFacts, Holders
    <3> QED
      BY <3>1, <3>2, <3>3
  <2> QED
    BY <1>1, <2>1 DEF HolderFacts
<1>5. capacity' \in Nat \ {0} /\ Running' = Running
  BY CapacityAssumption DEF SupInv, StoreInv, TypeOK, Wanes
<1> HIDE DEF W
<1> QED
  BY <1>2, <1>3, <1>4, <1>5 DEF HeavyWorkContract!Withdraw, Holder, Running

\* Elsewhere than at run r's repository the holder stays, where only run r's
\* permit comes or goes.
LEMMA OtherHolders ==
  ASSUME SupInv, SupInv', NEW r \in Runs, \A q \in Runs \ {r} : HasPermit(q)' <=> HasPermit(q)
  PROVE  \A b \in Bindings \ {BindingOf[r]} : Holder'[b] = Holder[b]
<1>1. HolderFacts /\ HolderFacts'
  BY HolderIs, PTL DEF SupInv
<1> SUFFICES ASSUME NEW b \in Bindings, b # BindingOf[r] PROVE Holder'[b] = Holder[b]
  OBVIOUS
<1>2. \A q \in Runs : BindingOf[q] = b => (q \in Permitted' <=> q \in Permitted)
  BY DEF Permitted
<1>3. CASE Holder[b] = NoRun
  BY <1>1, <1>2, <1>3 DEF HolderFacts, Permitted
<1>4. CASE Holder[b] # NoRun
  BY <1>1, <1>2, <1>4 DEF HolderFacts, Permitted
<1> QED
  BY <1>3, <1>4

\* A grant or a reservation below capacity is the contract's grant.
LEMMA GainsGrants ==
  ASSUME SupInv, SupInv', NEW r \in Runs, Gains(r)
  PROVE  HeavyWorkContract!Grant(r)
<1>1. HolderFacts /\ HolderFacts'
  BY HolderIs, PTL DEF SupInv
<1>2. /\ \A q \in Runs \ {r} : permit'[q] = permit[q]
      /\ permit'[r].owner # 0 /\ HasCapacity /\ capacity' = capacity
  BY DEF Gains, GrantPermit, Grantable, ReserveRun, Reservable, SupInv, StoreInv, TypeOK
<1>3. ~HasPermit(r)
  <2>1. CASE GrantPermit(r, proc)
    BY <2>1 DEF GrantPermit, Grantable
  <2>2. CASE ReserveRun(r, proc)
    BY <2>2, RunsAssumption, NoRunAssumption, BindingAssumption
    DEF ReserveRun, Reservable, SupInv, StoreInv, PermitUnderSlot, OwnsSlot
  <2> QED
    BY <2>1, <2>2 DEF Gains
<1>4. Holder[BindingOf[r]] = NoRun
  <2> SUFFICES ASSUME Holder[BindingOf[r]] # NoRun PROVE FALSE
    OBVIOUS
  <2>1. PICK q \in Permitted : BindingOf[q] = BindingOf[r]
    BY <1>1, BindingAssumption DEF HolderFacts
  <2>2. q # r /\ q \in Permitted' /\ r \in Permitted'
    BY <1>2, <1>3, <2>1 DEF Permitted, HasPermit
  <2> QED
    BY <1>1, <2>1, <2>2 DEF HolderFacts
<1>5. Holder'[BindingOf[r]] = r
  BY <1>1, <1>2 DEF HolderFacts, Permitted, HasPermit
<1>6. Holder' = [Holder EXCEPT ![BindingOf[r]] = r]
  <2>1. \A b \in Bindings \ {BindingOf[r]} : Holder'[b] = Holder[b]
    BY <1>2, OtherHolders DEF HasPermit
  <2> QED
    BY <1>1, <1>5, <2>1 DEF HolderFacts
<1>7. Running' = Running
  BY DEF Gains, Running
<1>8. Cardinality(Holders) < capacity
  <2>1. IsFiniteSet(Permitted) /\ InUse < capacity /\ capacity \in Nat
    BY <1>2, RunsAssumption, FS_Subset DEF HasCapacity, SupInv, StoreInv, TypeOK, Permitted
  <2>2. InUse \in Nat
    BY <2>1, FS_CardinalityType DEF InUse
  <2> QED
    BY <2>1, <2>2, HoldersCounted DEF SupInv
<1> QED
  BY <1>2, <1>4, <1>6, <1>7, <1>8, ContractSees, ContractCounts
  DEF HeavyWorkContract!Grant, Holder, Running

\* A child is launched under its run's permit, and stopped.
LEMMA ChildrenKeepContract ==
  ASSUME SupInv, SupInv', NEW r \in Runs, Launches(r) \/ Stops(r)
  PROVE  HeavyWorkContract!Launch(r) \/ HeavyWorkContract!Stop(r)
<1>1. Holder' = Holder /\ capacity' = capacity
  BY DEF Launches, Stops, Holder, Permitted, HasPermit
<1>2. CASE Launches(r)
  <2>1. r \in Permitted
    BY <1>2 DEF Launches, Permitted
  <2>2. Holder[BindingOf[r]] = r
    BY <2>1, HolderIs DEF HolderFacts, SupInv
  <2> QED
    BY <1>1, <1>2, <2>2, ContractSees DEF Launches, HeavyWorkContract!Launch, Holder, Running
<1>3. CASE Stops(r)
  BY <1>1, <1>3 DEF Stops, HeavyWorkContract!Stop, Holder, Running
<1> QED
  BY <1>2, <1>3

\* Initially nobody holds a permit and nothing runs.
LEMMA ContractStarts == Init => HeavyWorkContract!ContractInit
<1> SUFFICES ASSUME Init PROVE HeavyWorkContract!ContractInit
  OBVIOUS
<1>1. Permitted = {} /\ Running = {} /\ capacity \in Nat \ {0}
  BY CapacityAssumption DEF Init, StoreInit, Permitted, HasPermit, NoPermit, Running
<1>2. Holder = [b \in Bindings |-> NoRun]
  BY <1>1 DEF Holder
<1> QED
  BY <1>1, <1>2 DEF HeavyWorkContract!ContractInit, Holder, Running

\* Every step is a step of the contract, or the forced end of a run.
LEMMA ContractGoes ==
  ASSUME SupInv, SupInv', [Next]_vars
  PROVE  HeavyWorkContract!ContractNext \/ \E r \in Runs : ForcedEnd(r)
<1>1. CASE Wanes
  BY <1>1, WanesWithdraws DEF HeavyWorkContract!ContractNext
<1>2. ASSUME NEW r \in Runs, Gains(r) \/ Launches(r) \/ Stops(r)
      PROVE  HeavyWorkContract!ContractNext
  BY <1>2, GainsGrants, ChildrenKeepContract DEF HeavyWorkContract!ContractNext
<1> QED
  BY <1>1, <1>2, EveryEffect DEF Effect, Forced

\* Whatever fails, the worker, the store and the operator's commands keep the
\* heavy-work contract at every step but the end of a run whose child could not be
\* stopped, with every number of runs, goroutines, crashes and restarts.
THEOREM SupervisorKeepsContract == Spec => ContractUnlessForced
BY ContractStarts, ContractGoes, SupInvariance, PTL DEF Spec, ContractUnlessForced
-----------------------------------------------------------------------------
(***************************************************************************)
(* Where every stop is proven, no end of a run is forced.                   *)
(***************************************************************************)
StopsProven == "unproven" \notin Faults

\* No exit is unproven, no terminal run has a child, and the operator's command
\* commits with the child stopped.
Proven ==
  /\ \A r \in Runs : attempt[r] # "unproven"
  /\ \A r \in Runs : child[r] > 0 => Active(r)
  /\ op.pc = "commit" => child[op.run] = 0

\* A statement on one attempt at most, which leaves no unproven exit.
Attempts == attempt' = attempt \/ \E q \in Runs, c \in AttemptStatus \ {"unproven"} :
                                   attempt' = [attempt EXCEPT ![q] = c]

\* A dispatch finishes the attempts it has stopped.
LEMMA DispatchAttempts ==
  ASSUME SupInv, NEW w \in Workers, DispatchStep(w)
  PROVE  Attempts
<1>1. CASE FinishStopped(w) \/ FinishMissingSession(w)
  <2>1. RunOf(w) \in Runs
    BY <1>1, AtRun DEF FinishStopped, FinishMissingSession, At, Unplaced
  <2> QED
    BY <1>1, <2>1 DEF FinishStopped, FinishMissingSession, Attempts, AttemptStatus
<1>2. CASE \/ ScanPick(w) \/ ScanNone(w) \/ ScanBusy(w) \/ ScanConflict(w) \/ Claim(w)
           \/ Admit(w) \/ NoCandidate(w) \/ PrepareLight(w) \/ PrepareRecover(w)
           \/ PrepareWaits(w) \/ RecoverRefused(w) \/ StopAttempt(w) \/ Resume(w)
           \/ FailureElsewhere(w) \/ Collect(w)
  BY <1>2
  DEF ScanPick, ScanNone, ScanBusy, ScanConflict, Claim, Admit, NoCandidate, PrepareLight,
      PrepareRecover, PrepareWaits, RecoverRefused, StopAttempt, Resume, FailureElsewhere, Collect,
      ReconcileSchedulingAuthorities, ReserveRun, KeepStore, storeVars, Attempts
<1>3. CASE PrepareHeld(w) \/ Reacquire(w)
  BY <1>3 DEF PrepareHeld, Reacquire, AcquireHeld, AdoptPermit, GrantPermit, storeVars, Attempts
<1>4. CASE \/ RecoverLease(w) \/ StopNothing(w) \/ StopFails(w) \/ DeferRetryRun(w)
           \/ DeferExternalRun(w) \/ RunFailure(w)
  BY <1>4
  DEF RecoverLease, StopNothing, StopFails, DeferRetryRun, DeferExternalRun, RunFailure, Deferral,
      DeferSchedulingRun, AppendOperatorAttention, AcquireLease, ReleaseLease, KeepStore, storeVars,
      Attempts
<1>5. CASE \/ RetryAttention(w) \/ RetryNotEligible(w) \/ ReleaseReserved(w) \/ SettleRetry(w)
           \/ SettleWaiting(w) \/ SettleDriven(w)
  BY <1>5
  DEF RetryAttention, RetryNotEligible, ReleaseReserved, SettleRetry, SettleWaiting, SettleDriven,
      ReleaseHeavyPermit, ReleasePermit, KeepStore, storeVars, Attempts
<1> QED
  BY <1>1, <1>2, <1>3, <1>4, <1>5, SMTT(30) DEF DispatchStep

\* A drive touches no attempt.
LEMMA DriveAttempts ==
  ASSUME NEW w \in Workers, DriveStep(w)
  PROVE  Attempts
<1>1. CASE DriveAcquire(w)
  BY <1>1 DEF DriveAcquire, AcquireHeld, AdoptPermit, GrantPermit, storeVars, Attempts
<1>2. CASE DriveHeld(w) \/ ActFails(w) \/ ActStop(w) \/ ActExternal(w)
  BY <1>2
  DEF DriveHeld, ActFails, ActStop, ActExternal, Transition, AppendOperatorAttention, KeepStore,
      storeVars, Attempts
<1>3. CASE DriveRelease(w) \/ ActWait(w) \/ DriveExit(w)
  BY <1>3
  DEF DriveRelease, ActWait, DriveExit, ReleaseHeavyPermit, ReleasePermit, KeepStore, storeVars,
      Attempts
<1> QED
  BY <1>1, <1>2, <1>3 DEF DriveStep

\* The local controller prepares, starts and finishes attempts; only KillUnproven
\* leaves one of unproven exit.
LEMMA LocalAttempts ==
  ASSUME StopsProven, SupInv, NEW w \in Workers, LocalStep(w)
  PROVE  Attempts
<1>1. CASE EnterHeld(w)
  BY <1>1 DEF EnterHeld, AcquireHeld, AdoptPermit, GrantPermit, storeVars, Attempts
<1>2. CASE \/ EnterRefused(w) \/ StartFails(w) \/ LeasingRefused(w) \/ LocalReturn(w)
           \/ LocalFails(w) \/ Spawn(w) \/ Leasing(w) \/ Leave(w)
           \/ ApprovalInvalidated(w) \/ LocalTransition(w) \/ RepairDeadline(w)
  BY <1>2
  DEF EnterRefused, StartFails, LeasingRefused, LocalReturn, LocalFails, Spawn, Leasing, Leave,
      ApprovalInvalidated, LocalTransition, RepairDeadline, Transition, AcquireLease, ReleaseLease,
      KeepStore, storeVars, Attempts
<1>3. CASE LocalBegin(w) \/ Launch(w) \/ LaunchFails(w) \/ Reap(w) \/ Kill(w)
  <2>1. RunOf(w) \in Runs
    BY <1>3, AtRun DEF LocalBegin, Launch, LaunchFails, Reap, Kill, At, Unplaced
  <2> QED
    BY <1>3, <2>1
    DEF LocalBegin, Launch, LaunchFails, Reap, Kill, BeginAttempt, CommitAttemptProcessLaunch,
        FinishAttempt, SetAttempt, Attempts, AttemptStatus
<1>4. ~KillUnproven(w)
  BY DEF KillUnproven, StopsProven
<1> QED
  BY <1>1, <1>2, <1>3, <1>4 DEF LocalStep

\* Where stops are proven, no step leaves an attempt of unproven exit.
LEMMA EveryAttempt ==
  ASSUME StopsProven, SupInv, [Next]_vars
  PROVE  Attempts
<1>1. CASE Fill \/ Crash \/ UNCHANGED vars \/ TickRenewing \/ AbandonEnds \/ AbandonCommit
  BY <1>1
  DEF Fill, Crash, vars, TickRenewing, AbandonEnds, AbandonCommit, ReleaseLease, KeepStore,
      storeVars, Attempts
<1>2. ASSUME NEW w \in Workers, WorkerStep(w) PROVE Attempts
  BY <1>2, DispatchAttempts, DriveAttempts, LocalAttempts DEF WorkerStep
<1>3. ASSUME NEW c \in 1..MaxCapacity, Start(c) PROVE Attempts
  BY <1>3 DEF Start, Attempts
<1>4. ASSUME NEW r \in Runs, AbandonLease(r) \/ ChildExits(r) PROVE Attempts
  BY <1>4 DEF AbandonLease, AcquireLease, ChildExits, KeepStore, storeVars, Attempts
<1>5. CASE AbandonStop
  BY <1>5 DEF AbandonStop, SupInv, Shape, Command, Attempts, AttemptStatus
<1>6. ASSUME NEW r \in Runs, NEW p \in Phase, OperatorResumes(r, p) PROVE Attempts
  BY <1>6 DEF OperatorResumes, Transition, Attempts
<1>7. ~AbandonStopFails
  BY DEF AbandonStopFails, StopsProven
<1> QED
  BY <1>1, <1>2, <1>3, <1>4, <1>5, <1>6, <1>7 DEF Next, Abandon

\* Goroutines leave the operator's command alone.
LEMMA CommandKept ==
  ASSUME NEW w \in Workers, WorkerStep(w)
  PROVE  op' = op
<1>1. CASE DispatchStep(w)
  BY <1>1
  DEF DispatchStep, ScanPick, ScanNone, ScanBusy, ScanConflict, Claim, Admit, NoCandidate,
      PrepareLight, PrepareHeld, PrepareRecover, Reacquire, PrepareWaits, RecoverLease,
      RecoverRefused, StopNothing, StopAttempt, StopFails, FinishStopped, FinishMissingSession,
      RetryAttention, RetryNotEligible, DeferRetryRun, Resume, ReleaseReserved, FailureElsewhere,
      RunFailure, SettleRetry, SettleWaiting, SettleDriven, DeferExternalRun, Collect, KeepRest,
      KeepProcess
<1>2. CASE DriveStep(w)
  BY <1>2
  DEF DriveStep, DriveAcquire, DriveHeld, DriveRelease, ActStop, ActExternal, ActWait, ActFails,
      DriveExit, KeepRest, KeepProcess
<1>3. CASE LocalStep(w)
  BY <1>3
  DEF LocalStep, EnterHeld, EnterRefused, StartFails, ApprovalInvalidated, Leasing, LeasingRefused,
      LocalBegin, LocalTransition, LocalReturn, LocalFails, Launch, Spawn, LaunchFails, Reap, Kill,
      KillUnproven, RepairDeadline, Leave, KeepRest, KeepProcess
<1> QED
  BY <1>1, <1>2, <1>3 DEF WorkerStep

\* Only the operator's stop leads to its commit.
LEMMA OnlyStopCommits ==
  ASSUME StopsProven, [Next]_vars, op'.pc = "commit"
  PROVE  AbandonStop \/ op' = op
<1>1. ASSUME NEW w \in Workers, WorkerStep(w) PROVE op' = op
  BY <1>1, CommandKept
<1>2. CASE Fill \/ Crash \/ UNCHANGED vars \/ TickRenewing
  BY <1>2 DEF Fill, Crash, vars, supVars, TickRenewing, KeepRest, KeepProcess
<1>3. ASSUME NEW c \in 1..MaxCapacity, Start(c) PROVE op' = op
  BY <1>3 DEF Start
<1>4. ASSUME NEW r \in Runs, AbandonLease(r) PROVE FALSE
  BY <1>4 DEF AbandonLease
<1>5. ~AbandonCommit /\ ~AbandonEnds /\ ~AbandonStopFails
  BY DEF AbandonCommit, AbandonEnds, AbandonStopFails, IdleCommand, StopsProven
<1>6. ASSUME NEW r \in Runs, NEW p \in Phase, OperatorResumes(r, p) PROVE op' = op
  BY <1>6 DEF OperatorResumes
<1>7. ASSUME NEW r \in Runs, ChildExits(r) PROVE op' = op
  BY <1>7 DEF ChildExits
<1> QED
  BY <1>1, <1>2, <1>3, <1>4, <1>5, <1>6, <1>7 DEF Next, Abandon

\* Where stops are proven, no step ends a run with a child.
LEMMA ProvenGoes ==
  ASSUME StopsProven, SupInv, SupInv', Proven, [Next]_vars
  PROVE  Proven' /\ \A r \in Runs : ~ForcedEnd(r)
<1>1. \A r \in Runs : ~ForcedEnd(r)
  BY DEF ForcedEnd, Proven
<1>2. \A r \in Runs : attempt'[r] # "unproven"
  BY EveryAttempt DEF Attempts, Proven, SupInv, StoreInv, TypeOK
<1>3. child \in [Runs -> Nat] /\ child' \in [Runs -> Nat]
  BY DEF SupInv, Shape
<1>4. ASSUME NEW q \in Runs, Gains(q) \/ Stops(q)
      PROVE  Running' \subseteq Running /\ \A r \in Running : Active(r) => phase'[r] # "terminal"
  BY <1>4 DEF Gains, Stops, Running, GrantPermit, ReserveRun, Reservable, Active, SupInv, StoreInv,
              TypeOK
<1>5. CASE Running' \subseteq Running /\ \A r \in Running : Active(r) => phase'[r] # "terminal"
  <2>1. ASSUME NEW r \in Runs, child'[r] > 0 PROVE Active(r)'
    <3>1. r \in Running /\ Active(r)
      BY <1>3, <1>5, <2>1 DEF Running, Proven
    <3>2. phase'[r] # "terminal"
      BY <1>5, <3>1
    <3>3. phase'[r] # "absent"
      BY <2>1 DEF SupInv, RunsFit, RunFit
    <3> QED
      BY <3>2, <3>3 DEF Active
  <2>2. ASSUME op'.pc = "commit" PROVE child'[op'.run] = 0
    <3>1. CASE op' = op
      <4>1. op.run \in Runs /\ child[op.run] = 0
        BY <2>2, <3>1 DEF Proven, SupInv, Shape, Command
      <4> QED
        BY <1>3, <1>5, <3>1, <4>1 DEF Running
    <3>2. CASE AbandonStop
      <4>1. op.run \in Runs /\ op'.run = op.run
        BY <3>2 DEF AbandonStop, SupInv, Shape, Command
      <4>2. Started(op.run) \/ child[op.run] = 0
        BY <1>3, <4>1 DEF Proven, SupInv, RunsFit, RunFit
      <4> QED
        BY <1>3, <3>2, <4>1, <4>2 DEF AbandonStop
    <3> QED
      BY <2>2, <3>1, <3>2, OnlyStopCommits
  <2>3. Proven'
    BY <1>2, <2>1, <2>2 DEF Proven
  <2> QED
    BY <1>1, <2>3
<1>6. ASSUME NEW q \in Runs, Launches(q) PROVE Proven'
  <2>1. ASSUME NEW r \in Runs, child'[r] > 0 PROVE Active(r)'
    <3>1. r \in Running \/ r = q
      BY <1>3, <1>6, <2>1 DEF Launches, Running
    <3>2. Active(q)
      BY <1>6, BindingAssumption, RunsAssumption, NoRunAssumption
      DEF Launches, SupInv, StoreInv, PermitUnderSlot, SlotAuthority, OwnsSlot
    <3>3. Active(r) /\ phase' = phase
      BY <1>6, <3>1, <3>2 DEF Proven, Running, Launches
    <3> QED
      BY <3>3 DEF Active
  <2>2. ASSUME op'.pc = "commit" PROVE child'[op'.run] = 0
    <3>1. CASE op' = op
      <4>1. op.run \in Runs /\ child[op.run] = 0 /\ lease[op.run].by = Operator
        BY <2>2, <3>1 DEF Proven, SupInv, Shape, Command, Commanded
      <4>2. op.run # q
        BY <1>6, <4>1, OperatorApart DEF Launches, SupInv
      <4> QED
        BY <1>3, <1>6, <3>1, <4>1, <4>2 DEF Launches, Running
    <3>2. CASE AbandonStop
      <4>1. op.run \in Runs /\ op'.run = op.run
        BY <3>2 DEF AbandonStop, SupInv, Shape, Command
      <4>2. Started(op.run) \/ child[op.run] = 0
        BY <1>3, <4>1 DEF Proven, SupInv, RunsFit, RunFit
      <4> QED
        BY <1>3, <3>2, <4>1, <4>2 DEF AbandonStop
    <3> QED
      BY <2>2, <3>1, <3>2, OnlyStopCommits
  <2> QED
    BY <1>2, <2>1, <2>2 DEF Proven
<1>7. Wanes => Running' \subseteq Running
  BY DEF Wanes
<1>8. Wanes \/ \E q \in Runs : Gains(q) \/ Launches(q) \/ Stops(q)
  BY <1>1, EveryEffect DEF Effect, Forced
<1> QED
  BY <1>1, <1>4, <1>5, <1>6, <1>7, <1>8 DEF Wanes

\* Where no stop fails, the worker process, the store and the operator's commands
\* implement the whole contract of docs/architecture.md: no run gives its permit
\* up, by its end or otherwise, before its child has stopped.
THEOREM ContractWhereStopsProven == ASSUME StopsProven PROVE Spec => ImplementsContract
<1>1. Init => Proven
  BY DEF Init, StoreInit, Proven, IdleCommand
<1>2. SupInv /\ SupInv' /\ Proven /\ [Next]_vars => Proven' /\ HeavyWorkContract!ContractNext
  BY ProvenGoes, ContractGoes
<1> QED
  BY <1>1, <1>2, ContractStarts, SupInvariance, PTL
  DEF Spec, ImplementsContract, HeavyWorkContract!Contract
=============================================================================
