------------------------- MODULE RetryScheduleProofs -------------------------
(***************************************************************************)
(* What the retry schedules guarantee, for every state the run visits, any  *)
(* policy, any failures and crashes and any bounds.                         *)
(***************************************************************************)
EXTENDS RetrySchedule, FiniteSetTheorems, TLAPS

RowFields == {"status", "count", "class", "reason", "cs", "wait", "stamp"}
DispatchFields == {"pc", "st", "exp", "fst"}

\* The inductive invariant: an attention has no time left to wait for, the
\* absence of a schedule counts no attempt, and a worker that is not running
\* dispatches nothing.
Rows == /\ rows = [p \in Visited |-> rows[p]]
        /\ \A p \in Visited :
             /\ DOMAIN rows[p] = RowFields
             /\ rows[p].status \in {"none", "scheduled", "attention"}
             /\ rows[p].status = "attention" => rows[p].wait = 0
             /\ rows[p].status = "none" => rows[p].count = 0
Dispatching == /\ DispatchFields \subseteq DOMAIN d
               /\ d.st \in Visited /\ d.fst \in Visited
               /\ up # "up" => d.pc = "idle"
RetryInv == state \in Visited /\ Rows /\ Dispatching /\ DrivenUnderSchedule

-----------------------------------------------------------------------------
\* Where a dispatch ends it holds no run.
LEMMA Ended ==
  ASSUME d' = IdleDispatch
  PROVE  Dispatching' /\ d'.pc # "drive"
BY VisitedAssumption DEF Dispatching, DispatchFields, IdleDispatch

\* Initially nothing is scheduled and nothing is dispatched.
LEMMA InitInv == Init => RetryInv
BY VisitedAssumption
DEF Init, RetryInv, Rows, Dispatching, DrivenUnderSchedule, RowFields, DispatchFields,
    NoRow, IdleDispatch, At

\* Recording a failure writes one schedule, never one in attention.
LEMMA FailureWrites ==
  ASSUME RetryInv, NEW p \in Visited, NEW cs, NEW exp, NEW c,
         ApplyRetryFailure(p, cs, exp, c)
  PROVE  /\ Rows'
         /\ \A q \in Visited : rows[q].status = "attention" => rows'[q] = rows[q]
<1>1. CASE Stale(p, exp)
  BY <1>1 DEF ApplyRetryFailure, RetryInv, Rows
<1>2. CASE ~Stale(p, exp)
  <2>1. rows' = [rows EXCEPT ![p] = Written(cs, exp, c)]
    BY <1>2 DEF ApplyRetryFailure
  <2>2. /\ DOMAIN Written(cs, exp, c) = RowFields
        /\ Written(cs, exp, c).status \in {"scheduled", "attention"}
        /\ Written(cs, exp, c).status = "attention" => Written(cs, exp, c).wait = 0
    BY DEF Written, RowFields
  <2>3. rows[p].status # "attention"
    BY <1>2 DEF Stale
  <2> HIDE DEF Written
  <2> QED
    BY <2>1, <2>2, <2>3 DEF RetryInv, Rows
<1> QED
  BY <1>1, <1>2

\* After a step that leaves no drive in progress, the invariant is its first
\* three parts.
LEMMA IdleStep ==
  ASSUME RetryInv, state' \in Visited, Rows', Dispatching', d'.pc # "drive"
  PROVE  RetryInv'
BY DEF RetryInv, DrivenUnderSchedule, At

\* Every step of the worker, the operator and the clock keeps the invariant.
LEMMA StepInv ==
  ASSUME RetryInv, [Next]_vars
  PROVE  RetryInv'
<1> USE DEF KeepStore, KeepOthers, runVars, attnVars, At, Finish, Fatal
<1>1. CASE Selected
  <2>1. PICK path \in Paths :
          d' = [IdleDispatch EXCEPT !.pc = "gate", !.path = path, !.st = state]
    BY <1>1 DEF Selected
  <2>2. DispatchFields \subseteq DOMAIN d' /\ d'.pc = "gate" /\ d'.st = state /\ d'.fst = Start
    BY <2>1 DEF IdleDispatch, DispatchFields
  <2>3. Dispatching' /\ d'.pc # "drive"
    BY <1>1, <2>2, VisitedAssumption DEF Selected, Dispatching, RetryInv
  <2> QED
    BY <1>1, <2>3, IdleStep DEF Selected, RetryInv, Rows
<1>2. CASE GateUnreadable \/ GateAttention \/ GateNotEligible \/ GateCorrupt \/ GateHuman
  <2>1. state' = state /\ rows' = rows
    BY <1>2 DEF GateUnreadable, GateAttention, GateNotEligible, GateCorrupt, GateHuman
  <2>2. Dispatching' /\ d'.pc # "drive"
    <3>1. CASE GateAttention
      BY <3>1 DEF GateAttention, RetryInv, Dispatching, DispatchFields
    <3>2. CASE d' = IdleDispatch
      BY <3>2, Ended
    <3> QED
      BY <1>2, <3>1, <3>2 DEF GateUnreadable, GateNotEligible, GateCorrupt, GateHuman
  <2> QED
    BY <2>1, <2>2, IdleStep DEF RetryInv, Rows
<1>3. CASE GateDrive
  BY <1>3 DEF GateDrive, Eligible, RetryInv, Rows, Dispatching, DispatchFields,
              DrivenUnderSchedule
<1>4. CASE DriveStep
  BY <1>4 DEF DriveStep, Transition, Moves, TerminalRunState, RetryInv, Rows, Dispatching,
              DrivenUnderSchedule
<1>5. CASE DriveReturns \/ DriveFails \/ Reread
  <2>1. state' = state /\ rows' = rows
    BY <1>5 DEF DriveReturns, DriveFails, Reread
  <2>2. Dispatching' /\ d'.pc # "drive"
    <3>1. CASE d' = IdleDispatch
      BY <3>1, Ended
    <3>2. CASE d' = [d EXCEPT !.pc = "clear"] /\ UNCHANGED up
      BY <3>2, <1>5 DEF RetryInv, Dispatching, DispatchFields, DriveReturns, DriveFails, Reread
    <3>3. CASE DriveFails
      BY <3>3 DEF DriveFails, RetryInv, Dispatching, DispatchFields
    <3>4. CASE Reread
      BY <3>4 DEF Reread, RetryInv, Dispatching, DispatchFields
    <3> QED
      BY <1>5, <3>1, <3>2, <3>3, <3>4 DEF DriveReturns
  <2> QED
    BY <2>1, <2>2, IdleStep DEF RetryInv, Rows
<1>6. CASE Clear
  <2>1. Rows' /\ state' = state
    BY <1>6 DEF Clear, RetryInv, Rows, NoRow, RowFields
  <2>2. Dispatching' /\ d'.pc # "drive"
    <3>1. CASE d' = IdleDispatch
      BY <3>1, Ended
    <3>2. CASE d' # IdleDispatch
      BY <1>6, <3>2 DEF Clear, RetryInv, Dispatching, DispatchFields
    <3> QED
      BY <3>1, <3>2
  <2> QED
    BY <2>1, <2>2, IdleStep DEF RetryInv
<1>7. CASE MarkRetryAttention
  <2>1. Rows' /\ state' = state
    BY <1>7, FailureWrites DEF MarkRetryAttention, RetryInv, Dispatching
  <2>2. CASE d' = IdleDispatch
    BY <2>1, <2>2, Ended, IdleStep DEF RetryInv
  <2>3. CASE d' # IdleDispatch
    <3>1. Dispatching' /\ d'.pc # "drive"
      BY <1>7, <2>3 DEF MarkRetryAttention, Notify, RetryInv, Dispatching, DispatchFields
    <3> QED
      BY <2>1, <3>1, IdleStep DEF RetryInv
  <2> QED
    BY <2>2, <2>3
<1>8. CASE HandleRunFailure
  <2>1. Rows' /\ state' = state
    BY <1>8, FailureWrites DEF HandleRunFailure, RetryInv, Dispatching
  <2>2. CASE d' = IdleDispatch
    BY <2>1, <2>2, Ended, IdleStep DEF RetryInv
  <2>3. CASE d' # IdleDispatch
    <3>1. Dispatching' /\ d'.pc # "drive"
      BY <1>8, <2>3 DEF HandleRunFailure, Notify, RetryInv, Dispatching, DispatchFields
    <3> QED
      BY <2>1, <3>1, IdleStep DEF RetryInv
  <2> QED
    BY <2>2, <2>3
<1>9. CASE MarkRefused \/ HandleStopped \/ HandleRefused \/ RetryAttention
           \/ RetryAttentionRefused
  <2>1. state' = state /\ rows' = rows /\ d' = IdleDispatch
    BY <1>9 DEF MarkRefused, HandleStopped, HandleRefused, RetryAttention,
                RetryAttentionRefused
  <2> QED
    BY <2>1, Ended, IdleStep DEF RetryInv, Rows
<1>10. CASE Crash
  BY <1>10, Ended, IdleStep DEF Crash, RetryInv, Rows
<1>11. CASE Restart
  BY <1>11, IdleStep DEF Restart, RetryInv, Rows, Dispatching
<1>12. CASE Tick
  BY <1>12 DEF Tick, RetryInv, Rows, Dispatching, DrivenUnderSchedule, RowFields
<1>13. CASE PrepareRetry \/ DropRetry
  BY <1>13 DEF PrepareRetry, DropRetry, RetryInv, Rows, Dispatching, DrivenUnderSchedule
<1>14. CASE ApplyRetry
  <2>1. /\ rows[op.now.st].status = "attention"
        /\ op.now.st \in Visited
        /\ Grant(op.now.st)
        /\ UNCHANGED <<state, up, d>>
    BY <1>14, SMTT(30) DEF ApplyRetry, Granted, Parked, RetryInv
  <2>2. Rows'
    BY <2>1, ZenonT(60) DEF Grant, RetryInv, Rows, RowFields
  <2>3. \A p \in Visited : rows[p].status = "scheduled" => rows'[p] = rows[p]
    BY <2>1 DEF Grant, RetryInv, Rows
  <2> QED
    BY <2>1, <2>2, <2>3 DEF RetryInv, Dispatching, DrivenUnderSchedule
<1>15. CASE Answer
  BY <1>15 DEF Answer, Transition, Moves, HumanWaitState, RetryInv, Rows, Dispatching,
               DrivenUnderSchedule
<1>16. CASE Abandon
  <2>1. Rows'
    BY <1>16 DEF Abandon, RetryInv, Rows, RowFields
  <2>2. state' = "failed" /\ state' \in Visited /\ UNCHANGED <<up, d>>
    BY <1>16 DEF Abandon, Transition
  <2> QED
    BY <2>1, <2>2 DEF RetryInv, Dispatching, DrivenUnderSchedule
<1>17. CASE UNCHANGED vars
  BY <1>17 DEF vars, RetryInv, Rows, Dispatching, DrivenUnderSchedule
<1> QED
  BY <1>1, <1>2, <1>3, <1>4, <1>5, <1>6, <1>7, <1>8, <1>9, <1>10, <1>11, <1>12, <1>13, <1>14,
     <1>15, <1>16, <1>17
  DEF Next, Worker, Gate, Drive, Record, Operator

-----------------------------------------------------------------------------
\* The invariant holds throughout.
LEMMA Invariance == Spec => []RetryInv
BY InitInv, StepInv, PTL DEF Spec

\* A retry is driven under exactly the schedule that made it due, whatever the
\* worker, its crashes, the operator and the clock do (Dispatch reads the
\* schedule once and settles by its count).
THEOREM RetriesUnderSchedule == Spec => []DrivenUnderSchedule
BY Invariance, PTL DEF RetryInv

-----------------------------------------------------------------------------
AttentionStep ==
  \A p \in Visited :
    rows[p].status = "attention" /\ rows'[p] # rows[p] =>
      /\ op.now.pc = "apply" /\ state = p /\ state' = p
      /\ rows'[p].reason = OperatorRetry /\ rows'[p].count = rows[p].count

\* Only the operator's retry changes a schedule in attention.
LEMMA StepKeepsAttention ==
  ASSUME RetryInv, [Next]_vars
  PROVE  [AttentionStep]_vars
<1> USE DEF KeepStore, KeepOthers, runVars, attnVars, At, Finish, Fatal
<1>1. CASE UNCHANGED rows
  BY <1>1 DEF AttentionStep
<1>2. CASE Clear
  BY <1>2 DEF Clear, AttentionStep, RetryInv, Rows
<1>3. CASE MarkRetryAttention
  BY <1>3, FailureWrites DEF MarkRetryAttention, AttentionStep, RetryInv, Dispatching
<1>4. CASE HandleRunFailure
  BY <1>4, FailureWrites DEF HandleRunFailure, AttentionStep, RetryInv, Dispatching
<1>5. CASE Tick
  BY <1>5, SMTT(30) DEF Tick, AttentionStep, RetryInv, Rows
<1>6. CASE ApplyRetry
  BY <1>6 DEF ApplyRetry, Granted, Parked, Grant, AttentionStep, RetryInv, Rows, RowFields
<1>7. CASE Abandon
  BY <1>7 DEF Abandon, AttentionStep
<1> QED
  BY <1>1, <1>2, <1>3, <1>4, <1>5, <1>6, <1>7
  DEF Next, Worker, Gate, Drive, Record, Operator, vars,
      Selected, GateUnreadable, GateAttention, GateNotEligible, GateCorrupt, GateHuman, GateDrive,
      DriveStep, DriveReturns, DriveFails, Reread, MarkRefused, HandleStopped, HandleRefused,
      RetryAttention, RetryAttentionRefused, Crash, Restart, PrepareRetry, DropRetry, Answer

\* A schedule in attention is never cleared, rescheduled or counted again but by
\* an operator's retry in the state whose budget ran out (ApplyRetryFailure and
\* ClearRetrySchedule compare the status they replace).
THEOREM AttentionPermanent == Spec => AttentionKept
BY Invariance, StepKeepsAttention, PTL DEF Spec, AttentionKept, AttentionStep

-----------------------------------------------------------------------------
\* The retries an operator granted in state p.
Grants(p) == {a \in op.done : a[1] = p}

\* A grant adds one to the budget of its state: a schedule that is still driven is
\* within it, one that failed exceeds it by one.
Counted ==
  /\ op = [now |-> op.now, done |-> op.done]
  /\ IsFiniteSet(op.done)
  /\ op.now.pc = "apply" => ActionOf(op.now) \notin op.done
  /\ \A p \in Visited :
       /\ rows[p].count \in Nat
       /\ rows[p].count <= MaxAttempts + 1 + Cardinality(Grants(p))
       /\ rows[p].status = "scheduled" => rows[p].count <= MaxAttempts + Cardinality(Grants(p))

\* The exhausted budget of state p was announced the first time it ran out.
Told(p) == \E e \in outbox : /\ e.key[1] = "retry" /\ e.key[2] = p
                             /\ e.key[3] = MaxAttempts + 1 /\ e.key[5] = Exhausted

\* A schedule of state p that ran out did so in p, for the first time or after the
\* operator was told of the first.
RanOut(p, r) ==
  r.reason = Exhausted => /\ r.cs = p /\ r.count \in Nat /\ r.count > MaxAttempts
                          /\ r.count = MaxAttempts + 1 \/ Told(p)

Announced ==
  /\ \A p \in Visited :
       /\ rows[p].count \in Nat
       /\ RanOut(p, rows[p])
       /\ rows[p].reason = OperatorRetry => rows[p].count > MaxAttempts /\ Told(p)
       /\ rows[p].status = "scheduled" /\ rows[p].count > MaxAttempts => Told(p)
  /\ {"class", "at", "row"} \subseteq DOMAIN d /\ d.class \in FailureClass
  /\ op = [now |-> op.now, done |-> op.done]
  /\ d.pc = "notify" => RanOut(d.at, d.row)
  /\ \A e \in outbox : e.key[1] = "retry" /\ e.key[5] = Exhausted =>
                         e.key[2] = e.cs /\ Told(e.cs)
  /\ current \in outbox \/ current = NoEvent
  /\ op.now.pc = "apply" => Told(op.now.st)

-----------------------------------------------------------------------------
\* Nothing is counted before the first dispatch.
LEMMA InitCounted == Init => Counted
<1> SUFFICES ASSUME Init PROVE Counted
  OBVIOUS
<1>1. op = [now |-> IdleOperator, done |-> {}] /\ IdleOperator.pc = "idle"
  BY DEF Init, IdleOperator
<1>2. \A p \in Visited : Grants(p) = {} /\ rows[p].count = 0 /\ rows[p].status = "none"
  BY <1>1 DEF Init, NoRow, Grants
<1> QED
  BY <1>1, <1>2, FS_EmptySet, PolicyAssumption DEF Counted

\* A failure counts one more attempt than the schedule it was driven under, which it
\* replaces by a schedule within the budget or by an attention.
LEMMA FailureCounts ==
  ASSUME RetryInv, Counted, NEW p \in Visited, NEW cs, NEW exp, NEW c,
         ApplyRetryFailure(p, cs, exp, c), op' = op
  PROVE  Counted'
<1>0. Grants(p)' = Grants(p) /\ \A q \in Visited : Grants(q)' = Grants(q)
  BY DEF Grants
<1>1. CASE Stale(p, exp)
  BY <1>0, <1>1 DEF ApplyRetryFailure, Counted
<1>2. CASE ~Stale(p, exp)
  <2> DEFINE w == Written(cs, exp, c)
  <2>1. rows' = [rows EXCEPT ![p] = w]
    BY <1>2 DEF ApplyRetryFailure
  <2>2. /\ w.count = exp + 1
        /\ w.status = "scheduled" => exp + 1 <= MaxAttempts
    BY DEF Written
  <2>3. Cardinality(Grants(p)) \in Nat
    BY FS_Subset, FS_CardinalityType DEF Counted, Grants
  <2>4. exp \in Nat /\ exp <= MaxAttempts + Cardinality(Grants(p))
    BY <1>2, <2>3, PolicyAssumption
    DEF Stale, ApplyRetryFailure, ApplyError, Counted, RetryInv, Rows, Found
  <2> HIDE DEF w
  <2>5. \A q \in Visited : rows'[q] = IF q = p THEN w ELSE rows[q]
    BY <2>1 DEF RetryInv, Rows
  <2>6. /\ w.count \in Nat
        /\ w.count <= MaxAttempts + 1 + Cardinality(Grants(p))
        /\ w.status = "scheduled" => w.count <= MaxAttempts + Cardinality(Grants(p))
    BY <2>2, <2>3, <2>4, PolicyAssumption
  <2> QED
    BY <1>0, <2>5, <2>6 DEF Counted
<1> QED
  BY <1>1, <1>2

\* An operator's retry lifts an attention and adds one grant to its state.
LEMMA GrantCounts ==
  ASSUME RetryInv, Counted, ApplyRetry
  PROVE  Counted'
<1> DEFINE a == ActionOf(op.now)
           p == op.now.st
<1>1. /\ a \notin op.done /\ a[1] = p /\ p \in Visited /\ rows[p].status = "attention"
      /\ op' = [now |-> IdleOperator, done |-> op.done \cup {a}]
      /\ Grant(p)
  BY DEF ApplyRetry, Counted, ActionOf, Granted, Parked, RetryInv
<1> HIDE DEF a, p
<1>2. /\ op'.done = op.done \cup {a} /\ op'.now.pc = "idle"
      /\ op' = [now |-> op'.now, done |-> op'.done]
  BY <1>1 DEF IdleOperator
<1>3. IsFiniteSet(op'.done)
  BY <1>2, FS_AddElement DEF Counted
<1>4. \A q \in Visited : Grants(q) \subseteq Grants(q)' /\ IsFiniteSet(Grants(q)')
  BY <1>2, <1>3, FS_Subset DEF Grants
<1>5. \A q \in Visited : /\ Cardinality(Grants(q)) \in Nat /\ Cardinality(Grants(q)') \in Nat
                         /\ Cardinality(Grants(q)) <= Cardinality(Grants(q)')
  BY <1>4, FS_Subset, FS_CardinalityType
<1>6. ASSUME NEW q \in Visited, q = p
      PROVE  Cardinality(Grants(q)') = Cardinality(Grants(q)) + 1
  <2>1. Grants(q)' = Grants(q) \cup {a} /\ a \notin Grants(q)
    BY <1>1, <1>2, <1>6 DEF Grants
  <2>2. IsFiniteSet(Grants(q))
    BY <1>4, FS_Subset
  <2> QED
    BY <2>1, <2>2, FS_AddElement
<1>7. \A q \in Visited : /\ rows'[q].count = rows[q].count
                         /\ rows'[q].status = IF q = p THEN "scheduled" ELSE rows[q].status
  BY <1>1 DEF Grant, RetryInv, Rows, RowFields
<1>8. \A q \in Visited :
        /\ rows'[q].count \in Nat
        /\ rows'[q].count <= MaxAttempts + 1 + Cardinality(Grants(q)')
        /\ rows'[q].status = "scheduled" => rows'[q].count <= MaxAttempts + Cardinality(Grants(q)')
  BY <1>1, <1>5, <1>6, <1>7, PolicyAssumption DEF Counted
<1> QED
  BY <1>2, <1>3, <1>8 DEF Counted

\* Every other step leaves the grants alone and counts nothing.
LEMMA StepCounts ==
  ASSUME RetryInv, Counted, [Next]_vars
  PROVE  Counted'
<1> USE DEF KeepStore, KeepOthers, runVars, attnVars, At, Finish, Fatal
<1>1. CASE rows' = rows /\ op' = op
  BY <1>1 DEF Counted, Grants
<1>2. CASE Clear
  <2>1. op' = op /\ \A p \in Visited : rows'[p] = rows[p] \/ rows'[p] = NoRow
    BY <1>2 DEF Clear, RetryInv, Rows
  <2>2. \A p \in Visited : Grants(p)' = Grants(p) /\ Cardinality(Grants(p)) \in Nat
    BY <2>1, FS_Subset, FS_CardinalityType DEF Counted, Grants
  <2> QED
    BY <2>1, <2>2, PolicyAssumption DEF Counted, NoRow
<1>3. CASE MarkRetryAttention
  BY <1>3, FailureCounts DEF MarkRetryAttention, RetryInv, Dispatching
<1>4. CASE HandleRunFailure
  BY <1>4, FailureCounts DEF HandleRunFailure, RetryInv, Dispatching
<1>5. CASE Tick
  <2>1. /\ op' = op
        /\ \A p \in Visited : /\ rows'[p].count = rows[p].count
                              /\ rows'[p].status = rows[p].status
    BY <1>5 DEF Tick, RetryInv, Rows
  <2> QED
    BY <2>1 DEF Counted, Grants
<1>6. CASE PrepareRetry
  BY <1>6 DEF PrepareRetry, Counted, Grants
<1>7. CASE DropRetry
  BY <1>7 DEF DropRetry, Counted, Grants, IdleOperator
<1>8. CASE ApplyRetry
  BY <1>8, GrantCounts
<1>9. CASE Abandon
  <2>1. /\ op' = op
        /\ \A p \in Visited : /\ rows'[p].count = rows[p].count
                              /\ rows'[p].status \in {rows[p].status, "attention"}
    BY <1>9 DEF Abandon, RetryInv, Rows, RowFields
  <2> QED
    BY <2>1 DEF Counted, Grants
<1> QED
  BY <1>1, <1>2, <1>3, <1>4, <1>5, <1>6, <1>7, <1>8, <1>9
  DEF Next, Worker, Gate, Drive, Record, Operator, vars,
      Selected, GateUnreadable, GateAttention, GateNotEligible, GateCorrupt, GateHuman, GateDrive,
      DriveStep, DriveReturns, DriveFails, Reread, MarkRefused, HandleStopped, HandleRefused,
      RetryAttention, RetryAttentionRefused, Crash, Restart, Answer

\* The attempts recorded for a state exceed the policy's budget by the failure that
\* exhausted it and one for each retry an operator granted there, and by nothing else
\* (ApplyRetryFailure, ApplyOperatorRetry).
THEOREM AttemptsWithinBudget == Spec => []AttemptsBounded
<1>1. Counted => AttemptsBounded
  BY DEF Counted, AttemptsBounded, Grants
<1> QED
  BY <1>1, InitCounted, StepCounts, Invariance, PTL DEF Spec

-----------------------------------------------------------------------------
\* Nothing is announced before the first dispatch.
LEMMA InitAnnounced == Init => Announced
BY PolicyAssumption
DEF Init, Announced, RanOut, NoRow, NoEvent, IdleDispatch, IdleOperator, Exhausted, OperatorRetry,
    FailureClass

\* What was told stays told.
LEMMA ToldStays ==
  ASSUME outbox \subseteq outbox'
  PROVE  /\ \A p : Told(p) => Told(p)'
         /\ \A p, r : RanOut(p, r) => RanOut(p, r)'
BY DEF Told, RanOut

\* The outbox loses nothing, and the latest event is one of it.
LEMMA AppendKeeps ==
  ASSUME NEW e, Append(e)
  PROVE  outbox' = outbox \cup {e} /\ current' \in {current, e}
BY DEF Append

\* A failure that exhausts a budget is recorded in the state it was driven in: the budget
\* of that state ran out for the first time, or the retry that failed was granted.
LEMMA FailureRunsOut ==
  ASSUME RetryInv, Announced, NEW p \in Visited, NEW exp, NEW c \in FailureClass,
         ApplyRetryFailure(p, p, exp, c), UNCHANGED <<attnVars, op>>
  PROVE  \A q \in Visited :
           /\ rows'[q].count \in Nat
           /\ RanOut(q, rows'[q])
           /\ rows'[q].reason = OperatorRetry => rows'[q].count > MaxAttempts /\ Told(q)
           /\ rows'[q].status = "scheduled" /\ rows'[q].count > MaxAttempts => Told(q)
<1>1. CASE Stale(p, exp)
  BY <1>1 DEF ApplyRetryFailure, Announced
<1>2. CASE ~Stale(p, exp)
  <2> DEFINE w == Written(p, exp, c)
  <2>1. rows' = [rows EXCEPT ![p] = w]
    BY <1>2 DEF ApplyRetryFailure
  <2>2. /\ w.count = exp + 1
        /\ w.status = "scheduled" => exp + 1 <= MaxAttempts
        /\ w.reason = Exhausted => w.cs = p /\ ~(exp + 1 <= MaxAttempts)
        /\ w.reason # OperatorRetry
    BY DEF Written, Exhausted, OperatorRetry, FailureClass, Retryable
  <2>3. exp \in Nat /\ (exp > MaxAttempts => Told(p))
    BY <1>2, PolicyAssumption
    DEF Stale, ApplyRetryFailure, ApplyError, Announced, RetryInv, Rows, Found
  <2> HIDE DEF w
  <2>4. \A q \in Visited : rows'[q] = IF q = p THEN w ELSE rows[q]
    BY <2>1 DEF RetryInv, Rows
  <2>5. w.count \in Nat /\ RanOut(p, w) /\ (w.status = "scheduled" => ~(w.count > MaxAttempts))
    BY <2>2, <2>3, PolicyAssumption DEF RanOut
  <2> QED
    BY <2>2, <2>4, <2>5 DEF Announced
<1> QED
  BY <1>1, <1>2

\* A step that writes no schedule and appends at most one event keeps the invariant when
\* that event, and the row to be announced, tell of a budget that ran out.
LEMMA AnnouncingStep ==
  ASSUME Announced, rows' = rows, op' = op, NEW e,
         \/ outbox' = outbox /\ current' = current
         \/ outbox' = outbox \cup {e} /\ current' \in {current, e},
         e.key[1] = "retry" /\ e.key[5] = Exhausted => e.key[2] = e.cs /\ Told(e.cs)',
         {"class", "at", "row"} \subseteq DOMAIN d', d'.class \in FailureClass,
         d'.pc = "notify" => RanOut(d'.at, d'.row)
  PROVE  Announced'
<1>1. outbox \subseteq outbox'
  OBVIOUS
<1> QED
  BY <1>1, ToldStays DEF Announced

\* A step that writes schedules announces nothing; what it writes ran out as it should.
LEMMA WritingStep ==
  ASSUME Announced, UNCHANGED attnVars,
         op' = [now |-> op'.now, done |-> op'.done],
         op'.now.pc = "apply" => Told(op'.now.st),
         \A q \in Visited :
           /\ rows'[q].count \in Nat
           /\ RanOut(q, rows'[q])
           /\ rows'[q].reason = OperatorRetry => rows'[q].count > MaxAttempts /\ Told(q)
           /\ rows'[q].status = "scheduled" /\ rows'[q].count > MaxAttempts => Told(q),
         {"class", "at", "row"} \subseteq DOMAIN d', d'.class \in FailureClass,
         d'.pc = "notify" => RanOut(d'.at, d'.row)
  PROVE  Announced'
BY ToldStays DEF Announced, attnVars

\* What is recorded of a failed drive, and whether it is to be announced.
LEMMA RecordingStep ==
  ASSUME RetryInv, Announced, NEW p \in Visited, NEW exp, NEW c \in FailureClass,
         ApplyRetryFailure(p, p, exp, c), UNCHANGED <<attnVars, op>>,
         d' = IdleDispatch \/ d' = [d EXCEPT !.pc = "notify", !.at = p, !.row = rows'[p]]
  PROVE  Announced'
<1>1. \A q \in Visited :
        /\ rows'[q].count \in Nat
        /\ RanOut(q, rows'[q])
        /\ rows'[q].reason = OperatorRetry => rows'[q].count > MaxAttempts /\ Told(q)
        /\ rows'[q].status = "scheduled" /\ rows'[q].count > MaxAttempts => Told(q)
  BY FailureRunsOut
<1>2. /\ {"class", "at", "row"} \subseteq DOMAIN d' /\ d'.class \in FailureClass
      /\ d'.pc = "notify" => RanOut(d'.at, d'.row)
  <2>1. CASE d' = IdleDispatch
    BY <2>1 DEF IdleDispatch, FailureClass
  <2>2. CASE d' = [d EXCEPT !.pc = "notify", !.at = p, !.row = rows'[p]]
    <3>1. d'.at = p /\ d'.row = rows'[p] /\ d'.class = d.class /\ DOMAIN d' = DOMAIN d
      BY <2>2 DEF Announced
    <3> QED
      BY <1>1, <3>1 DEF Announced
  <2> QED
    BY <2>1, <2>2
<1> QED
  BY <1>1, <1>2, WritingStep DEF Announced, attnVars

\* Every step of the worker, the operator and the clock keeps it.
LEMMA StepAnnounces ==
  ASSUME RetryInv, Announced, [Next]_vars
  PROVE  Announced'
<1> USE DEF KeepStore, KeepOthers, runVars, attnVars, At, Finish, Fatal
<1>1. ASSUME UNCHANGED <<rows, op, outbox, current>>,
             {"class", "at", "row"} \subseteq DOMAIN d', d'.class \in FailureClass,
             d'.pc = "notify" => RanOut(d'.at, d'.row)
      PROVE  Announced'
  BY <1>1, WritingStep DEF Announced
<1>2. ASSUME d' = IdleDispatch
      PROVE  /\ {"class", "at", "row"} \subseteq DOMAIN d' /\ d'.class \in FailureClass
             /\ d'.pc # "notify"
  BY <1>2 DEF IdleDispatch, FailureClass
<1>3. ASSUME rows' = rows, op' = op, Append(StopEvent),
             {"class", "at", "row"} \subseteq DOMAIN d', d'.class \in FailureClass,
             d'.pc # "notify"
      PROVE  Announced'
  <2>1. StopEvent.key[1] # "retry"
    BY DEF StopEvent
  <2> QED
    BY <1>3, <2>1, AppendKeeps, AnnouncingStep
<1>4. CASE Selected
  <2>1. PICK path \in Paths :
          d' = [IdleDispatch EXCEPT !.pc = "gate", !.path = path, !.st = state]
    BY <1>4 DEF Selected
  <2>2. /\ {"class", "at", "row"} \subseteq DOMAIN d' /\ d'.class \in FailureClass
        /\ d'.pc # "notify"
    BY <2>1 DEF IdleDispatch, FailureClass
  <2> QED
    BY <1>1, <1>4, <2>2 DEF Selected
<1>5. CASE GateUnreadable \/ GateNotEligible \/ GateCorrupt \/ MarkRefused \/ HandleRefused
           \/ RetryAttentionRefused \/ Crash
  <2>1. d' = IdleDispatch /\ UNCHANGED <<rows, op, outbox, current>>
    BY <1>5 DEF GateUnreadable, GateNotEligible, GateCorrupt, MarkRefused, HandleRefused,
                RetryAttentionRefused, Crash
  <2> QED
    BY <1>1, <1>2, <2>1
<1>6. CASE GateAttention
  <2>1. /\ d'.at = d.st /\ d'.row = rows[d.st] /\ d'.class = d.class /\ DOMAIN d' = DOMAIN d
        /\ d.st \in Visited
    BY <1>6 DEF GateAttention, Announced, RetryInv, Dispatching
  <2> QED
    BY <1>1, <1>6, <2>1, ToldStays DEF GateAttention, Announced
<1>7. CASE GateDrive \/ DriveFails \/ Reread
  <2>1. /\ UNCHANGED <<rows, op, outbox, current>> /\ DOMAIN d' = DOMAIN d
        /\ d'.class \in FailureClass /\ d'.pc # "notify"
    BY <1>7, ClassesAssumption
    DEF GateDrive, DriveFails, Reread, Announced, RetryInv, Dispatching, DispatchFields
  <2> QED
    BY <1>1, <2>1 DEF Announced
<1>8. CASE DriveStep \/ Restart \/ Answer \/ UNCHANGED vars
  <2>1. UNCHANGED <<rows, op, outbox, current, d>>
    BY <1>8 DEF DriveStep, Restart, Answer, vars
  <2> QED
    BY <1>1, <2>1, ToldStays DEF Announced
<1>9. CASE GateHuman \/ HandleStopped
  <2>1. d' = IdleDispatch /\ UNCHANGED <<rows, op>>
        /\ (Append(StopEvent) \/ UNCHANGED <<outbox, current>>)
    BY <1>9 DEF GateHuman, HandleStopped, Announce
  <2> QED
    BY <1>1, <1>2, <1>3, <2>1
<1>10. CASE DriveReturns
  <2>1. UNCHANGED <<rows, op>> /\ (Append(StopEvent) \/ UNCHANGED <<outbox, current>>)
    BY <1>10 DEF DriveReturns, Announce
  <2>2. /\ {"class", "at", "row"} \subseteq DOMAIN d' /\ d'.class \in FailureClass
        /\ d'.pc # "notify"
    <3>1. CASE d' = IdleDispatch
      BY <1>2, <3>1
    <3>2. CASE d' # IdleDispatch
      BY <1>10, <3>2 DEF DriveReturns, Announced, RetryInv, Dispatching, DispatchFields
    <3> QED
      BY <3>1, <3>2
  <2> QED
    BY <1>1, <1>3, <2>1, <2>2
<1>11. CASE Clear
  <2>1. /\ {"class", "at", "row"} \subseteq DOMAIN d' /\ d'.class \in FailureClass
        /\ d'.pc # "notify"
    <3>1. CASE d' = IdleDispatch
      BY <1>2, <3>1
    <3>2. CASE d' # IdleDispatch
      BY <1>11, <3>2 DEF Clear, Announced, RetryInv, Dispatching, DispatchFields, FailureClass
    <3> QED
      BY <3>1, <3>2
  <2>2. UNCHANGED <<op, outbox, current>> /\ \A q \in Visited : rows'[q] \in {rows[q], NoRow}
    BY <1>11 DEF Clear, RetryInv, Rows
  <2>3. \A q \in Visited :
          /\ rows'[q].count \in Nat
          /\ RanOut(q, rows'[q])
          /\ rows'[q].reason = OperatorRetry => rows'[q].count > MaxAttempts /\ Told(q)
          /\ rows'[q].status = "scheduled" /\ rows'[q].count > MaxAttempts => Told(q)
    BY <2>2 DEF Announced, NoRow, RanOut, Exhausted, OperatorRetry
  <2> QED
    BY <2>1, <2>2, <2>3, WritingStep DEF Announced
<1>12. CASE MarkRetryAttention
  <2>1. d.st \in Visited
    BY DEF RetryInv, Dispatching
  <2>2. /\ ApplyRetryFailure(d.st, d.st, d.exp, "authority_conflict")
        /\ UNCHANGED <<attnVars, op>>
        /\ d' = IdleDispatch \/ d' = [d EXCEPT !.pc = "notify", !.at = d.st, !.row = rows'[d.st]]
    BY <1>12 DEF MarkRetryAttention, Notify
  <2> QED
    BY <2>1, <2>2, RecordingStep DEF FailureClass
<1>13. CASE HandleRunFailure
  <2>1. d.fst \in Visited /\ RecordedClass \in FailureClass
    BY DEF RetryInv, Dispatching, Announced, RecordedClass, FailureClass
  <2>2. /\ ApplyRetryFailure(d.fst, d.fst, d.exp, RecordedClass)
        /\ UNCHANGED <<attnVars, op>>
        /\ d' = IdleDispatch \/ d' = [d EXCEPT !.pc = "notify", !.at = d.fst, !.row = rows'[d.fst]]
    BY <1>13 DEF HandleRunFailure, Notify
  <2> QED
    BY <2>1, <2>2, RecordingStep
<1>14. CASE RetryAttention
  <2>0. PICK e : e = Event(d.at, d.row)
    OBVIOUS
  <2>1. /\ Append(e) /\ d' = IdleDispatch /\ UNCHANGED <<rows, op>>
        /\ d.pc = "notify"
    BY <1>14, <2>0 DEF RetryAttention
  <2>2. ASSUME e.key[1] = "retry", e.key[5] = Exhausted
        PROVE  e.key[2] = e.cs /\ Told(e.cs)'
    <3>1. /\ e.key[1] = "retry" /\ e.key[2] = d.at /\ e.key[3] = d.row.count
          /\ e.key[5] = d.row.reason /\ e.cs = d.row.cs
      BY <2>0 DEF Event, EventKey
    <3>2. d.row.cs = d.at /\ (d.row.count = MaxAttempts + 1 \/ Told(d.at))
      BY <2>1, <2>2, <3>1 DEF Announced, RanOut
    <3>3. e \in outbox' /\ outbox \subseteq outbox'
      BY <2>1, AppendKeeps
    <3> QED
      BY <2>2, <3>1, <3>2, <3>3 DEF Told
  <2>3. outbox' = outbox \cup {e} /\ current' \in {current, e}
    BY <2>1, AppendKeeps
  <2> QED
    BY <1>2, <2>1, <2>2, <2>3, AnnouncingStep
<1>15. CASE Tick
  <2>1. \A q \in Visited : /\ rows'[q].count = rows[q].count /\ rows'[q].status = rows[q].status
                           /\ rows'[q].reason = rows[q].reason /\ rows'[q].cs = rows[q].cs
    BY <1>15 DEF Tick, RetryInv, Rows
  <2>2. \A q \in Visited :
          /\ rows'[q].count \in Nat
          /\ RanOut(q, rows'[q])
          /\ rows'[q].reason = OperatorRetry => rows'[q].count > MaxAttempts /\ Told(q)
          /\ rows'[q].status = "scheduled" /\ rows'[q].count > MaxAttempts => Told(q)
    BY <2>1 DEF Announced, RanOut
  <2> QED
    BY <1>15, <2>2, WritingStep, ToldStays DEF Tick, Announced
<1>16. CASE PrepareRetry
  <2>1. /\ UNCHANGED <<rows, outbox, current, d>> /\ Offered
        /\ op' = [now |-> op'.now, done |-> op'.done] /\ op'.now.st = state
    BY <1>16 DEF PrepareRetry, Announced
  <2>2. Told(state)
    BY <2>1 DEF Offered, Announced, NoEvent
  <2> QED
    BY <2>1, <2>2, WritingStep DEF Announced
<1>17. CASE DropRetry
  <2>1. /\ UNCHANGED <<rows, outbox, current, d>>
        /\ op' = [now |-> op'.now, done |-> op'.done] /\ op'.now.pc = "idle"
    BY <1>17 DEF DropRetry, Announced, IdleOperator
  <2> QED
    BY <2>1, WritingStep DEF Announced
<1>18. CASE ApplyRetry
  <2>1. /\ op'.now.pc = "idle" /\ op' = [now |-> op'.now, done |-> op'.done]
        /\ Told(op.now.st) /\ op.now.st \in Visited /\ Grant(op.now.st)
        /\ rows[op.now.st].reason = Exhausted /\ UNCHANGED <<outbox, current, d>>
    BY <1>18, SMTT(30) DEF ApplyRetry, Granted, Parked, Announced, IdleOperator, RetryInv
  <2>2. \A q \in Visited :
          /\ rows'[q].count = rows[q].count
          /\ q # op.now.st => rows'[q] = rows[q]
          /\ q = op.now.st => rows'[q].reason = OperatorRetry
    BY <2>1 DEF Grant, RetryInv, Rows, RowFields
  <2>3. \A q \in Visited :
          /\ rows'[q].count \in Nat
          /\ RanOut(q, rows'[q])
          /\ rows'[q].reason = OperatorRetry => rows'[q].count > MaxAttempts /\ Told(q)
          /\ rows'[q].status = "scheduled" /\ rows'[q].count > MaxAttempts => Told(q)
    BY <2>1, <2>2 DEF Announced, RanOut, Exhausted, OperatorRetry
  <2> QED
    BY <2>1, <2>3, WritingStep DEF Announced
<1>19. CASE Abandon
  <2>1. /\ UNCHANGED <<outbox, current, d, op>>
        /\ \A q \in Visited :
             \/ rows'[q] = rows[q]
             \/ /\ rows'[q].status = "attention" /\ rows'[q].reason = "manual_state"
                /\ rows'[q].count = rows[q].count
    BY <1>19 DEF Abandon, RetryInv, Rows, RowFields
  <2>2. \A q \in Visited :
          /\ rows'[q].count \in Nat
          /\ RanOut(q, rows'[q])
          /\ rows'[q].reason = OperatorRetry => rows'[q].count > MaxAttempts /\ Told(q)
          /\ rows'[q].status = "scheduled" /\ rows'[q].count > MaxAttempts => Told(q)
    BY <2>1 DEF Announced, RanOut, Exhausted, OperatorRetry
  <2> QED
    BY <2>1, <2>2, WritingStep DEF Announced
<1> QED
  BY <1>4, <1>5, <1>6, <1>7, <1>8, <1>9, <1>10, <1>11, <1>12, <1>13, <1>14, <1>15, <1>16,
     <1>17, <1>18, <1>19
  DEF Next, Worker, Gate, Drive, Record, Operator

\* A retry is granted only after the operator was told that the budget of that state ran
\* out, however often the run left the state and came back (PrepareRetry compares the
\* current attention, ApplyOperatorRetry compares it again).
THEOREM GrantsAreAnnounced == Spec => []GrantAnnounced
<1>1. Announced => GrantAnnounced
  BY PolicyAssumption DEF Announced, GrantAnnounced, Told
<1> QED
  BY <1>1, InitAnnounced, StepAnnounces, Invariance, PTL DEF Spec
=============================================================================
