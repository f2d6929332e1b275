--------------------------- MODULE AdmissionProofs ---------------------------
(***************************************************************************)
(* Admission asks Linear at most what the side effect records, starts work  *)
(* only on a proven start, and leaves an abandoned run alone: for any       *)
(* issues, repositories, workers, process starts and faults.                *)
(***************************************************************************)
EXTENDS Admission, FiniteSetTheorems, TLAPS

\* The steps of a dispatch that has chosen no run yet.
FreeSteps == {"idle", "select", "scan_renew", "scan", "read_renew"}

\* The steps of the start service, under the journal's mutation intent.
StartSteps == {"mutation_renew", "read", "begin", "retry", "claim", "mutate", "reread",
               "observe", "failed_todo", "stop_effect", "stop_run", "fail", "after_renew",
               "mark"}

LocalSteps == {"local_renew", "release", "local"}

\* A run is claimed by one dispatch.
ClaimsApart ==
  \A v, w \in Workers : v # w /\ d[v].issue # NoIssue => d[v].issue # d[w].issue

\* Where a dispatch stands says what the store holds of its run.
Backed(w) ==
  /\ d[w].at \in FreeSteps <=> d[w].issue = NoIssue
  /\ d[w].at \in StartSteps => journal[d[w].issue] = "mutation_intent"
  /\ d[w].at = "mutate" => /\ side[d[w].issue].status = "in_flight"
                          /\ sent[d[w].issue] < side[d[w].issue].attempt
  /\ d[w].at \in {"after_renew", "mark"} => side[d[w].issue].status = "observed"
  /\ d[w].at \in LocalSteps /\ run[d[w].issue] = "received"
       => journal[d[w].issue] = "started"

\* A side effect still to be claimed has a request to spare.
Effect(i) ==
  /\ sent[i] <= side[i].attempt
  /\ side[i].status = "intent" => sent[i] < side[i].attempt
  /\ side[i].status = "none" => sent[i] = 0
  /\ sent[i] > 0 => journal[i] \notin {"none", "reserved"}

\* What the journal says of the run.
Tells(i) ==
  /\ run[i] = "executing" => journal[i] = "started"
  /\ journal[i] = "started" => side[i].status = "observed"
  /\ journal[i] = "none" => run[i] = "absent"
  /\ run[i] = "failed" => journal[i] = "manual_intervention"

DispatchBacked == \A w \in Workers : Backed(w)
IssueBacked    == \A i \in Issues : Effect(i) /\ Tells(i)

AdmissionInv == TypeOK /\ ClaimsApart /\ DispatchBacked /\ IssueBacked
-----------------------------------------------------------------------------
(***************************************************************************)
(* What a step does to the locals of the dispatches                         *)
(***************************************************************************)
\* Go changes where one dispatch stands, and nothing else of it.
LEMMA GoShape ==
  ASSUME TypeOK, NEW w \in Workers, NEW step \in Steps, Go(w, step)
  PROVE  /\ d' \in [Workers -> DispatchRecord]
         /\ d'[w].at = step /\ d'[w].issue = d[w].issue
         /\ \A v \in Workers \ {w} : d'[v] = d[v]
  <1>1. d \in [Workers -> DispatchRecord] BY DEF TypeOK
  <1>2. d' = [d EXCEPT ![w] = [d[w] EXCEPT !.at = step]] BY DEF Go
  <1>3. d[w] \in DispatchRecord BY <1>1
  <1>4. [d[w] EXCEPT !.at = step] \in DispatchRecord BY <1>3 DEF DispatchRecord
  <1>5. [d[w] EXCEPT !.at = step].at = step /\ [d[w] EXCEPT !.at = step].issue = d[w].issue
    BY <1>3 DEF DispatchRecord
  <1> QED BY <1>1, <1>2, <1>4, <1>5

\* A dispatch that ends forgets its run.
LEMMA ReturnShape ==
  ASSUME TypeOK, NEW w \in Workers, NEW events, NEW stops, ReturnWith(w, events, stops)
  PROVE  /\ d' \in [Workers -> DispatchRecord]
         /\ d'[w].at = "idle" /\ d'[w].issue = NoIssue
         /\ \A v \in Workers \ {w} : d'[v] = d[v]
         /\ lease' \in [owner : 0..MaxEpoch, version : Nat, live : BOOLEAN]
         /\ told' \in [Issues -> BOOLEAN] /\ parked' \in [Issues -> BOOLEAN]
  <1>1. Idle \in DispatchRecord /\ Idle.at = "idle" /\ Idle.issue = NoIssue
    BY DEF Idle, DispatchRecord, Steps
  <1>2. d \in [Workers -> DispatchRecord] BY DEF TypeOK
  <1>3. d' = [d EXCEPT ![w] = Idle] BY DEF ReturnWith
  <1>4. lease' \in [owner : 0..MaxEpoch, version : Nat, live : BOOLEAN]
    <2>1. NoLease \in [owner : 0..MaxEpoch, version : Nat, live : BOOLEAN]
      BY BoundsAssumption DEF NoLease
    <2> QED BY <2>1 DEF ReturnWith, TypeOK
  <1>5. told' \in [Issues -> BOOLEAN] /\ parked' \in [Issues -> BOOLEAN]
    BY Zenon DEF ReturnWith, TypeOK
  <1> QED BY <1>1, <1>2, <1>3, <1>4, <1>5

\* The invariant asks of a step only what it does to the run of its dispatch.
LEMMA StepBacked ==
  ASSUME AdmissionInv, NEW w \in Workers,
         \A v \in Workers \ {w} : d'[v] = d[v],
         d'[w].issue \in {d[w].issue, NoIssue},
         \A i \in Issues : i # d[w].issue =>
            /\ run'[i] = run[i] /\ journal'[i] = journal[i]
            /\ side'[i] = side[i] /\ sent'[i] = sent[i],
         Backed(w)',
         \A i \in Issues : i = d[w].issue => Effect(i)' /\ Tells(i)'
  PROVE  ClaimsApart' /\ DispatchBacked' /\ IssueBacked'
  <1>1. ClaimsApart' BY DEF AdmissionInv, ClaimsApart
  <1>2. ASSUME NEW v \in Workers, v # w PROVE Backed(v)'
    <2>1. d'[v] = d[v] /\ Backed(v) BY <1>2 DEF AdmissionInv, DispatchBacked
    <2>2. CASE d[v].issue = NoIssue
      BY <2>1, <2>2 DEF Backed, FreeSteps, StartSteps, LocalSteps
    <2>3. CASE d[v].issue # NoIssue
      <3>1. d[v].issue \in Issues BY <2>3 DEF AdmissionInv, TypeOK, DispatchRecord
      <3>2. d[v].issue # d[w].issue BY <1>2, <2>3 DEF AdmissionInv, ClaimsApart
      <3> QED BY <2>1, <3>1, <3>2 DEF Backed
    <2> QED BY <2>2, <2>3
  <1>3. DispatchBacked' BY <1>2 DEF DispatchBacked
  <1>4. IssueBacked'
    BY DEF AdmissionInv, IssueBacked, Effect, Tells
  <1> QED BY <1>1, <1>3, <1>4 DEF IssueBacked

\* Most steps leave the store's rows of the run as they are.
LEMMA QuietStep ==
  ASSUME AdmissionInv, NEW w \in Workers,
         \A v \in Workers \ {w} : d'[v] = d[v],
         d'[w].issue \in {d[w].issue, NoIssue},
         UNCHANGED <<run, journal, side, sent>>,
         Backed(w)'
  PROVE  ClaimsApart' /\ DispatchBacked' /\ IssueBacked'
  <1>1. \A i \in Issues : i = d[w].issue => Effect(i)' /\ Tells(i)'
    BY DEF AdmissionInv, IssueBacked, Effect, Tells
  <1> QED BY <1>1, StepBacked

\* A dispatch that has ended claims nothing of the store.
LEMMA ReturnBacked ==
  ASSUME NEW w \in Workers, d'[w].at = "idle", d'[w].issue = NoIssue
  PROVE  Backed(w)'
  BY DEF Backed, FreeSteps, StartSteps, LocalSteps
\* A fault is counted, or nothing is.
LEMMA TroubleType ==
  ASSUME TypeOK, NEW kind, Trouble(kind) \/ UNCHANGED troubles
  PROVE  troubles' \in 0..MaxTroubles
  BY BoundsAssumption DEF TypeOK, Trouble

\* An attention report is a return of its dispatch.
LEMMA AttentionShape ==
  ASSUME NEW w \in Workers, AttentionFor(w) \/ Return(w)
  PROVE  \E events, stops : ReturnWith(w, events, stops)
  BY DEF AttentionFor, Return
-----------------------------------------------------------------------------
(***************************************************************************)
(* The steps of a dispatch before the start service                         *)
(***************************************************************************)
\* A renewal ends the dispatch or moves it on, and changes no row of the run.
LEMMA RenewKeeps ==
  ASSUME AdmissionInv, NEW w \in Workers,
         NEW from \in Steps, NEW to \in Steps, Renew(w, from, to),
         from \in FreeSteps <=> to \in FreeSteps,
         to \in StartSteps => from \in StartSteps, to # "mutate",
         to \in {"after_renew", "mark"} => from \in {"after_renew", "mark"},
         to \in LocalSteps => from \in LocalSteps
  PROVE  AdmissionInv'
  <1> USE DEF OutsideUnchanged
  <1>1. TypeOK BY DEF AdmissionInv
  <1>2. CASE Holds(w)
    <2>1. d[w] \in DispatchRecord BY <1>1 DEF TypeOK
    <2> DEFINE next == [d[w] EXCEPT !.at = to, !.ver = d[w].ver + 1]
    <2>2. next \in DispatchRecord /\ next.at = to /\ next.issue = d[w].issue
      <3>1. d[w].ver + 1 \in Nat BY <2>1 DEF DispatchRecord
      <3> QED BY <2>1, <3>1 DEF DispatchRecord
    <2>3. d' = [d EXCEPT ![w] = next] /\ lease' = [lease EXCEPT !.version = lease.version + 1]
      BY <1>2 DEF Renew
    <2> HIDE DEF next
    <2>4. /\ d' \in [Workers -> DispatchRecord] /\ d'[w].at = to /\ d'[w].issue = d[w].issue
          /\ \A v \in Workers \ {w} : d'[v] = d[v]
      BY <1>1, <2>2, <2>3 DEF TypeOK
    <2>5. TypeOK' BY <1>1, <1>2, <2>3, <2>4, SMTT(30) DEF TypeOK, Renew
    <2>6. UNCHANGED <<run, journal, side, sent>> BY DEF Renew
    <2>7. Backed(w) /\ d[w].at = from BY DEF AdmissionInv, DispatchBacked, Renew, At
    <2>8. Backed(w)' BY <2>4, <2>6, <2>7 DEF Backed
    <2> QED BY <2>4, <2>5, <2>6, <2>8, QuietStep DEF AdmissionInv
  <1>3. CASE ~Holds(w)
    <2>1. ReturnWith(w, {}, {}) BY <1>3 DEF Renew, Return
    <2>2. TypeOK' BY <1>1, <2>1, ReturnShape DEF TypeOK, Renew
    <2>3. Backed(w)' BY <1>1, <2>1, ReturnShape, ReturnBacked
    <2>4. UNCHANGED <<run, journal, side, sent>> BY DEF Renew
    <2> QED BY <1>1, <2>1, <2>2, <2>3, <2>4, ReturnShape, QuietStep DEF AdmissionInv
  <1> QED BY <1>2, <1>3

\* A dispatch that ends with the store's rows of its run as they were.
LEMMA ReturnKeeps ==
  ASSUME AdmissionInv, NEW w \in Workers, NEW events, NEW stops,
         ReturnWith(w, events, stops), UNCHANGED <<run, journal, side, since>>,
         OutsideUnchanged, troubles' \in 0..MaxTroubles
  PROVE  AdmissionInv'
  <1>1. TypeOK BY DEF AdmissionInv
  <1>2. TypeOK' BY <1>1, ReturnShape DEF TypeOK, OutsideUnchanged
  <1>3. Backed(w)' BY <1>1, ReturnShape, ReturnBacked
  <1>4. UNCHANGED <<run, journal, side, sent>> BY DEF OutsideUnchanged
  <1> QED BY <1>1, <1>2, <1>3, <1>4, ReturnShape, QuietStep DEF AdmissionInv

\* A dispatch that goes on with the store's rows of its run as they were.
LEMMA GoKeeps ==
  ASSUME AdmissionInv, NEW w \in Workers, NEW to \in Steps, Go(w, to),
         UNCHANGED <<storeVars>>, OutsideUnchanged, troubles' \in 0..MaxTroubles,
         Backed(w)'
  PROVE  AdmissionInv'
  <1>1. TypeOK BY DEF AdmissionInv
  <1>2. TypeOK' BY <1>1, GoShape DEF TypeOK, OutsideUnchanged, storeVars
  <1>3. UNCHANGED <<run, journal, side, sent>> BY DEF OutsideUnchanged, storeVars
  <1> QED BY <1>1, <1>2, <1>3, GoShape, QuietStep DEF AdmissionInv

\* The lease is taken before any run is.
LEMMA AcquireKeeps ==
  ASSUME AdmissionInv, NEW w \in Workers, AcquireLease(w)
  PROVE  AdmissionInv'
  <1>1. TypeOK BY DEF AdmissionInv
  <1>2. d[w] \in DispatchRecord BY <1>1 DEF TypeOK
  <1>3. lease.version + 1 \in Nat BY <1>1 DEF TypeOK
  <1> DEFINE next == [d[w] EXCEPT !.at = "select", !.ver = lease.version + 1]
  <1>4. next \in DispatchRecord /\ next.at = "select" /\ next.issue = d[w].issue
    BY <1>2, <1>3 DEF DispatchRecord, Steps
  <1>5. d' = [d EXCEPT ![w] = next] BY DEF AcquireLease
  <1> HIDE DEF next
  <1>6. /\ d' \in [Workers -> DispatchRecord] /\ d'[w].at = "select"
        /\ d'[w].issue = d[w].issue /\ \A v \in Workers \ {w} : d'[v] = d[v]
    BY <1>1, <1>4, <1>5 DEF TypeOK
  <1>7. TypeOK'
    BY <1>1, <1>3, <1>6, BoundsAssumption DEF TypeOK, AcquireLease, OutsideUnchanged
  <1>8. Backed(w) /\ d[w].at = "idle" BY DEF AdmissionInv, DispatchBacked, AcquireLease, At
  <1>9. Backed(w)' BY <1>6, <1>8 DEF Backed, FreeSteps, StartSteps, LocalSteps
  <1>10. UNCHANGED <<run, journal, side, sent>> BY DEF AcquireLease, OutsideUnchanged
  <1> QED BY <1>6, <1>7, <1>9, <1>10, QuietStep DEF AdmissionInv

\* The run selected is one that no dispatch claims.
LEMMA ClaimKeeps ==
  ASSUME AdmissionInv, NEW w \in Workers, NEW i \in Issues, ~Claimed(i),
         d[w].at \in FreeSteps, d' \in [Workers -> DispatchRecord],
         d'[w].issue = i, d'[w].at \in {"resume", "reserve_renew"},
         \A v \in Workers \ {w} : d'[v] = d[v], UNCHANGED <<run, journal, side, sent>>
  PROVE  ClaimsApart' /\ DispatchBacked' /\ IssueBacked'
  <1>1. ClaimsApart' BY DEF AdmissionInv, ClaimsApart, Claimed
  <1>2. Backed(w)'
    BY NoIssueAssumption DEF Backed, FreeSteps, StartSteps, LocalSteps
  <1>3. ASSUME NEW v \in Workers, v # w PROVE Backed(v)'
    BY <1>3 DEF AdmissionInv, DispatchBacked, Backed
  <1>4. DispatchBacked' BY <1>2, <1>3 DEF DispatchBacked
  <1>5. IssueBacked' BY DEF AdmissionInv, IssueBacked, Effect, Tells
  <1> QED BY <1>1, <1>4, <1>5

\* nextScheduledRun chooses, or lets the dispatch look for a new issue.
LEMMA SelectRunKeeps ==
  ASSUME AdmissionInv, NEW w \in Workers, SelectRun(w)
  PROVE  AdmissionInv'
  <1>1. TypeOK BY DEF AdmissionInv
  <1>2. d[w].at = "select" /\ Backed(w)
    BY DEF AdmissionInv, DispatchBacked, SelectRun, At
  <1>3. troubles' \in 0..MaxTroubles BY <1>1 DEF SelectRun, TypeOK
  <1>4. CASE \E i \in Issues : Runnable(i)
    <2>1. PICK i \in Issues : NextRun(i) /\ d' = [d EXCEPT ![w].at = "resume", ![w].issue = i]
      BY <1>4 DEF SelectRun
    <2>2. d[w] \in DispatchRecord BY <1>1 DEF TypeOK
    <2> DEFINE next == [d[w] EXCEPT !.at = "resume", !.issue = i]
    <2>3. next \in DispatchRecord /\ next.at = "resume" /\ next.issue = i
      BY <2>2 DEF DispatchRecord, Steps
    <2>4. d' = [d EXCEPT ![w] = next] BY <2>1
    <2> HIDE DEF next
    <2>5. /\ d' \in [Workers -> DispatchRecord] /\ d'[w].at = "resume"
          /\ d'[w].issue = i /\ \A v \in Workers \ {w} : d'[v] = d[v]
      BY <1>1, <2>3, <2>4 DEF TypeOK
    <2>6. TypeOK' BY <1>1, <2>5 DEF TypeOK, SelectRun, storeVars, OutsideUnchanged
    <2>7. ~Claimed(i) BY <2>1 DEF NextRun, Runnable
    <2>8. UNCHANGED <<run, journal, side, sent>> BY DEF SelectRun, storeVars, OutsideUnchanged
    <2>9. d[w].at \in FreeSteps BY <1>2 DEF FreeSteps
    <2> QED BY <2>5, <2>6, <2>7, <2>8, <2>9, ClaimKeeps DEF AdmissionInv
  <1>5. CASE ~\E i \in Issues : Runnable(i)
    <2>1. Go(w, "scan_renew") BY <1>5 DEF SelectRun
    <2>2. "scan_renew" \in Steps BY DEF Steps
    <2>3. Backed(w)'
      BY <1>1, <1>2, <2>1, <2>2, GoShape
      DEF Backed, FreeSteps, StartSteps, LocalSteps, SelectRun, storeVars
    <2> QED BY <1>3, <2>1, <2>2, <2>3, GoKeeps DEF SelectRun
  <1> QED BY <1>4, <1>5
\* resume stops a run that cannot go on.
LEMMA ResumeKeeps ==
  ASSUME AdmissionInv, NEW w \in Workers, ResumeRun(w)
  PROVE  AdmissionInv'
  <1>1. TypeOK BY DEF AdmissionInv
  <1>2. d[w].at = "resume" /\ Backed(w)
    BY DEF AdmissionInv, DispatchBacked, ResumeRun, At
  <1>3. troubles' \in 0..MaxTroubles BY <1>1 DEF ResumeRun, TypeOK
  <1>4. CASE \E events, stops : ReturnWith(w, events, stops)
    BY <1>3, <1>4, ReturnKeeps DEF ResumeRun
  <1>5. CASE Go(w, "adopt_renew") /\ UNCHANGED <<lease, told, parked>>
    <2>1. "adopt_renew" \in Steps BY DEF Steps
    <2>2. UNCHANGED <<storeVars>> /\ OutsideUnchanged BY <1>5 DEF ResumeRun, storeVars
    <2>3. Backed(w)'
      BY <1>1, <1>2, <1>5, <2>1, GoShape DEF Backed, FreeSteps, StartSteps, LocalSteps
    <2> QED BY <1>3, <1>5, <2>1, <2>2, <2>3, GoKeeps
  <1> QED BY <1>4, <1>5 DEF ResumeRun

\* Adoption reads what it compares and writes nothing.
LEMMA AdoptKeeps ==
  ASSUME AdmissionInv, NEW w \in Workers, AdoptReservation(w)
  PROVE  AdmissionInv'
  <1>1. TypeOK BY DEF AdmissionInv
  <1>2. d[w].at = "adopt" /\ Backed(w)
    BY DEF AdmissionInv, DispatchBacked, AdoptReservation, At
  <1>3. troubles' \in 0..MaxTroubles BY <1>1 DEF AdoptReservation, TypeOK
  <1>4. CASE AttentionFor(w)
    <2>1. PICK events, stops : ReturnWith(w, events, stops) BY <1>4, AttentionShape
    <2> QED BY <1>3, <2>1, ReturnKeeps DEF AdoptReservation
  <1>5. CASE Go(w, "start_renew") /\ UNCHANGED <<lease, told, parked>>
    <2>1. "start_renew" \in Steps BY DEF Steps
    <2>2. UNCHANGED <<storeVars>> /\ OutsideUnchanged BY <1>5 DEF AdoptReservation, storeVars
    <2>3. Backed(w)'
      BY <1>1, <1>2, <1>5, <2>1, GoShape DEF Backed, FreeSteps, StartSteps, LocalSteps
    <2> QED BY <1>3, <1>5, <2>1, <2>2, <2>3, GoKeeps
  <1> QED BY <1>4, <1>5 DEF AdoptReservation

\* The scan reads Linear only.
LEMMA ScanKeeps ==
  ASSUME AdmissionInv, NEW w \in Workers, ScanCandidates(w)
  PROVE  AdmissionInv'
  <1>1. TypeOK BY DEF AdmissionInv
  <1>2. d[w].at = "scan" /\ Backed(w)
    BY DEF AdmissionInv, DispatchBacked, ScanCandidates, At
  <1>3. troubles' \in 0..MaxTroubles BY <1>1 DEF ScanCandidates, TypeOK
  <1>4. CASE Return(w)
    <2>1. PICK events, stops : ReturnWith(w, events, stops) BY <1>4, AttentionShape
    <2> QED BY <1>3, <2>1, ReturnKeeps DEF ScanCandidates
  <1>5. CASE Go(w, "read_renew") /\ UNCHANGED <<lease, told, parked>>
    <2>1. "read_renew" \in Steps BY DEF Steps
    <2>2. UNCHANGED <<storeVars>> /\ OutsideUnchanged BY <1>5 DEF ScanCandidates, storeVars
    <2>3. Backed(w)'
      BY <1>1, <1>2, <1>5, <2>1, GoShape DEF Backed, FreeSteps, StartSteps, LocalSteps
    <2> QED BY <1>3, <1>5, <2>1, <2>2, <2>3, GoKeeps
  <1> QED BY <1>4, <1>5 DEF ScanCandidates

\* A new issue is claimed with the renewed lease.
LEMMA SelectCandidateKeeps ==
  ASSUME AdmissionInv, NEW w \in Workers, SelectCandidate(w)
  PROVE  AdmissionInv'
  <1>1. TypeOK BY DEF AdmissionInv
  <1>2. d[w].at = "read_renew" BY DEF SelectCandidate, At
  <1>3. troubles' \in 0..MaxTroubles BY <1>1 DEF SelectCandidate, TypeOK
  <1>4. CASE Return(w)
    <2>1. PICK events, stops : ReturnWith(w, events, stops) BY <1>4, AttentionShape
    <2> QED BY <1>3, <2>1, ReturnKeeps DEF SelectCandidate
  <1>5. CASE ~Return(w)
    <2>1. PICK i \in Issues :
            /\ issue[i] = "todo" /\ ~ActiveRepository(i) /\ ~Claimed(i)
            /\ lease' = [lease EXCEPT !.version = lease.version + 1]
            /\ d' = [d EXCEPT ![w].at = "reserve_renew", ![w].issue = i,
                              ![w].ver = d[w].ver + 1]
            /\ UNCHANGED <<told, parked>>
      BY <1>5 DEF SelectCandidate
    <2>2. d[w] \in DispatchRecord BY <1>1 DEF TypeOK
    <2>3. d[w].ver + 1 \in Nat BY <2>2 DEF DispatchRecord
    <2> DEFINE next == [d[w] EXCEPT !.at = "reserve_renew", !.issue = i, !.ver = d[w].ver + 1]
    <2>4. next \in DispatchRecord /\ next.at = "reserve_renew" /\ next.issue = i
      BY <2>2, <2>3 DEF DispatchRecord, Steps
    <2>5. d' = [d EXCEPT ![w] = next] BY <2>1
    <2> HIDE DEF next
    <2>6. /\ d' \in [Workers -> DispatchRecord] /\ d'[w].at = "reserve_renew"
          /\ d'[w].issue = i /\ \A v \in Workers \ {w} : d'[v] = d[v]
      BY <1>1, <2>4, <2>5 DEF TypeOK
    <2>7. TypeOK'
      <3>1. lease' \in [owner : 0..MaxEpoch, version : Nat, live : BOOLEAN]
        BY <1>1, <2>1, SMTT(30) DEF TypeOK
      <3>2. UNCHANGED <<told, parked, run, journal, side, since, troubles>> /\ OutsideUnchanged
        BY <2>1 DEF SelectCandidate
      <3> QED BY <1>1, <2>6, <3>1, <3>2 DEF TypeOK, OutsideUnchanged
    <2>8. UNCHANGED <<run, journal, side, sent>> BY DEF SelectCandidate, OutsideUnchanged
    <2>9. d[w].at \in FreeSteps BY <1>2 DEF FreeSteps
    <2> QED BY <2>1, <2>6, <2>7, <2>8, <2>9, ClaimKeeps DEF AdmissionInv
  <1> QED BY <1>4, <1>5

\* The permit's conflict is reported for the run.
LEMMA PermitKeeps ==
  ASSUME AdmissionInv, NEW w \in Workers, InitialPermit(w)
  PROVE  AdmissionInv'
  <1>1. TypeOK BY DEF AdmissionInv
  <1>2. d[w].at = "permit" /\ Backed(w)
    BY DEF AdmissionInv, DispatchBacked, InitialPermit, At
  <1>3. troubles' \in 0..MaxTroubles BY <1>1, TroubleType DEF InitialPermit
  <1>4. CASE ReturnWith(w, {d[w].issue}, {})
    BY <1>3, <1>4, ReturnKeeps DEF InitialPermit
  <1>5. CASE Go(w, "start_renew") /\ UNCHANGED <<lease, told, parked>>
    <2>1. "start_renew" \in Steps BY DEF Steps
    <2>2. UNCHANGED <<storeVars>> /\ OutsideUnchanged BY <1>5 DEF InitialPermit, storeVars
    <2>3. Backed(w)'
      BY <1>1, <1>2, <1>5, <2>1, GoShape DEF Backed, FreeSteps, StartSteps, LocalSteps
    <2> QED BY <1>3, <1>5, <2>1, <2>2, <2>3, GoKeeps
  <1> QED BY <1>4, <1>5 DEF InitialPermit
\* The reservation makes the run and its journal row together.
LEMMA ReserveKeeps ==
  ASSUME AdmissionInv, NEW w \in Workers, ReserveAdmission(w)
  PROVE  AdmissionInv'
  <1>1. TypeOK BY DEF AdmissionInv
  <1>2. d[w].at = "reserve" /\ Backed(w)
    BY DEF AdmissionInv, DispatchBacked, ReserveAdmission, At
  <1>3. troubles' \in 0..MaxTroubles BY <1>1 DEF ReserveAdmission, TypeOK
  <1>4. CASE Return(w) /\ UNCHANGED <<run, journal, since>>
    <2>1. PICK events, stops : ReturnWith(w, events, stops) BY <1>4, AttentionShape
    <2> QED BY <1>3, <1>4, <2>1, ReturnKeeps DEF ReserveAdmission
  <1>5. CASE ~(Return(w) /\ UNCHANGED <<run, journal, since>>)
    <2>1. d[w].issue # NoIssue BY <1>2 DEF Backed, FreeSteps
    <2>2. PICK i \in Issues : i = d[w].issue BY <1>1, <2>1 DEF TypeOK, DispatchRecord
    <2>3. /\ journal[i] = "none"
          /\ run' = [run EXCEPT ![i] = "received"]
          /\ journal' = [journal EXCEPT ![i] = "reserved"]
          /\ since' = [since EXCEPT ![i] = Cardinality({j \in Issues : run[j] # "absent"})]
          /\ Go(w, "permit") /\ UNCHANGED <<lease, told, parked>>
      BY <1>5, <2>2 DEF ReserveAdmission
    <2>4. "permit" \in Steps BY DEF Steps
    <2>5. Cardinality({j \in Issues : run[j] # "absent"}) \in Nat
      BY IssuesAssumption, FS_Subset, FS_CardinalityType
    <2>6. TypeOK'
      <3>1. run' \in [Issues -> {"absent", "received", "executing", "manual_intervention",
                                 "failed"}]
        BY <1>1, <2>3 DEF TypeOK
      <3>2. journal' \in [Issues -> {"none", "reserved", "mutation_intent", "started",
                                     "manual_intervention"}]
        BY <1>1, <2>3 DEF TypeOK
      <3>3. since' \in [Issues -> Nat] BY <1>1, <2>3, <2>5 DEF TypeOK
      <3>4. d' \in [Workers -> DispatchRecord] BY <1>1, <2>3, <2>4, GoShape
      <3>5. UNCHANGED <<lease, told, parked, side, troubles>> /\ OutsideUnchanged
        BY <2>3 DEF ReserveAdmission
      <3> QED BY <1>1, <3>1, <3>2, <3>3, <3>4, <3>5 DEF TypeOK, OutsideUnchanged
    <2>7. run'[i] = "received" /\ journal'[i] = "reserved" /\ side'[i] = side[i]
          /\ sent'[i] = sent[i]
      BY <1>1, <2>3 DEF TypeOK, ReserveAdmission, OutsideUnchanged
    <2>8. Effect(i)' /\ Tells(i)'
      <3>1. Effect(i) /\ Tells(i) /\ sent[i] \in Nat
        BY <1>1 DEF AdmissionInv, IssueBacked, TypeOK
      <3> QED BY <2>3, <2>7, <3>1 DEF Effect, Tells
    <2>9. Backed(w)'
      BY <1>1, <2>1, <2>3, <2>4, GoShape DEF Backed, FreeSteps, StartSteps, LocalSteps
    <2>10. \A j \in Issues : j # d[w].issue =>
             /\ run'[j] = run[j] /\ journal'[j] = journal[j]
             /\ side'[j] = side[j] /\ sent'[j] = sent[j]
      BY <1>1, <2>2, <2>3 DEF TypeOK, ReserveAdmission, OutsideUnchanged
    <2>11. ClaimsApart' /\ DispatchBacked' /\ IssueBacked'
      BY <1>1, <2>2, <2>3, <2>4, <2>8, <2>9, <2>10, GoShape, StepBacked
    <2> QED BY <2>6, <2>11 DEF AdmissionInv
  <1> QED BY <1>4, <1>5

\* The intent is written over the reservation.
LEMMA IntentKeeps ==
  ASSUME AdmissionInv, NEW w \in Workers, RecordMutationIntent(w)
  PROVE  AdmissionInv'
  <1>1. TypeOK BY DEF AdmissionInv
  <1>2. d[w].at = "intent" /\ Backed(w)
    BY DEF AdmissionInv, DispatchBacked, RecordMutationIntent, At
  <1>3. troubles' \in 0..MaxTroubles BY <1>1 DEF RecordMutationIntent, TypeOK
  <1>4. CASE AttentionFor(w) /\ UNCHANGED journal
    <2>1. PICK events, stops : ReturnWith(w, events, stops) BY <1>4, AttentionShape
    <2> QED BY <1>3, <1>4, <2>1, ReturnKeeps DEF RecordMutationIntent
  <1>5. CASE ~(AttentionFor(w) /\ UNCHANGED journal)
    <2>1. d[w].issue # NoIssue BY <1>2 DEF Backed, FreeSteps
    <2>2. PICK i \in Issues : i = d[w].issue BY <1>1, <2>1 DEF TypeOK, DispatchRecord
    <2>3. /\ journal[i] = "reserved" /\ journal' = [journal EXCEPT ![i] = "mutation_intent"]
          /\ Go(w, "mutation_renew") /\ UNCHANGED <<lease, told, parked>>
      BY <1>5, <2>2 DEF RecordMutationIntent, CanAdvance
    <2>4. "mutation_renew" \in Steps BY DEF Steps
    <2>5. UNCHANGED <<run, side, since, troubles>> /\ OutsideUnchanged
      BY DEF RecordMutationIntent
    <2>6. journal' \in [Issues -> {"none", "reserved", "mutation_intent", "started",
                                   "manual_intervention"}]
      BY <1>1, <2>3 DEF TypeOK
    <2>7. TypeOK' BY <1>1, <2>3, <2>4, <2>5, <2>6, GoShape DEF TypeOK, OutsideUnchanged
    <2>8. journal'[i] = "mutation_intent" BY <1>1, <2>3 DEF TypeOK
    <2>9. Effect(i)' /\ Tells(i)'
      <3>1. Effect(i) /\ Tells(i) BY DEF AdmissionInv, IssueBacked
      <3> QED BY <2>3, <2>5, <2>8, <3>1 DEF Effect, Tells, OutsideUnchanged
    <2>10. Backed(w)'
      BY <1>1, <2>1, <2>2, <2>3, <2>4, <2>8, GoShape
      DEF Backed, FreeSteps, StartSteps, LocalSteps
    <2>11. \A j \in Issues : j # d[w].issue =>
             /\ run'[j] = run[j] /\ journal'[j] = journal[j]
             /\ side'[j] = side[j] /\ sent'[j] = sent[j]
      BY <1>1, <2>2, <2>3, <2>5 DEF TypeOK, OutsideUnchanged
    <2>12. ClaimsApart' /\ DispatchBacked' /\ IssueBacked'
      BY <1>1, <2>2, <2>3, <2>4, <2>9, <2>10, <2>11, GoShape, StepBacked
    <2> QED BY <2>7, <2>12 DEF AdmissionInv
  <1> QED BY <1>4, <1>5
-----------------------------------------------------------------------------
(***************************************************************************)
(* The start service                                                        *)
(***************************************************************************)
EffectRecord == [status : {"none", "intent", "in_flight", "failed_todo", "failed",
                           "observed"}, attempt : 0..2]

\* A dispatch in the start service works on a run of its own, under its intent.
LEMMA ServiceClaim ==
  ASSUME AdmissionInv, NEW w \in Workers, d[w].at \in StartSteps
  PROVE  /\ d[w].issue \in Issues /\ journal[d[w].issue] = "mutation_intent"
         /\ side[d[w].issue] \in EffectRecord /\ sent[d[w].issue] \in Nat
         /\ Effect(d[w].issue) /\ Tells(d[w].issue) /\ Backed(w)
  <1>1. TypeOK /\ Backed(w) BY DEF AdmissionInv, DispatchBacked
  <1>2. d[w] \in DispatchRecord BY <1>1 DEF TypeOK
  <1>3. d[w].issue # NoIssue BY <1>1 DEF Backed, FreeSteps, StartSteps
  <1>4. d[w].issue \in Issues BY <1>2, <1>3 DEF DispatchRecord
  <1>5. journal[d[w].issue] = "mutation_intent" BY <1>1 DEF Backed
  <1>6. side[d[w].issue] \in EffectRecord /\ sent[d[w].issue] \in Nat
    BY <1>1, <1>4 DEF TypeOK, EffectRecord
  <1>7. Effect(d[w].issue) /\ Tells(d[w].issue) BY <1>4 DEF AdmissionInv, IssueBacked
  <1> QED BY <1>1, <1>4, <1>5, <1>6, <1>7

\* A step of the service that rewrites the effect as its requests allow.
LEMMA EffectKeeps ==
  ASSUME AdmissionInv, NEW w \in Workers, d[w].at \in StartSteps,
         NEW i \in Issues, i = d[w].issue, NEW x \in EffectRecord,
         NEW to \in StartSteps,
         d' \in [Workers -> DispatchRecord], d'[w].at = to, d'[w].issue = i,
         \A v \in Workers \ {w} : d'[v] = d[v],
         side' = [side EXCEPT ![i] = x], ServiceUnchanged, troubles' \in 0..MaxTroubles,
         sent[i] <= x.attempt, x.status = "none" => sent[i] = 0,
         x.status = "intent" => sent[i] < x.attempt,
         to = "mutate" => x.status = "in_flight" /\ sent[i] < x.attempt,
         to \in {"after_renew", "mark"} => x.status = "observed"
  PROVE  AdmissionInv'
  <1>1. TypeOK BY DEF AdmissionInv
  <1>2. Effect(i) /\ Tells(i) /\ journal[i] = "mutation_intent" BY ServiceClaim
  <1>3. UNCHANGED <<lease, run, journal, told, parked, since, issue, late, sent, epoch>>
    BY DEF ServiceUnchanged, OutsideUnchanged
  <1>4. side' \in [Issues -> EffectRecord] /\ side'[i] = x
        /\ \A j \in Issues : j # i => side'[j] = side[j]
    BY <1>1 DEF TypeOK, EffectRecord
  <1>5. TypeOK' BY <1>1, <1>3, <1>4 DEF TypeOK, EffectRecord
  <1>6. Effect(i)' BY <1>2, <1>3, <1>4 DEF Effect
  <1>7. Tells(i)' BY <1>2, <1>3 DEF Tells
  <1>8. to \notin FreeSteps /\ to \notin LocalSteps BY DEF FreeSteps, StartSteps, LocalSteps
  <1>9. Backed(w)' BY <1>2, <1>3, <1>4, <1>8, NoIssueAssumption DEF Backed
  <1>10. \A j \in Issues : j # d[w].issue =>
           /\ run'[j] = run[j] /\ journal'[j] = journal[j]
           /\ side'[j] = side[j] /\ sent'[j] = sent[j]
    BY <1>3, <1>4
  <1>11. ClaimsApart' /\ DispatchBacked' /\ IssueBacked'
    BY <1>6, <1>7, <1>9, <1>10, StepBacked
  <1> QED BY <1>5, <1>11 DEF AdmissionInv

\* A step of the service that leaves the effect as it is.
LEMMA ServiceKeeps ==
  ASSUME AdmissionInv, NEW w \in Workers, d[w].at \in StartSteps,
         NEW to \in StartSteps \ {"mutate", "after_renew", "mark"},
         d' \in [Workers -> DispatchRecord], d'[w].at = to, d'[w].issue = d[w].issue,
         \A v \in Workers \ {w} : d'[v] = d[v],
         UNCHANGED side, ServiceUnchanged, troubles' \in 0..MaxTroubles
  PROVE  AdmissionInv'
  <1>1. PICK i \in Issues : i = d[w].issue BY ServiceClaim
  <1>2. Effect(i) BY <1>1, ServiceClaim
  <1>3. PICK x \in EffectRecord : x = side[i] BY <1>1, ServiceClaim
  <1>4. side' = [side EXCEPT ![i] = x] BY <1>3 DEF AdmissionInv, TypeOK
  <1>5. /\ sent[i] <= x.attempt /\ (x.status = "none" => sent[i] = 0)
        /\ (x.status = "intent" => sent[i] < x.attempt)
    BY <1>2, <1>3 DEF Effect
  <1>6. to \in StartSteps /\ to # "mutate" /\ to \notin {"after_renew", "mark"} OBVIOUS
  <1>7. d'[w].issue = i BY <1>1
  <1> QED BY <1>1, <1>4, <1>5, <1>6, <1>7, EffectKeeps, ZenonT(60)

\* The same for a step that only goes on.
LEMMA ServiceGoes ==
  ASSUME AdmissionInv, NEW w \in Workers, d[w].at \in StartSteps,
         NEW to \in StartSteps \ {"mutate", "after_renew", "mark"}, Go(w, to),
         UNCHANGED side, ServiceUnchanged, troubles' \in 0..MaxTroubles
  PROVE  AdmissionInv'
  <1>1. to \in Steps BY DEF StartSteps, Steps
  <1>2. TypeOK BY DEF AdmissionInv
  <1> QED BY <1>1, <1>2, GoShape, ServiceKeeps

\* A store call that fails ends the service.
LEMMA StoreFailsKeeps ==
  ASSUME AdmissionInv, NEW w \in Workers, d[w].at \in StartSteps, StoreFails(w),
         ServiceUnchanged
  PROVE  AdmissionInv'
  <1>1. troubles' \in 0..MaxTroubles BY TroubleType DEF StoreFails, AdmissionInv
  <1>2. "fail" \in StartSteps \ {"mutate", "after_renew", "mark"} BY DEF StartSteps
  <1> QED BY <1>1, <1>2, ServiceGoes DEF StoreFails

\* The first read stops the run or goes on with what it saw.
LEMMA ReadKeeps ==
  ASSUME AdmissionInv, NEW w \in Workers, ReadReservedIssue(w)
  PROVE  AdmissionInv'
  <1>1. TypeOK BY DEF AdmissionInv
  <1>2. d[w].at \in StartSteps BY DEF ReadReservedIssue, At, StartSteps
  <1>3. troubles' \in 0..MaxTroubles
    BY <1>1, TroubleType DEF ReadReservedIssue
  <1>4. UNCHANGED side /\ ServiceUnchanged BY DEF ReadReservedIssue
  <1>5. {"fail", "stop_run", "begin"} \subseteq StartSteps \ {"mutate", "after_renew", "mark"}
    BY DEF StartSteps
  <1>6. CASE Go(w, "fail") \/ Go(w, "stop_run")
    BY <1>2, <1>3, <1>4, <1>5, <1>6, ServiceGoes
  <1>7. CASE /\ issue[d[w].issue] # "other"
             /\ d' = [d EXCEPT ![w].at = "begin", ![w].saw = issue[d[w].issue]]
    <2>1. d[w] \in DispatchRecord BY <1>1 DEF TypeOK
    <2>2. issue[d[w].issue] \in {"todo", "started"}
      BY <1>1, <1>2, <1>7, ServiceClaim DEF TypeOK
    <2> DEFINE next == [d[w] EXCEPT !.at = "begin", !.saw = issue[d[w].issue]]
    <2>3. next \in DispatchRecord /\ next.at = "begin" /\ next.issue = d[w].issue
      BY <2>1, <2>2 DEF DispatchRecord, Steps
    <2>4. d' = [d EXCEPT ![w] = next] BY <1>7
    <2> HIDE DEF next
    <2>5. /\ d' \in [Workers -> DispatchRecord] /\ d'[w].at = "begin"
          /\ d'[w].issue = d[w].issue /\ \A v \in Workers \ {w} : d'[v] = d[v]
      BY <1>1, <2>3, <2>4 DEF TypeOK
    <2> QED BY <1>2, <1>3, <1>4, <1>5, <2>5, ServiceKeeps
  <1> QED BY <1>6, <1>7 DEF ReadReservedIssue
\* The row is made for the first attempt, or found.
LEMMA BeginKeeps ==
  ASSUME AdmissionInv, NEW w \in Workers, BeginSideEffect(w)
  PROVE  AdmissionInv'
  <1>1. TypeOK BY DEF AdmissionInv
  <1>2. d[w].at \in StartSteps BY DEF BeginSideEffect, At, StartSteps
  <1>3. ServiceUnchanged BY DEF BeginSideEffect
  <1>4. PICK i \in Issues : i = d[w].issue BY <1>2, ServiceClaim
  <1>5. side[i] \in EffectRecord /\ Effect(i) BY <1>2, <1>4, ServiceClaim
  <1>6. CASE StoreFails(w) BY <1>2, <1>3, <1>6, StoreFailsKeeps
  <1>7. CASE ~StoreFails(w)
    <2>1. PICK now : now = IF side[i].status = "none"
                           THEN [status |-> "intent", attempt |-> 1] ELSE side[i]
      OBVIOUS
    <2>2. PICK to \in {"observe", "claim", "stop_run", "retry", "stop_effect"} :
            side' = [side EXCEPT ![i] = now] /\ Go(w, to) /\ UNCHANGED troubles
      BY <1>4, <1>7, <2>1 DEF BeginSideEffect
    <2>3. now \in EffectRecord BY <1>5, <2>1 DEF EffectRecord
    <2>4. /\ sent[i] <= now.attempt /\ (now.status = "none" => sent[i] = 0)
          /\ (now.status = "intent" => sent[i] < now.attempt)
      <3>1. CASE side[i].status = "none"
        <4>1. now.status = "intent" /\ now.attempt = 1 BY <2>1, <3>1
        <4> QED BY <1>5, <3>1, <4>1 DEF Effect
      <3>2. CASE side[i].status # "none" BY <1>5, <2>1, <3>2 DEF Effect
      <3> QED BY <3>1, <3>2
    <2>5. to \in StartSteps /\ to \in Steps /\ to # "mutate" /\ to \notin {"after_renew", "mark"}
      BY DEF StartSteps, Steps
    <2>6. troubles' \in 0..MaxTroubles BY <1>1, <2>2 DEF TypeOK
    <2>7. /\ d' \in [Workers -> DispatchRecord] /\ d'[w].at = to /\ d'[w].issue = i
          /\ \A v \in Workers \ {w} : d'[v] = d[v]
      BY <1>1, <1>4, <2>2, <2>5, GoShape
    <2> QED BY <1>2, <1>3, <1>4, <2>2, <2>3, <2>4, <2>5, <2>6, <2>7, EffectKeeps
  <1> QED BY <1>6, <1>7

\* A retry is a second attempt, with a request of its own.
LEMMA RetryKeeps ==
  ASSUME AdmissionInv, NEW w \in Workers, RetryLinearIssueStartSideEffect(w)
  PROVE  AdmissionInv'
  <1>1. TypeOK BY DEF AdmissionInv
  <1>2. d[w].at \in StartSteps BY DEF RetryLinearIssueStartSideEffect, At, StartSteps
  <1>3. ServiceUnchanged BY DEF RetryLinearIssueStartSideEffect
  <1>4. PICK i \in Issues : i = d[w].issue BY <1>2, ServiceClaim
  <1>5. Effect(i) /\ sent[i] \in Nat BY <1>2, <1>4, ServiceClaim
  <1>6. CASE StoreFails(w) BY <1>2, <1>3, <1>6, StoreFailsKeeps
  <1>7. CASE Go(w, "fail") /\ UNCHANGED <<side, troubles>>
    <2>1. "fail" \in StartSteps \ {"mutate", "after_renew", "mark"} BY DEF StartSteps
    <2>2. troubles' \in 0..MaxTroubles BY <1>1, <1>7 DEF TypeOK
    <2> QED BY <1>2, <1>3, <1>7, <2>1, <2>2, ServiceGoes
  <1>8. CASE /\ side[i] = [status |-> "failed_todo", attempt |-> 1]
             /\ side' = [side EXCEPT ![i] = [status |-> "intent", attempt |-> 2]]
             /\ Go(w, "claim") /\ UNCHANGED troubles
    <2>1. PICK x : x = [status |-> "intent", attempt |-> 2] OBVIOUS
    <2>2. x \in EffectRecord /\ x.status = "intent" /\ x.attempt = 2
      BY <2>1 DEF EffectRecord
    <2>3. sent[i] <= 1 BY <1>5, <1>8 DEF Effect
    <2>4. sent[i] <= x.attempt /\ sent[i] < x.attempt BY <1>5, <2>2, <2>3
    <2>5. "claim" \in StartSteps /\ "claim" \in Steps BY DEF StartSteps, Steps
    <2>6. troubles' \in 0..MaxTroubles BY <1>1, <1>8 DEF TypeOK
    <2>7. /\ d' \in [Workers -> DispatchRecord] /\ d'[w].at = "claim" /\ d'[w].issue = i
          /\ \A v \in Workers \ {w} : d'[v] = d[v]
      BY <1>1, <1>4, <1>8, <2>5, GoShape
    <2>8. side' = [side EXCEPT ![i] = x] BY <1>8, <2>1
    <2> QED BY <1>2, <1>3, <1>4, <2>2, <2>4, <2>5, <2>6, <2>7, <2>8, EffectKeeps
  <1> QED BY <1>4, <1>6, <1>7, <1>8 DEF RetryLinearIssueStartSideEffect

\* Who claims the intent has the request to spare.
LEMMA ClaimEffectKeeps ==
  ASSUME AdmissionInv, NEW w \in Workers, ClaimLinearIssueStartSideEffect(w)
  PROVE  AdmissionInv'
  <1>1. TypeOK BY DEF AdmissionInv
  <1>2. d[w].at \in StartSteps BY DEF ClaimLinearIssueStartSideEffect, At, StartSteps
  <1>3. ServiceUnchanged BY DEF ClaimLinearIssueStartSideEffect
  <1>4. PICK i \in Issues : i = d[w].issue BY <1>2, ServiceClaim
  <1>5. Effect(i) /\ side[i] \in EffectRecord BY <1>2, <1>4, ServiceClaim
  <1>6. CASE StoreFails(w) BY <1>2, <1>3, <1>6, StoreFailsKeeps
  <1>7. CASE Go(w, "fail") /\ UNCHANGED <<side, troubles>>
    <2>1. "fail" \in StartSteps \ {"mutate", "after_renew", "mark"} BY DEF StartSteps
    <2>2. troubles' \in 0..MaxTroubles BY <1>1, <1>7 DEF TypeOK
    <2> QED BY <1>2, <1>3, <1>7, <2>1, <2>2, ServiceGoes
  <1>8. CASE /\ side[i].status = "intent" /\ side' = [side EXCEPT ![i].status = "in_flight"]
             /\ Go(w, "mutate") /\ UNCHANGED troubles
    <2>1. PICK x : x = [side[i] EXCEPT !.status = "in_flight"] OBVIOUS
    <2>2. x \in EffectRecord /\ x.status = "in_flight" /\ x.attempt = side[i].attempt
      BY <1>5, <2>1 DEF EffectRecord
    <2>3. sent[i] <= x.attempt /\ sent[i] < x.attempt BY <1>5, <1>8, <2>2 DEF Effect
    <2>4. "mutate" \in StartSteps /\ "mutate" \in Steps BY DEF StartSteps, Steps
    <2>5. troubles' \in 0..MaxTroubles BY <1>1, <1>8 DEF TypeOK
    <2>6. /\ d' \in [Workers -> DispatchRecord] /\ d'[w].at = "mutate" /\ d'[w].issue = i
          /\ \A v \in Workers \ {w} : d'[v] = d[v]
      BY <1>1, <1>4, <1>8, <2>4, GoShape
    <2>7. side' = [side EXCEPT ![i] = x] BY <1>8, <2>1
    <2> QED BY <1>2, <1>3, <1>4, <2>2, <2>3, <2>4, <2>5, <2>6, <2>7, EffectKeeps
  <1> QED BY <1>4, <1>6, <1>7, <1>8 DEF ClaimLinearIssueStartSideEffect

\* What is read after the request leaves the effect to the step that follows.
LEMMA RereadKeeps ==
  ASSUME AdmissionInv, NEW w \in Workers, RereadIssue(w)
  PROVE  AdmissionInv'
  <1>1. TypeOK BY DEF AdmissionInv
  <1>2. d[w].at \in StartSteps BY DEF RereadIssue, At, StartSteps
  <1>3. UNCHANGED side /\ ServiceUnchanged BY DEF RereadIssue
  <1>4. troubles' \in 0..MaxTroubles BY <1>1, TroubleType DEF RereadIssue
  <1>5. PICK to \in {"observe", "failed_todo", "stop_run", "stop_effect"} : Go(w, to)
    BY DEF RereadIssue, Manual
  <1>6. to \in StartSteps \ {"mutate", "after_renew", "mark"} BY DEF StartSteps
  <1> QED BY <1>2, <1>3, <1>4, <1>5, <1>6, ServiceGoes

\* An effect is finished with no request more.
LEMMA FinishKeeps ==
  ASSUME AdmissionInv, NEW w \in Workers, NEW from \in StartSteps,
         NEW status \in {"observed", "failed_todo", "failed"},
         NEW to \in StartSteps \ {"mutate", "mark"},
         to = "after_renew" => status = "observed", FinishSideEffect(w, from, status, to)
  PROVE  AdmissionInv'
  <1>1. TypeOK BY DEF AdmissionInv
  <1>2. d[w].at \in StartSteps BY DEF FinishSideEffect, At
  <1>3. ServiceUnchanged BY DEF FinishSideEffect
  <1>4. PICK i \in Issues : i = d[w].issue BY <1>2, ServiceClaim
  <1>5. Effect(i) /\ side[i] \in EffectRecord BY <1>2, <1>4, ServiceClaim
  <1>6. CASE StoreFails(w) BY <1>2, <1>3, <1>6, StoreFailsKeeps
  <1>7. CASE ~StoreFails(w)
    <2>1. PICK x : x = [side[i] EXCEPT !.status = IF side[i].status = "observed"
                                                  THEN side[i].status ELSE status]
      OBVIOUS
    <2>2. /\ x \in EffectRecord /\ x.attempt = side[i].attempt
          /\ x.status \in {"observed", "failed_todo", "failed"}
          /\ (status = "observed" => x.status = "observed")
      BY <1>5, <2>1 DEF EffectRecord
    <2>3. sent[i] <= x.attempt BY <1>5, <2>2 DEF Effect
    <2>4. to \in StartSteps /\ to \in Steps /\ to # "mutate" /\ to # "mark"
      BY DEF StartSteps, Steps
    <2>5. side' = [side EXCEPT ![i] = x] /\ Go(w, to) /\ UNCHANGED troubles
      BY <1>4, <1>7, <2>1 DEF FinishSideEffect
    <2>6. troubles' \in 0..MaxTroubles BY <1>1, <2>5 DEF TypeOK
    <2>7. /\ d' \in [Workers -> DispatchRecord] /\ d'[w].at = to /\ d'[w].issue = i
          /\ \A v \in Workers \ {w} : d'[v] = d[v]
      BY <1>1, <1>4, <2>4, <2>5, GoShape
    <2>8. x.status # "none" /\ x.status # "intent" BY <2>2
    <2>9. to \in {"after_renew", "mark"} => x.status = "observed" BY <2>2, <2>4
    <2> QED BY <1>2, <1>3, <1>4, <2>2, <2>3, <2>4, <2>5, <2>6, <2>7, <2>8, <2>9, EffectKeeps
  <1> QED BY <1>6, <1>7
\* The request spends what the claimed attempt had to spare.
LEMMA MutateKeeps ==
  ASSUME AdmissionInv, NEW w \in Workers, MutateIssue(w)
  PROVE  AdmissionInv'
  <1>1. TypeOK BY DEF AdmissionInv
  <1>2. d[w].at = "mutate" /\ d[w].at \in StartSteps BY DEF MutateIssue, At, StartSteps
  <1>3. PICK i \in Issues : i = d[w].issue BY <1>2, ServiceClaim
  <1>4. /\ Effect(i) /\ Tells(i) /\ Backed(w) /\ side[i] \in EffectRecord /\ sent[i] \in Nat
        /\ journal[i] = "mutation_intent"
    BY <1>2, <1>3, ServiceClaim
  <1>5. sent' = [sent EXCEPT ![i] = @ + 1] BY <1>3 DEF MutateIssue
  <1>6. UNCHANGED <<lease, run, journal, side, told, parked, since, epoch>>
    BY DEF MutateIssue, storeVars
  <1>7. PICK to \in {"reread", "stop_run", "stop_effect", "fail"} : Go(w, to)
    BY DEF MutateIssue, Manual
  <1>8. to \in Steps /\ to \in StartSteps BY DEF StartSteps, Steps
  <1>9. /\ d' \in [Workers -> DispatchRecord] /\ d'[w].at = to /\ d'[w].issue = i
        /\ \A v \in Workers \ {w} : d'[v] = d[v]
    BY <1>1, <1>3, <1>7, <1>8, GoShape
  <1>10. TypeOK'
    <2>1. troubles' \in 0..MaxTroubles BY <1>1, TroubleType DEF MutateIssue
    <2>2. issue' \in [Issues -> {"todo", "started", "other"}]
      BY <1>1 DEF MutateIssue, TypeOK
    <2>3. late' \in [Issues -> BOOLEAN]
      <3>1. CASE UNCHANGED late BY <1>1, <3>1 DEF TypeOK
      <3>2. CASE late' = [late EXCEPT ![d[w].issue] = TRUE] BY <1>1, <3>2 DEF TypeOK
      <3> QED BY <3>1, <3>2 DEF MutateIssue
    <2>4. sent' \in [Issues -> Nat] BY <1>1, <1>4, <1>5 DEF TypeOK
    <2> QED BY <1>1, <1>6, <1>9, <2>1, <2>2, <2>3, <2>4 DEF TypeOK
  <1>11. side[i].status = "in_flight" /\ sent[i] < side[i].attempt
    BY <1>2, <1>3, <1>4 DEF Backed
  <1>12. sent'[i] = sent[i] + 1 BY <1>1, <1>5 DEF TypeOK
  <1>13. side[i].attempt \in Nat BY <1>4 DEF EffectRecord
  <1>14. Effect(i)' BY <1>4, <1>6, <1>11, <1>12, <1>13 DEF Effect
  <1>15. Tells(i)' BY <1>4, <1>6 DEF Tells
  <1>16. to \notin FreeSteps /\ to \notin LocalSteps /\ to \notin {"mutate", "after_renew", "mark"}
    BY DEF FreeSteps, LocalSteps
  <1>17. Backed(w)' BY <1>4, <1>6, <1>9, <1>16, NoIssueAssumption DEF Backed
  <1>18. \A j \in Issues : j # d[w].issue =>
           /\ run'[j] = run[j] /\ journal'[j] = journal[j]
           /\ side'[j] = side[j] /\ sent'[j] = sent[j]
    BY <1>1, <1>3, <1>5, <1>6 DEF TypeOK
  <1>19. ClaimsApart' /\ DispatchBacked' /\ IssueBacked'
    BY <1>3, <1>9, <1>14, <1>15, <1>17, <1>18, StepBacked
  <1> QED BY <1>10, <1>19 DEF AdmissionInv

\* Only the run and its journal change, to states that agree with each other
\* and with the effect.
RunAgrees(i, r, j) ==
  /\ run' = [run EXCEPT ![i] = r] /\ journal' = [journal EXCEPT ![i] = j]
  /\ r \in {"absent", "received", "executing", "manual_intervention", "failed"}
  /\ j \in {"none", "reserved", "mutation_intent", "started", "manual_intervention"}
  /\ j \in {"none", "reserved"} => journal[i] = j
  /\ r = "executing" => j = "started"
  /\ j = "started" => side[i].status = "observed"
  /\ j = "none" => r = "absent"
  /\ r = "failed" => j = "manual_intervention"

\* The dispatch of w keeps its claim or drops it, and the other rows stay.
DispatchAlone(w, i) ==
  /\ UNCHANGED <<side, since, issue, late, sent, epoch, troubles>>
  /\ lease' \in [owner : 0..MaxEpoch, version : Nat, live : BOOLEAN]
  /\ told' \in [Issues -> BOOLEAN] /\ parked' \in [Issues -> BOOLEAN]
  /\ d' \in [Workers -> DispatchRecord] /\ d'[w].issue \in {i, NoIssue}
  /\ \A v \in Workers \ {w} : d'[v] = d[v]

\* A step that changes the run or its journal alone keeps the other rows.
LEMMA RunKeeps ==
  ASSUME AdmissionInv, NEW w \in Workers, NEW i \in Issues, i = d[w].issue,
         NEW r, NEW j, RunAgrees(i, r, j), DispatchAlone(w, i),
         run'[i] = r /\ journal'[i] = j => Backed(w)'
  PROVE  AdmissionInv'
  <1>1. TypeOK BY DEF AdmissionInv
  <1>2. run'[i] = r /\ journal'[i] = j BY <1>1 DEF TypeOK, RunAgrees
  <1>3. TypeOK' BY <1>1 DEF TypeOK, RunAgrees, DispatchAlone
  <1>4. Effect(i) BY DEF AdmissionInv, IssueBacked
  <1>5. Effect(i)' BY <1>2, <1>4 DEF Effect, RunAgrees, DispatchAlone
  <1>6. Tells(i)' BY <1>2 DEF Tells, RunAgrees, DispatchAlone
  <1>7. \A k \in Issues : k # d[w].issue =>
          /\ run'[k] = run[k] /\ journal'[k] = journal[k]
          /\ side'[k] = side[k] /\ sent'[k] = sent[k]
    BY <1>1 DEF TypeOK, RunAgrees, DispatchAlone
  <1>8. ClaimsApart' /\ DispatchBacked' /\ IssueBacked'
    BY <1>2, <1>5, <1>6, <1>7, StepBacked DEF DispatchAlone
  <1> QED BY <1>3, <1>8 DEF AdmissionInv

\* manual parks the run, the journal still at its intent.
LEMMA StopRunKeeps ==
  ASSUME AdmissionInv, NEW w \in Workers, StopRun(w)
  PROVE  AdmissionInv'
  <1>1. TypeOK BY DEF AdmissionInv
  <1>2. d[w].at \in StartSteps BY DEF StopRun, At, StartSteps
  <1>3. PICK i \in Issues : i = d[w].issue BY <1>2, ServiceClaim
  <1>4. Tells(i) /\ journal[i] = "mutation_intent" BY <1>2, <1>3, ServiceClaim
  <1>5. Go(w, "fail") /\ "fail" \in Steps BY DEF StopRun, Steps
  <1>6. /\ d' \in [Workers -> DispatchRecord] /\ d'[w].at = "fail" /\ d'[w].issue = i
        /\ \A v \in Workers \ {w} : d'[v] = d[v]
    BY <1>1, <1>3, <1>5, GoShape
  <1>7. troubles' \in 0..MaxTroubles BY <1>1, TroubleType DEF StopRun
  <1>8. UNCHANGED <<lease, journal, side, told, parked, since, issue, late, sent, epoch>>
    BY DEF StopRun, OutsideUnchanged
  <1>9. PICK r : r \in {run[i], "manual_intervention"} /\ run' = [run EXCEPT ![i] = r]
    <2>1. CASE UNCHANGED run BY <1>1, <2>1 DEF TypeOK
    <2>2. CASE ~UNCHANGED run BY <1>3, <2>2 DEF StopRun
    <2> QED BY <2>1, <2>2
  <1>10. run'[i] = r /\ run' \in [Issues -> {"absent", "received", "executing",
                                            "manual_intervention", "failed"}]
    BY <1>1, <1>9 DEF TypeOK
  <1>11. TypeOK' BY <1>1, <1>6, <1>7, <1>8, <1>10 DEF TypeOK
  <1>12. Effect(i) BY DEF AdmissionInv, IssueBacked
  <1>13. Effect(i)' BY <1>8, <1>12 DEF Effect
  <1>14. Tells(i)' BY <1>4, <1>8, <1>9, <1>10 DEF Tells
  <1>15. Backed(w)'
    BY <1>4, <1>6, <1>8, NoIssueAssumption DEF Backed, FreeSteps, StartSteps, LocalSteps
  <1>16. \A k \in Issues : k # d[w].issue =>
          /\ run'[k] = run[k] /\ journal'[k] = journal[k]
          /\ side'[k] = side[k] /\ sent'[k] = sent[k]
    BY <1>1, <1>3, <1>8, <1>9 DEF TypeOK
  <1>17. ClaimsApart' /\ DispatchBacked' /\ IssueBacked'
    BY <1>3, <1>6, <1>13, <1>14, <1>15, <1>16, StepBacked
  <1> QED BY <1>11, <1>17 DEF AdmissionInv

\* The journal follows the failed start only from its intent.
LEMMA StartFailedKeeps ==
  ASSUME AdmissionInv, NEW w \in Workers, StartFailed(w)
  PROVE  AdmissionInv'
  <1>1. TypeOK BY DEF AdmissionInv
  <1>2. d[w].at \in StartSteps BY DEF StartFailed, At, StartSteps
  <1>3. PICK i \in Issues : i = d[w].issue BY <1>2, ServiceClaim
  <1>4. Tells(i) /\ journal[i] = "mutation_intent" BY <1>2, <1>3, ServiceClaim
  <1>5. ReturnWith(w, {d[w].issue}, IF run[d[w].issue] = "received" THEN {d[w].issue} ELSE {})
    BY DEF StartFailed
  <1>6. PICK j \in {"mutation_intent", "manual_intervention"} :
          journal' = [journal EXCEPT ![i] = j]
    <2>1. CASE journal' = journal
      <3>1. journal' = [journal EXCEPT ![i] = "mutation_intent"]
        BY <1>1, <1>4, <2>1 DEF TypeOK
      <3> QED BY <3>1
    <2>2. CASE journal' = [journal EXCEPT ![d[w].issue] = "manual_intervention"]
      BY <1>3, <2>2
    <2> QED BY <2>1, <2>2 DEF StartFailed
  <1>7. PICK r : r = run[i] OBVIOUS
  <1>8. run' = [run EXCEPT ![i] = r] BY <1>1, <1>7 DEF StartFailed, TypeOK
  <1>9. r \in {"absent", "received", "executing", "manual_intervention", "failed"}
    BY <1>1, <1>7 DEF TypeOK
  <1>10. UNCHANGED <<side, since, issue, late, sent, epoch, troubles>>
    BY DEF StartFailed, OutsideUnchanged
  <1>11. Backed(w)' BY <1>1, <1>5, ReturnShape, ReturnBacked
  <1>12. r # "executing" /\ r # "failed" BY <1>4, <1>7 DEF Tells
  <1>13. RunAgrees(i, r, j) BY <1>4, <1>6, <1>7, <1>8, <1>9, <1>12 DEF RunAgrees, Tells
  <1>14. DispatchAlone(w, i) BY <1>1, <1>3, <1>5, <1>10, ReturnShape DEF DispatchAlone
  <1> QED BY <1>3, <1>11, <1>13, <1>14, RunKeeps

\* The journal says started only after the effect was observed.
LEMMA RecordStartedKeeps ==
  ASSUME AdmissionInv, NEW w \in Workers, RecordStarted(w)
  PROVE  AdmissionInv'
  <1>1. TypeOK BY DEF AdmissionInv
  <1>2. d[w].at \in StartSteps /\ d[w].at = "mark" BY DEF RecordStarted, At, StartSteps
  <1>3. PICK i \in Issues : i = d[w].issue BY <1>2, ServiceClaim
  <1>4. Tells(i) /\ journal[i] = "mutation_intent" /\ Backed(w)
    BY <1>2, <1>3, ServiceClaim
  <1>5. UNCHANGED <<run, side, since, issue, late, sent, epoch, troubles>>
    BY DEF RecordStarted, OutsideUnchanged
  <1>6. CASE AttentionFor(w) /\ UNCHANGED journal
    <2>1. PICK events, stops : ReturnWith(w, events, stops) BY <1>6, AttentionShape
    <2>2. troubles' \in 0..MaxTroubles BY <1>1, <1>5 DEF TypeOK
    <2> QED BY <1>5, <1>6, <2>1, <2>2, ReturnKeeps DEF OutsideUnchanged
  <1>7. CASE /\ journal' = [journal EXCEPT ![d[w].issue] = "started"]
             /\ Go(w, "local_renew") /\ UNCHANGED <<lease, told, parked>>
    <2>1. "local_renew" \in Steps BY DEF Steps
    <2>2. PICK r : r = run[i] OBVIOUS
    <2>3. run' = [run EXCEPT ![i] = r] BY <1>1, <1>5, <2>2 DEF TypeOK
    <2>4. r \in {"absent", "received", "executing", "manual_intervention", "failed"}
      BY <1>1, <2>2 DEF TypeOK
    <2>5. /\ d' \in [Workers -> DispatchRecord] /\ d'[w].at = "local_renew"
          /\ d'[w].issue = i /\ \A v \in Workers \ {w} : d'[v] = d[v]
      BY <1>1, <1>3, <1>7, <2>1, GoShape
    <2>6. journal'[i] = "started" => Backed(w)'
      BY <2>5, NoIssueAssumption DEF Backed, FreeSteps, StartSteps, LocalSteps
    <2>7. side[i].status = "observed" BY <1>2, <1>3, <1>4 DEF Backed
    <2>8. r # "failed" BY <1>4, <2>2 DEF Tells
    <2>9. /\ lease' \in [owner : 0..MaxEpoch, version : Nat, live : BOOLEAN]
          /\ told' \in [Issues -> BOOLEAN] /\ parked' \in [Issues -> BOOLEAN]
      BY <1>1, <1>7 DEF TypeOK
    <2>10. PICK j : j = "started" OBVIOUS
    <2>11. journal' = [journal EXCEPT ![i] = j] BY <1>3, <1>7, <2>10
    <2>12. RunAgrees(i, r, j) BY <2>3, <2>4, <2>7, <2>8, <2>10, <2>11 DEF RunAgrees
    <2>13. DispatchAlone(w, i) BY <1>5, <2>5, <2>9 DEF DispatchAlone
    <2>14. j = "started" => Backed(w)' BY <2>6, <2>10, <2>11, <1>1, <1>3 DEF TypeOK
    <2> QED BY <1>3, <2>10, <2>12, <2>13, <2>14, RunKeeps
  <1> QED BY <1>6, <1>7 DEF RecordStarted

\* The lease goes before the local work, and takes nothing else with it.
LEMMA ReleaseKeeps ==
  ASSUME AdmissionInv, NEW w \in Workers, ReleaseLease(w)
  PROVE  AdmissionInv'
  <1>1. TypeOK BY DEF AdmissionInv
  <1>2. Backed(w) /\ d[w].at = "release" BY DEF AdmissionInv, DispatchBacked, ReleaseLease, At
  <1>3. troubles' \in 0..MaxTroubles BY <1>1 DEF ReleaseLease, TypeOK
  <1>4. CASE Return(w)
    <2>1. PICK events, stops : ReturnWith(w, events, stops) BY <1>4, AttentionShape
    <2> QED BY <1>3, <2>1, ReturnKeeps DEF ReleaseLease
  <1>5. CASE /\ lease' = NoLease /\ d' = [d EXCEPT ![w].at = "local", ![w].ver = 0]
             /\ UNCHANGED <<told, parked>>
    <2>1. d[w] \in DispatchRecord BY <1>1 DEF TypeOK
    <2> DEFINE next == [d[w] EXCEPT !.at = "local", !.ver = 0]
    <2>2. next \in DispatchRecord /\ next.at = "local" /\ next.issue = d[w].issue
      BY <2>1 DEF DispatchRecord, Steps
    <2>3. d' = [d EXCEPT ![w] = next] BY <1>5
    <2> HIDE DEF next
    <2>4. /\ d' \in [Workers -> DispatchRecord] /\ d'[w].at = "local"
          /\ d'[w].issue = d[w].issue /\ \A v \in Workers \ {w} : d'[v] = d[v]
      BY <1>1, <2>2, <2>3 DEF TypeOK
    <2>5. lease' \in [owner : 0..MaxEpoch, version : Nat, live : BOOLEAN]
      BY <1>5, BoundsAssumption DEF NoLease
    <2>6. UNCHANGED <<run, journal, side, since, troubles>> /\ OutsideUnchanged
      BY DEF ReleaseLease
    <2>7. TypeOK' BY <1>1, <1>5, <2>4, <2>5, <2>6 DEF TypeOK, OutsideUnchanged
    <2>8. Backed(w)'
      BY <1>2, <2>4, <2>6 DEF Backed, FreeSteps, StartSteps, LocalSteps, OutsideUnchanged
    <2>9. UNCHANGED <<run, journal, side, sent>> BY <2>6 DEF OutsideUnchanged
    <2> QED BY <2>4, <2>7, <2>8, <2>9, QuietStep DEF AdmissionInv
  <1> QED BY <1>4, <1>5 DEF ReleaseLease

\* Local work starts under a journal that says started.
LEMMA StartLocallyKeeps ==
  ASSUME AdmissionInv, NEW w \in Workers, StartLocally(w)
  PROVE  AdmissionInv'
  <1>1. TypeOK BY DEF AdmissionInv
  <1>2. Backed(w) /\ d[w].at = "local" BY DEF AdmissionInv, DispatchBacked, StartLocally, At
  <1>3. d[w] \in DispatchRecord /\ d[w].issue # NoIssue
    BY <1>1, <1>2 DEF TypeOK, Backed, FreeSteps
  <1>4. PICK i \in Issues : i = d[w].issue BY <1>3 DEF DispatchRecord
  <1>5. Tells(i) BY DEF AdmissionInv, IssueBacked
  <1>6. PICK r : r = IF run[i] = "received" THEN "executing" ELSE run[i] OBVIOUS
  <1>7. PICK j : j = journal[i] OBVIOUS
  <1>8. run' = [run EXCEPT ![i] = r] /\ journal' = [journal EXCEPT ![i] = j]
    BY <1>1, <1>4, <1>6, <1>7 DEF StartLocally, TypeOK
  <1>9. /\ r \in {"absent", "received", "executing", "manual_intervention", "failed"}
        /\ j \in {"none", "reserved", "mutation_intent", "started", "manual_intervention"}
    BY <1>1, <1>6, <1>7 DEF TypeOK
  <1>10. UNCHANGED <<side, since, issue, late, sent, epoch, troubles>>
    BY DEF StartLocally, OutsideUnchanged
  <1>11. ReturnWith(w, {}, {}) BY DEF StartLocally, Return
  <1>12. Backed(w)' BY <1>1, <1>11, ReturnShape, ReturnBacked
  <1>13. run[i] = "received" => j = "started"
    BY <1>2, <1>4, <1>7 DEF Backed, LocalSteps
  <1>14. /\ (r = "executing" => j = "started") /\ (j = "none" => r = "absent")
         /\ (r = "failed" => j = "manual_intervention")
         /\ (j = "started" => side[i].status = "observed")
    BY <1>5, <1>6, <1>7, <1>13 DEF Tells
  <1>15. j \in {"none", "reserved"} => journal[i] = j BY <1>7
  <1>16. RunAgrees(i, r, j) BY <1>8, <1>9, <1>14, <1>15 DEF RunAgrees
  <1>17. DispatchAlone(w, i) BY <1>1, <1>4, <1>10, <1>11, ReturnShape DEF DispatchAlone
  <1> QED BY <1>4, <1>12, <1>16, <1>17, RunKeeps
-----------------------------------------------------------------------------
(***************************************************************************)
(* What happens around the dispatches, and the theorems                     *)
(***************************************************************************)
\* A step that leaves the locals and the rows of every run alone.
LEMMA OutsideKeeps ==
  ASSUME AdmissionInv, UNCHANGED <<run, journal, side, sent, d>>, TypeOK'
  PROVE  AdmissionInv'
  BY DEF AdmissionInv, ClaimsApart, DispatchBacked, Backed, IssueBacked, Effect, Tells

\* A lease ends and nobody's row with it.
LEMMA ExpireKeeps ==
  ASSUME AdmissionInv, LeaseExpires
  PROVE  AdmissionInv'
  <1>1. TypeOK BY DEF AdmissionInv
  <1>2. troubles' \in 0..MaxTroubles BY <1>1, TroubleType DEF LeaseExpires
  <1>3. TypeOK' BY <1>1, <1>2 DEF TypeOK, LeaseExpires, OutsideUnchanged
  <1> QED BY <1>3, OutsideKeeps DEF LeaseExpires, OutsideUnchanged

\* A crash forgets every dispatch.
LEMMA CrashKeeps ==
  ASSUME AdmissionInv, Crash
  PROVE  AdmissionInv'
  <1>1. TypeOK BY DEF AdmissionInv
  <1>2. troubles' \in 0..MaxTroubles BY <1>1, TroubleType DEF Crash
  <1>3. Idle \in DispatchRecord /\ Idle.at = "idle" /\ Idle.issue = NoIssue
    BY DEF Idle, DispatchRecord, Steps
  <1>4. d' = [w \in Workers |-> Idle] BY DEF Crash
  <1>5. \A w \in Workers : d'[w] = Idle /\ d'[w].at = "idle" /\ d'[w].issue = NoIssue
    BY <1>3, <1>4
  <1>6. TypeOK'
    <2>1. d' \in [Workers -> DispatchRecord] BY <1>3, <1>4
    <2>2. epoch' \in 1..MaxEpoch BY <1>1, BoundsAssumption DEF Crash, TypeOK
    <2>3. UNCHANGED <<lease, run, journal, side, told, parked, since, issue, late, sent>>
      BY DEF Crash, storeVars
    <2> QED BY <1>1, <1>2, <2>1, <2>2, <2>3 DEF TypeOK
  <1>7. ClaimsApart' BY <1>5 DEF ClaimsApart
  <1>8. DispatchBacked' BY <1>5, ReturnBacked DEF DispatchBacked
  <1>9. IssueBacked'
    BY DEF AdmissionInv, IssueBacked, Effect, Tells, Crash, storeVars
  <1> QED BY <1>6, <1>7, <1>8, <1>9 DEF AdmissionInv

\* Linear and humans move issues, not runs.
LEMMA LinearKeeps ==
  ASSUME AdmissionInv, NEW i \in Issues, LateRequestApplied(i) \/ HumanMoves(i)
  PROVE  AdmissionInv'
  <1>1. TypeOK BY DEF AdmissionInv
  <1>2. CASE LateRequestApplied(i)
    <2>1. TypeOK' BY <1>1, <1>2 DEF TypeOK, LateRequestApplied, storeVars
    <2> QED BY <1>2, <2>1, OutsideKeeps DEF LateRequestApplied, storeVars
  <1>3. CASE HumanMoves(i)
    <2>1. troubles' \in 0..MaxTroubles BY <1>1, <1>3, TroubleType DEF HumanMoves
    <2>2. issue' \in [Issues -> {"todo", "started", "other"}]
      BY <1>1, <1>3 DEF TypeOK, HumanMoves
    <2>3. UNCHANGED <<lease, run, journal, side, told, parked, since, late, sent, d, epoch>>
      BY <1>3 DEF HumanMoves, storeVars
    <2>4. TypeOK' BY <1>1, <2>1, <2>2, <2>3 DEF TypeOK
    <2> QED BY <2>3, <2>4, OutsideKeeps
  <1> QED BY <1>2, <1>3

\* The pending mutation keeps abandonment from every dispatch in the start service.
LEMMA AbandonKeeps ==
  ASSUME AdmissionInv, NEW i \in Issues, AbandonAutomaticAdmission(i)
  PROVE  AdmissionInv'
  <1>1. TypeOK BY DEF AdmissionInv
  <1>2. /\ run' = [run EXCEPT ![i] = "failed"] /\ journal[i] # "mutation_intent"
        /\ journal' = [journal EXCEPT ![i] = "manual_intervention"]
        /\ UNCHANGED <<lease, side, told, parked, since, d, issue, late, sent, epoch, troubles>>
    BY DEF AbandonAutomaticAdmission, OutsideUnchanged
  <1>3. run'[i] = "failed" /\ journal'[i] = "manual_intervention" BY <1>1, <1>2 DEF TypeOK
  <1>4. \A j \in Issues : j # i => run'[j] = run[j] /\ journal'[j] = journal[j]
    BY <1>1, <1>2 DEF TypeOK
  <1>5. TypeOK' BY <1>1, <1>2 DEF TypeOK
  <1>6. ClaimsApart' BY <1>2 DEF AdmissionInv, ClaimsApart
  <1>7. ASSUME NEW w \in Workers PROVE Backed(w)'
    <2>1. Backed(w) /\ d'[w] = d[w] BY <1>2 DEF AdmissionInv, DispatchBacked
    <2>2. CASE d[w].issue = i BY <1>2, <1>3, <2>1, <2>2 DEF Backed
    <2>3. CASE d[w].issue = NoIssue
      BY <2>1, <2>3 DEF Backed, FreeSteps, StartSteps, LocalSteps
    <2>4. CASE d[w].issue \in Issues /\ d[w].issue # i BY <1>2, <1>4, <2>1, <2>4 DEF Backed
    <2> QED BY <1>1, <2>2, <2>3, <2>4 DEF TypeOK, DispatchRecord
  <1>8. ASSUME NEW j \in Issues PROVE Effect(j)' /\ Tells(j)'
    <2>1. Effect(j) /\ Tells(j) BY DEF AdmissionInv, IssueBacked
    <2>2. CASE j = i BY <1>2, <1>3, <2>1, <2>2 DEF Effect, Tells
    <2>3. CASE j # i BY <1>2, <1>4, <2>1, <2>3 DEF Effect, Tells
    <2> QED BY <2>2, <2>3
  <1> QED BY <1>5, <1>6, <1>7, <1>8 DEF AdmissionInv, DispatchBacked, IssueBacked
\* Whatever a dispatch does keeps the invariant.
LEMMA DispatchKeeps ==
  ASSUME AdmissionInv, NEW w \in Workers, DispatchStep(w)
  PROVE  AdmissionInv'
  <1>1. CASE AcquireLease(w) BY <1>1, AcquireKeeps
  <1>2. CASE SelectRun(w) BY <1>2, SelectRunKeeps
  <1>3. CASE ResumeRun(w) BY <1>3, ResumeKeeps
  <1>4. CASE AdoptReservation(w) BY <1>4, AdoptKeeps
  <1>5. CASE ScanCandidates(w) BY <1>5, ScanKeeps
  <1>6. CASE SelectCandidate(w) BY <1>6, SelectCandidateKeeps
  <1>7. CASE ReserveAdmission(w) BY <1>7, ReserveKeeps
  <1>8. CASE InitialPermit(w) BY <1>8, PermitKeeps
  <1>9. CASE RecordMutationIntent(w) BY <1>9, IntentKeeps
  <1>10. CASE ReadReservedIssue(w) BY <1>10, ReadKeeps
  <1>11. CASE BeginSideEffect(w) BY <1>11, BeginKeeps
  <1>12. CASE RetryLinearIssueStartSideEffect(w) BY <1>12, RetryKeeps
  <1>13. CASE ClaimLinearIssueStartSideEffect(w) BY <1>13, ClaimEffectKeeps
  <1>14. CASE MutateIssue(w) BY <1>14, MutateKeeps
  <1>15. CASE RereadIssue(w) BY <1>15, RereadKeeps
  <1>16. CASE StopRun(w) BY <1>16, StopRunKeeps
  <1>17. CASE StartFailed(w) BY <1>17, StartFailedKeeps
  <1>18. CASE RecordStarted(w) BY <1>18, RecordStartedKeeps
  <1>19. CASE ReleaseLease(w) BY <1>19, ReleaseKeeps
  <1>20. CASE StartLocally(w) BY <1>20, StartLocallyKeeps
  <1>21. CASE Renew(w, "adopt_renew", "adopt")
    BY <1>21, RenewKeeps DEF Steps, FreeSteps, StartSteps, LocalSteps
  <1>22. CASE Renew(w, "scan_renew", "scan")
    BY <1>22, RenewKeeps DEF Steps, FreeSteps, StartSteps, LocalSteps
  <1>23. CASE Renew(w, "reserve_renew", "reserve")
    BY <1>23, RenewKeeps DEF Steps, FreeSteps, StartSteps, LocalSteps
  <1>24. CASE Renew(w, "start_renew", "intent")
    BY <1>24, RenewKeeps DEF Steps, FreeSteps, StartSteps, LocalSteps
  <1>25. CASE Renew(w, "mutation_renew", "read")
    BY <1>25, RenewKeeps DEF Steps, FreeSteps, StartSteps, LocalSteps
  <1>26. CASE Renew(w, "after_renew", "mark")
    BY <1>26, RenewKeeps DEF Steps, FreeSteps, StartSteps, LocalSteps
  <1>27. CASE Renew(w, "local_renew", "release")
    BY <1>27, RenewKeeps DEF Steps, FreeSteps, StartSteps, LocalSteps
  <1>28. CASE FinishStarted(w)
    <2>1. FinishSideEffect(w, "observe", "observed", "after_renew") BY <1>28 DEF FinishStarted
    <2>2. "observe" \in StartSteps /\ "after_renew" \in StartSteps \ {"mutate", "mark"}
      BY DEF StartSteps
    <2> QED BY <2>1, <2>2, FinishKeeps
  <1>29. CASE FinishFailedTodo(w)
    <2>1. FinishSideEffect(w, "failed_todo", "failed_todo", "retry") BY <1>29 DEF FinishFailedTodo
    <2>2. "failed_todo" \in StartSteps /\ "retry" \in StartSteps \ {"mutate", "mark"}
      BY DEF StartSteps
    <2> QED BY <2>1, <2>2, FinishKeeps
  <1>30. CASE FinishFailed(w)
    <2>1. FinishSideEffect(w, "stop_effect", "failed", "stop_run") BY <1>30 DEF FinishFailed
    <2>2. "stop_effect" \in StartSteps /\ "stop_run" \in StartSteps \ {"mutate", "mark"}
      BY DEF StartSteps
    <2> QED BY <2>1, <2>2, FinishKeeps
  <1> QED
    BY <1>1, <1>2, <1>3, <1>4, <1>5, <1>6, <1>7, <1>8, <1>9, <1>10, <1>11, <1>12,
       <1>13, <1>14, <1>15, <1>16, <1>17, <1>18, <1>19, <1>20, <1>21, <1>22, <1>23, <1>24,
       <1>25, <1>26, <1>27, <1>28, <1>29, <1>30
    DEF DispatchStep

\* Nothing is known of any run at the beginning.
LEMMA InitBacked ==
  ASSUME Init
  PROVE  AdmissionInv
  <1>1. Idle \in DispatchRecord /\ Idle.at = "idle" /\ Idle.issue = NoIssue
    BY DEF Idle, DispatchRecord, Steps
  <1>2. NoLease \in [owner : 0..MaxEpoch, version : Nat, live : BOOLEAN]
    BY BoundsAssumption DEF NoLease
  <1>3. \A w \in Workers : d[w] = Idle /\ d[w].at = "idle" /\ d[w].issue = NoIssue
    BY <1>1 DEF Init
  <1>4. TypeOK
    <2>1. d \in [Workers -> DispatchRecord] BY <1>1 DEF Init
    <2>2. epoch \in 1..MaxEpoch /\ troubles \in 0..MaxTroubles BY BoundsAssumption DEF Init
    <2>3. side \in [Issues -> [status : {"none", "intent", "in_flight", "failed_todo",
                                         "failed", "observed"}, attempt : 0..2]]
      BY DEF Init
    <2>4. /\ run \in [Issues -> {"absent", "received", "executing", "manual_intervention",
                                 "failed"}]
          /\ journal \in [Issues -> {"none", "reserved", "mutation_intent", "started",
                                     "manual_intervention"}]
          /\ told \in [Issues -> BOOLEAN] /\ parked \in [Issues -> BOOLEAN]
          /\ since \in [Issues -> Nat] /\ issue \in [Issues -> {"todo", "started", "other"}]
          /\ late \in [Issues -> BOOLEAN] /\ sent \in [Issues -> Nat]
      BY DEF Init
    <2> QED BY <1>2, <2>1, <2>2, <2>3, <2>4 DEF Init, TypeOK
  <1>5. ClaimsApart BY <1>3 DEF ClaimsApart
  <1>6. DispatchBacked
    BY <1>3 DEF DispatchBacked, Backed, FreeSteps, StartSteps, LocalSteps
  <1>7. IssueBacked BY DEF Init, IssueBacked, Effect, Tells
  <1> QED BY <1>4, <1>5, <1>6, <1>7 DEF AdmissionInv

\* The store's rows, the claims and the positions of the dispatches agree in every
\* state, and stay so under every step of Next.
THEOREM Inductive == Spec => []AdmissionInv
  <1>1. Init => AdmissionInv BY InitBacked
  <1>2. AdmissionInv /\ [Next]_vars => AdmissionInv'
    <2> SUFFICES ASSUME AdmissionInv, [Next]_vars PROVE AdmissionInv'
      OBVIOUS
    <2>1. CASE \E w \in Workers : DispatchStep(w) BY <2>1, DispatchKeeps
    <2>2. CASE LeaseExpires BY <2>2, ExpireKeeps
    <2>3. CASE Crash BY <2>3, CrashKeeps
    <2>4. CASE \E i \in Issues : LateRequestApplied(i) \/ HumanMoves(i)
      BY <2>4, LinearKeeps
    <2>5. CASE \E i \in Issues : AbandonAutomaticAdmission(i) BY <2>5, AbandonKeeps
    <2>6. CASE UNCHANGED vars
      <3>1. TypeOK' BY <2>6 DEF AdmissionInv, TypeOK, vars, storeVars
      <3> QED BY <2>6, <3>1, OutsideKeeps DEF vars, storeVars
    <2> QED BY <2>1, <2>2, <2>3, <2>4, <2>5, <2>6 DEF Next
  <1> QED BY <1>1, <1>2, PTL DEF Spec

\* Lease, runs, journal, side effects and locals keep their types (the store's CHECK
\* constraints on linear_todo_admission_journal and side_effects).
THEOREM TypeCorrect == Spec => []TypeOK
  <1>1. AdmissionInv => TypeOK BY DEF AdmissionInv
  <1> QED BY <1>1, Inductive, PTL

\* Every request to Linear has an attempt of its own, made durable before it, for any
\* number of dispatches, lost leases and crashes (ClaimLinearIssueStartSideEffect).
THEOREM RequestsWithinAttempts == Spec => []RequestsCovered
  <1>1. AdmissionInv => RequestsCovered
    BY DEF AdmissionInv, IssueBacked, Effect, RequestsCovered
  <1> QED BY <1>1, Inductive, PTL

\* Work that runs has a journal that says started, and a start that was observed
\* (startAndDrive).
THEOREM WorkAfterProof == Spec => []WorkProven
  <1>1. AdmissionInv => WorkProven
    BY SMTT(30) DEF AdmissionInv, IssueBacked, Tells, WorkProven
  <1> QED BY <1>1, Inductive, PTL

\* The steps of a dispatch that make, stop or start its run, or ask for its issue.
RunStep(w) == ReserveAdmission(w) \/ MutateIssue(w) \/ StopRun(w) \/ StartLocally(w)

\* All others leave runs and requests as they are.
LEMMA OtherSteps ==
  ASSUME NEW w \in Workers, DispatchStep(w), ~RunStep(w)
  PROVE  UNCHANGED <<run, sent>>
  BY DEF DispatchStep, RunStep, ServiceUnchanged, OutsideUnchanged, storeVars,
         AcquireLease, SelectRun, ResumeRun, AdoptReservation, Renew, ScanCandidates,
         SelectCandidate, InitialPermit, RecordMutationIntent, ReadReservedIssue,
         BeginSideEffect, RetryLinearIssueStartSideEffect, ClaimLinearIssueStartSideEffect,
         RereadIssue, FinishSideEffect, FinishStarted, FinishFailedTodo, FinishFailed,
         StartFailed, RecordStarted, ReleaseLease

\* A failed run has a closed journal, and no step passes by it.
LEMMA FailedStays ==
  ASSUME AdmissionInv, Next, NEW i \in Issues, run[i] = "failed"
  PROVE  sent'[i] = sent[i] /\ run'[i] = "failed"
  <1>1. TypeOK /\ journal[i] = "manual_intervention"
    BY DEF AdmissionInv, IssueBacked, Tells
  <1>2. CASE \E w \in Workers : DispatchStep(w)
    <2>1. PICK w \in Workers : DispatchStep(w) BY <1>2
    <2>2. CASE ~RunStep(w) BY <2>1, <2>2, OtherSteps
    <2>3. CASE ReserveAdmission(w)
      <3>1. run'[i] = "failed"
        BY <1>1, <2>3 DEF ReserveAdmission, TypeOK
      <3> QED BY <2>3, <3>1 DEF ReserveAdmission, OutsideUnchanged
    <2>4. CASE MutateIssue(w)
      <3>1. d[w].at \in StartSteps BY <2>4 DEF MutateIssue, At, StartSteps
      <3>2. d[w].issue # i BY <1>1, <3>1, ServiceClaim
      <3> QED BY <1>1, <2>4, <3>2 DEF MutateIssue, storeVars, TypeOK
    <2>5. CASE StopRun(w) BY <1>1, <2>5 DEF StopRun, OutsideUnchanged, TypeOK
    <2>6. CASE StartLocally(w) BY <1>1, <2>6 DEF StartLocally, OutsideUnchanged, TypeOK
    <2> QED BY <2>2, <2>3, <2>4, <2>5, <2>6 DEF RunStep
  <1>3. CASE \E j \in Issues : AbandonAutomaticAdmission(j)
    BY <1>1, <1>3 DEF AbandonAutomaticAdmission, OutsideUnchanged, TypeOK
  <1>4. CASE \/ LeaseExpires \/ Crash
            \/ \E j \in Issues : LateRequestApplied(j) \/ HumanMoves(j)
    BY <1>4 DEF LeaseExpires, Crash, LateRequestApplied, HumanMoves, OutsideUnchanged,
                storeVars
  <1> QED BY <1>2, <1>3, <1>4 DEF Next

\* An abandoned run is not revived and its issue asked for nothing more, though a
\* dispatch may be on its way (AbandonAutomaticAdmission's refusal of a pending
\* mutation, and its write of the run and its journal in one transaction).
THEOREM AbandonedLeftAlone == Spec => AbandonedStaysAlone
  <1>1. AdmissionInv /\ [Next]_vars =>
          [\A i \in Issues : run[i] = "failed" => sent'[i] = sent[i] /\ run'[i] = "failed"]_vars
    BY FailedStays
  <1> QED BY <1>1, Inductive, PTL DEF Spec, AbandonedStaysAlone
=============================================================================
