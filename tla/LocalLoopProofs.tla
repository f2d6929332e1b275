---------------------------- MODULE LocalLoopProofs ----------------------------
(***************************************************************************)
(* Proofs about LocalLoop, for every number of heads, repairs, decisions,   *)
(* attempts and troubles: a run is approved only with the evidence of its   *)
(* own candidate, and the candidate, the outcomes and the directories it    *)
(* relies on are its own.                                                   *)
(***************************************************************************)
EXTENDS LocalLoop, TLAPS

\* What the store and the worktree hold, whoever is at work.
Acceptable(h) ==
  \/ Repairing /\ h = RepairBase
  \/ h \in DOMAIN commits /\ commits[h] = [parent |-> Expected, subject |-> "candidate"]

\* The directories the run has marked or registered hold nothing of anybody else.
Untouched(d) ==
  /\ d.tree = "ours" => d.branch /\ "tree" \notin d.others
  /\ d.root \in {"half", "marked"} => "root" \notin d.others

Records ==
  /\ Len(commits) <= MaxHead /\ disk.head <= Len(commits)
  /\ cand # NoHead => Acceptable(cand)
  /\ Untouched(disk)
  /\ workspace => disk.tree = "ours" /\ rows["worktree"] # "none"
  /\ \A i \in DOMAIN attempts : attempts[i].round <= Round
  /\ \A i \in DOMAIN attempts :
       attempts[i].kind \in Implementation /\ attempts[i].status = "succeeded" => session
  /\ Round > 0 => session

\* What a run in state s has behind it.
Backed(s) ==
  /\ s # "received" => disk.root = "marked" /\ rows["artifact_root"] = "owned"
  /\ s \in {"verifying", "fresh_review", "approval_ready", "repairing",
            "awaiting_human_decision"} => session
  /\ s \in {"fresh_review", "approval_ready", "repairing"} => cand \in Heads
  /\ s = "approval_ready" =>
       /\ AtCandidate /\ Clean
       /\ batch = [head |-> cand, repairs |-> Repairs, ok |-> TRUE]
       /\ review = [head |-> cand, repairs |-> Repairs, verdict |-> "pass"]

(***************************************************************************)
(* What the handler in progress relies on where it is.                      *)
(***************************************************************************)
ProvisionAt == {"provision", "reserve_worktree", "make", "add", "set_workspace", "own_branch",
                "own_worktree", "provisioned"}
ExecuteAt == {"execute", "launch", "child", "save_session", "finish", "apply"}
RecoverAt == {"recover", "recovered", "lost"}
DecideAt  == {"accept", "accepted"}
VerifyAt  == {"verify", "precommit", "commit", "set_candidate", "check", "verified"}
ReviewAt  == {"review", "review_launch", "review_child", "review_finish", "review_save",
              "judge", "bind", "handoff"}

\* Where no handler of the run's state is at work.
Resting == {"idle", "parked", "loop", "error", "retry", "root", "root_make"}

\* A path is reserved before the run is admitted, and a marker is written to the
\* directory it was just created in.
Marking ==
  /\ ctl.at = "root_reserve" => st = "received"
  /\ ctl.at = "root_write" => disk.root = "half"

Provisioning ==
  ctl.at \in ProvisionAt =>
    /\ st = "provisioning"
    /\ ctl.at \notin {"provision", "reserve_worktree"} => rows["worktree"] # "none"
    /\ ctl.at \notin {"provision", "reserve_worktree", "make", "add"} => disk.tree = "ours"

\* An implementation attempt begun after the last repair and the last decision.
InRound(i) == attempts[i].kind \in Implementation /\ attempts[i].round = Round

Executing ==
  ctl.at \in ExecuteAt =>
    /\ st = "executing"
    /\ ctl.at \notin {"execute", "apply"} => attempts # <<>> /\ InRound(Newest)
    /\ ctl.at \in {"save_session", "finish"} => ctl.result \in Outcome
    /\ ctl.at \in {"finish", "apply"} => session
    /\ ctl.at = "apply" =>
         \E i \in DOMAIN attempts :
           InRound(i) /\ attempts[i].status = "succeeded" /\ attempts[i].result = ctl.result

Settling ==
  ctl.at \in RecoverAt =>
    /\ st \in RepairStates /\ (~Recovering => st = "executing")
    /\ ctl.at # "lost" => ctl.k \in DOMAIN attempts

Verifying ==
  ctl.at \in VerifyAt =>
    /\ st = "verifying"
    /\ ctl.at \in {"precommit", "commit"} => disk.head = Expected
    /\ ctl.at = "set_candidate" => ctl.head \in Heads /\ Acceptable(ctl.head)
    /\ ctl.at \in {"check", "verified"} => cand \in Heads

Reviewing ==
  ctl.at \in ReviewAt =>
    /\ st = "fresh_review"
    /\ ctl.at \in {"review_launch", "review_child", "review_finish"} =>
         attempts # <<>> /\ attempts[Newest].kind = "review"
    /\ ctl.at \in {"review_finish", "review_save"} => ctl.result \in Verdict
    /\ ctl.at = "bind" => Reviewed /\ review.verdict = "pass" /\ Proven /\ AtCandidate /\ Clean

Working ==
  /\ Marking /\ Provisioning /\ Executing /\ Settling /\ Verifying /\ Reviewing
  /\ ctl.at \in DecideAt => st = "awaiting_human_decision"
  /\ ctl.at = "approve" => st = "approval_ready"

\* The record of the handler in progress.
Control == [at : Step, decision : {NoResult, "repair", "human"}, k : Nat, head : Commit,
            result : Outcome \cup Verdict \cup {NoResult, "reconcile"}]

\* The directories of the run.
Directories == [root : {"absent", "bare", "half", "marked"},
                tree : {"absent", "bare", "ours"}, branch : BOOLEAN, others : SUBSET {"root", "tree"},
                head : 0..MaxHead, dirt : 0..2, decisions : SUBSET Nat]

LocalInv == TypeOK /\ Records /\ Backed(st) /\ Working
-----------------------------------------------------------------------------
\* What an attempt is.
LEMMA AttemptTyped ==
  ASSUME TypeOK, NEW i \in DOMAIN attempts
  PROVE  /\ i \in Nat /\ i - 1 \in Nat
         /\ attempts[i].kind \in Implementation \cup {"review"} /\ attempts[i].round \in Nat
         /\ attempts[i].result \in Outcome \cup Verdict \cup {NoResult}
<1>1. attempts \in Seq(Attempt)
  BY DEF TypeOK
<1>2. attempts[i] \in Attempt /\ i \in Nat /\ i - 1 \in Nat
  BY <1>1
<1> QED
  BY <1>2 DEF Attempt

\* The status of an attempt is set and nothing else of it.
LEMMA AttemptSet ==
  ASSUME TypeOK, NEW i \in DOMAIN attempts,
         NEW status \in {"prepared", "started", "failed", "recovered", "succeeded"},
         NEW result \in Outcome \cup Verdict \cup {NoResult},
         SetAttempt(i, status, result)
  PROVE  /\ attempts' \in Seq(Attempt) /\ DOMAIN attempts' = DOMAIN attempts
         /\ Len(attempts') = Len(attempts)
         /\ \A j \in DOMAIN attempts :
              /\ attempts'[j].kind = attempts[j].kind /\ attempts'[j].round = attempts[j].round
              /\ attempts'[j].status = IF j = i THEN status ELSE attempts[j].status
              /\ attempts'[j].result = IF j = i THEN result ELSE attempts[j].result
<1>1. attempts \in Seq(Attempt) /\ \A j \in DOMAIN attempts : attempts[j] \in Attempt
  BY DEF TypeOK
<1>2. attempts' = [attempts EXCEPT ![i] = [attempts[i] EXCEPT !.status = status, !.result = result]]
  BY <1>1 DEF SetAttempt, Attempt
<1>3. [attempts[i] EXCEPT !.status = status, !.result = result] \in Attempt
  BY <1>1 DEF Attempt
<1>4. attempts' \in Seq(Attempt) /\ DOMAIN attempts' = DOMAIN attempts /\ Len(attempts') = Len(attempts)
  BY <1>1, <1>2, <1>3
<1>5. ASSUME NEW j \in DOMAIN attempts
      PROVE  /\ attempts'[j].kind = attempts[j].kind /\ attempts'[j].round = attempts[j].round
             /\ attempts'[j].status = IF j = i THEN status ELSE attempts[j].status
             /\ attempts'[j].result = IF j = i THEN result ELSE attempts[j].result
  BY <1>1, <1>2 DEF Attempt
<1> QED
  BY <1>4, <1>5

\* The attempt a handler works at is the last one.
LEMMA LastAttempt ==
  ASSUME TypeOK, attempts # <<>>
  PROVE  Newest \in DOMAIN attempts
<1>1. attempts \in Seq(Attempt)
  BY DEF TypeOK
<1> QED
  BY <1>1 DEF Newest

\* The status alone leaves an attempt in its round.
LEMMA NewestKept ==
  ASSUME TypeOK, attempts # <<>>, NEW status \in {"prepared", "started", "failed", "recovered", "succeeded"},
         NEW result \in Outcome \cup Verdict \cup {NoResult}, SetAttempt(Newest, status, result)
  PROVE  /\ attempts' # <<>> /\ InRound(Newest)' = InRound(Newest) /\ st' = st
         /\ attempts'[Newest'].kind = attempts[Newest].kind
<1>1. Newest \in DOMAIN attempts
  BY LastAttempt
<1>2. /\ Len(attempts') = Len(attempts) /\ DOMAIN attempts' = DOMAIN attempts
      /\ attempts'[Newest].kind = attempts[Newest].kind /\ attempts'[Newest].round = attempts[Newest].round
  BY <1>1, AttemptSet
<1>3. attempts' # <<>>
  BY <1>1, <1>2
<1> QED
  BY <1>2, <1>3 DEF InRound, Newest, Round, SetAttempt, runVars

\* A new attempt is prepared behind the others.
LEMMA AttemptBegun ==
  ASSUME TypeOK, NEW kind \in Implementation \cup {"review"}, BeginAttempt(kind)
  PROVE  /\ attempts' \in Seq(Attempt) /\ Len(attempts') = Len(attempts) + 1 /\ attempts' # <<>>
         /\ DOMAIN attempts' = DOMAIN attempts \cup {Len(attempts) + 1}
         /\ \A j \in DOMAIN attempts : attempts'[j] = attempts[j]
         /\ attempts'[Len(attempts')] =
              [kind |-> kind, round |-> Round, status |-> "prepared", result |-> NoResult]
<1> DEFINE new == [kind |-> kind, round |-> Round, status |-> "prepared", result |-> NoResult]
<1>1. attempts \in Seq(Attempt) /\ attempts' = Append(attempts, new)
  BY DEF TypeOK, BeginAttempt
<1>2. new \in Attempt
  BY DEF Attempt, Round, TypeOK, Outcome, Verdict, NoResult
<1> HIDE DEF new
<1>3. /\ attempts' \in Seq(Attempt) /\ Len(attempts') = Len(attempts) + 1 /\ attempts' # <<>>
      /\ DOMAIN attempts' = DOMAIN attempts \cup {Len(attempts) + 1}
      /\ \A j \in DOMAIN attempts : attempts'[j] = attempts[j]
      /\ attempts'[Len(attempts')] = new
  BY <1>1, <1>2
<1> QED
  BY <1>3 DEF new

\* No handler runs, no record is there: the initial states.
LEMMA InitOK == Init => LocalInv
<1> SUFFICES ASSUME Init PROVE LocalInv
  OBVIOUS
<1>1. TypeOK
  <2>1. /\ st \in LocalStates /\ cand \in Heads \cup {NoHead} /\ session \in BOOLEAN /\ workspace \in BOOLEAN /\ expired \in BOOLEAN
    BY DEF Init, LocalStates
  <2>6. rows \in [Resource -> {"none", "reserved", "owned"}]
    BY DEF Init
  <2>7. troubles \in 0..MaxTroubles
    BY LocalBounds DEF Init
  <2>2. log \in [repairs : Seq(Heads), accepted : Seq(Nat)] /\ attempts \in Seq(Attempt) /\ commits \in Seq(CommitMetadata)
    BY DEF Init
  <2>3. /\ batch \in [head : Commit, repairs : Nat, ok : BOOLEAN]
        /\ review \in [head : Commit, repairs : Nat, verdict : Verdict]
        /\ fb \in [Heads -> [life : {"none", "selected_for_repair", "repair_verified"}, bound : Commit]]
    BY LocalBounds DEF Init, NoBatch, NoReview, Commit, NoHead, Verdict
  <2>4. disk \in [root : {"absent", "bare", "half", "marked"},
                  tree : {"absent", "bare", "ours"}, branch : BOOLEAN, others : SUBSET {"root", "tree"},
                  head : 0..MaxHead, dirt : 0..2, decisions : SUBSET Nat]
    BY LocalBounds DEF Init, Base
  <2>5. ctl \in [at : Step, decision : {NoResult, "repair", "human"}, k : Nat, head : Commit,
                 result : Outcome \cup Verdict \cup {NoResult, "reconcile"}]
    BY LocalBounds DEF Init, Idle, Commit, NoHead, Step, NoResult
  <2> QED
    BY <2>1, <2>2, <2>3, <2>4, <2>5, <2>6, <2>7 DEF TypeOK
<1>2. Records
  BY LocalBounds DEF Init, Records, Untouched, Round, Base
<1>4. Backed(st)
  BY DEF Init, Backed
<1>3. Working
  BY DEF Init, Idle, Working, Marking, Provisioning, Executing, Settling, Verifying, Reviewing,
     ProvisionAt, ExecuteAt, RecoverAt, DecideAt, VerifyAt, ReviewAt
<1> QED
  BY <1>1, <1>2, <1>3, <1>4 DEF LocalInv
-----------------------------------------------------------------------------
\* A handler that goes to another position, or returns, is still one.
LEMMA Moves ==
  ASSUME TypeOK
  PROVE  /\ ctl \in Control
         /\ \A step \in Step : Go(step) => ctl' \in Control /\ ctl'.at = step
         /\ Return => ctl' \in Control /\ ctl'.at = "idle"
         /\ \A step \in {"loop", "parked"} :
              [Idle EXCEPT !.at = step] \in Control /\ [Idle EXCEPT !.at = step].at = step
<1>1. ctl \in Control
  BY DEF TypeOK, Control
<1>2. Idle \in Control /\ Idle.at = "idle"
  BY LocalBounds DEF Idle, Control, Step, Commit, NoHead, NoResult
<1>3. ASSUME NEW step \in Step, Go(step) PROVE ctl' \in Control /\ ctl'.at = step
  BY <1>1, <1>3 DEF Control, Go
<1>4. \A step \in {"loop", "parked"} :
        [Idle EXCEPT !.at = step] \in Control /\ [Idle EXCEPT !.at = step].at = step
  BY <1>2 DEF Control, Step
<1> QED
  BY <1>1, <1>2, <1>3, <1>4 DEF Return

\* A handler that notes what it found on the way.
LEMMA Noted ==
  ASSUME TypeOK, NEW step \in Step
  PROVE  /\ \A k \in Nat :
              /\ ctl' = [ctl EXCEPT !.at = step, !.k = k] =>
                   ctl' \in Control /\ ctl'.at = step /\ ctl'.k = k
              /\ ctl' = [ctl EXCEPT !.k = k] => ctl' \in Control /\ ctl'.at = ctl.at
              /\ ctl' = [Idle EXCEPT !.at = step, !.k = k, !.result = "reconcile"] =>
                   ctl' \in Control /\ ctl'.at = step /\ ctl'.k = k /\ ctl'.result = "reconcile"
         /\ ctl' = [Idle EXCEPT !.at = step, !.result = "reconcile"] =>
              ctl' \in Control /\ ctl'.at = step /\ ctl'.result = "reconcile"
         /\ \A h \in Commit : ctl' = [ctl EXCEPT !.at = step, !.head = h] =>
              ctl' \in Control /\ ctl'.at = step /\ ctl'.head = h
         /\ \A r \in Outcome \cup Verdict \cup {NoResult} :
              ctl' = [ctl EXCEPT !.at = step, !.result = r] =>
                ctl' \in Control /\ ctl'.at = step /\ ctl'.result = r
         /\ \A r \in Outcome \cup Verdict \cup {NoResult}, h \in Commit :
              ctl' = [ctl EXCEPT !.at = step, !.result = r, !.head = h] =>
                ctl' \in Control /\ ctl'.at = step /\ ctl'.result = r /\ ctl'.head = h
<1>1. ctl \in Control
  BY DEF TypeOK, Control
<1>2. Idle \in Control
  BY LocalBounds DEF Idle, Control, Step, Commit, NoHead, NoResult
<1> QED
  BY <1>1, <1>2 DEF Control

\* No handler of the run's state is at work: nothing to keep for it.
LEMMA Unworked ==
  ASSUME ctl'.at \in Resting
  PROVE  Working'
BY DEF Resting, Working, Marking, Provisioning, Executing, Settling, Verifying, Reviewing,
   ProvisionAt, ExecuteAt, RecoverAt, DecideAt, VerifyAt, ReviewAt

\* Nothing but the state may have changed, to one the records back.
LEMMA Rests ==
  ASSUME LocalInv, OnlyState, KeepWorld, ctl' \in Control, ctl'.at \in Resting,
         Reliably \/ (\E name \in Fault : Trouble(name)),
         st' \in LocalStates, Backed(st')
  PROVE  LocalInv'
<1>1. TypeOK'
  <2>1. troubles' \in 0..MaxTroubles
    BY LocalBounds DEF LocalInv, TypeOK, Reliably, Trouble
  <2>2. expired' \in BOOLEAN
    BY DEF LocalInv, TypeOK, KeepWorld
  <2> QED
    BY <2>1, <2>2 DEF LocalInv, TypeOK, OnlyState, KeepWorld, logVars, proofVars, Control
<1>2. Records'
  BY DEF LocalInv, Records, Acceptable, Repairing, RepairBase, Expected, Round, OnlyState,
     KeepWorld, logVars
<1>3. Backed(st)'
  BY DEF Backed, AtCandidate, Clean, Repairs, OnlyState, KeepWorld, logVars, proofVars
<1>4. Working'
  BY Unworked
<1> QED
  BY <1>1, <1>2, <1>3, <1>4 DEF LocalInv

\* A handler that returns or goes on, with the run as it was or with the run stopped.
LEMMA Halted ==
  ASSUME LocalInv, OnlyState, KeepWorld, Reliably \/ (\E name \in Fault : Trouble(name)),
         \/ Return \/ ctl' = [Idle EXCEPT !.at = "parked"]
         \/ \E step \in Resting : Go(step)
         \/ ctl' = ctl /\ At("idle"),
         st' = st \/ (st # "received" /\ st' \in {"failed", "manual_intervention"})
  PROVE  LocalInv'
<1>1. ctl' \in Control /\ ctl'.at \in Resting
  BY Moves DEF LocalInv, Resting, Step, At
<1>2. st' \in LocalStates /\ Backed(st')
  BY DEF LocalInv, TypeOK, LocalStates, Backed
<1> QED
  BY <1>1, <1>2, Rests

\* A refusal only sends the handler to its error exit.
LEMMA Refused ==
  ASSUME LocalInv, Refuse
  PROVE  LocalInv'
<1>1. OnlyState /\ st' = st
  BY DEF Refuse, KeepStore, OnlyState, runVars
<1>2. Go("error") /\ KeepWorld /\ Reliably
  BY DEF Refuse
<1> QED
  BY <1>1, <1>2, Halted DEF Resting

\* The run enters a state the records back, and the loop goes round.
LEMMA Entered ==
  ASSUME LocalInv, NEW to \in LocalStates, Transition(to), KeepWorld, Reliably, Backed(to)
  PROVE  LocalInv'
<1>1. ctl' \in Control /\ ctl'.at \in Resting /\ OnlyState /\ st' = to
  BY Moves DEF LocalInv, Transition, Resting
<1> QED
  BY <1>1, Rests

\* Only the handler has moved.
LEMMA Went ==
  ASSUME LocalInv, KeepStore, KeepWorld, Reliably \/ (\E name \in Fault : Trouble(name)),
         ctl' \in Control, Working'
  PROVE  LocalInv'
<1>1. TypeOK'
  <2>1. troubles' \in 0..MaxTroubles
    BY LocalBounds DEF LocalInv, TypeOK, Reliably, Trouble
  <2>2. expired' \in BOOLEAN
    BY DEF LocalInv, TypeOK, KeepWorld
  <2> QED
    BY <2>1, <2>2 DEF LocalInv, TypeOK, KeepStore, KeepWorld, runVars, logVars, proofVars, Control
<1>2. Records'
  BY DEF LocalInv, Records, Acceptable, Repairing, RepairBase, Expected, Round, KeepStore,
     KeepWorld, runVars, logVars
<1>3. Backed(st)'
  BY DEF LocalInv, Backed, AtCandidate, Clean, Repairs, KeepStore, KeepWorld, runVars,
     logVars, proofVars
<1> QED
  BY <1>1, <1>2, <1>3 DEF LocalInv

\* A row of the run changes; the row of its directory is owned for good once it has
\* left received.
LEMMA RowKept ==
  ASSUME LocalInv, NEW r \in Resource, NEW status \in {"reserved", "owned"}, Own(r, status),
         r = "artifact_root" => status = "owned" \/ st = "received",
         KeepWorld, Reliably, ctl' \in Control, Working'
  PROVE  LocalInv'
<1>1. rows \in [Resource -> {"none", "reserved", "owned"}] /\ rows' = [rows EXCEPT ![r] = status]
  BY DEF LocalInv, TypeOK, Own
<1>2. rows' \in [Resource -> {"none", "reserved", "owned"}]
  BY <1>1
<1>3. /\ rows["worktree"] # "none" => rows'["worktree"] # "none"
      /\ st # "received" /\ rows["artifact_root"] = "owned" => rows'["artifact_root"] = "owned"
  BY <1>1 DEF Resource
<1>4. UNCHANGED <<st, cand, session, workspace, log, attempts, batch, review, fb, disk, commits, expired, troubles>>
  BY DEF Own, KeepWorld, Reliably, runVars, proofVars
<1>5. TypeOK'
  BY <1>2, <1>4 DEF LocalInv, TypeOK, Control
<1>6. Records'
  BY <1>3, <1>4 DEF LocalInv, Records, Acceptable, Repairing, RepairBase, Expected, Round
<1>7. Backed(st)'
  BY <1>3, <1>4 DEF LocalInv, Backed, AtCandidate, Clean, Repairs
<1> QED
  BY <1>5, <1>6, <1>7 DEF LocalInv

\* Something changes in the run's directories, and nothing the records rely on.
LEMMA DiskKept ==
  ASSUME LocalInv, KeepStore, UNCHANGED <<commits, expired>>,
         Reliably \/ (\E name \in Fault : Trouble(name)), ctl' \in Control, disk' \in Directories,
         Untouched(disk'), workspace => disk'.tree = "ours",
         st # "received" => disk'.root = "marked", disk'.head = disk.head,
         st = "approval_ready" => disk'.dirt = disk.dirt, Working'
  PROVE  LocalInv'
<1>1. UNCHANGED <<st, cand, session, workspace, rows, log, attempts, batch, review, fb>>
  BY DEF KeepStore, runVars, logVars, proofVars
<1>2. TypeOK'
  <2>1. troubles' \in 0..MaxTroubles
    BY LocalBounds DEF LocalInv, TypeOK, Reliably, Trouble
  <2> QED
    BY <1>1, <2>1 DEF LocalInv, TypeOK, Control, Directories
<1>3. Records'
  BY <1>1 DEF LocalInv, Records, Untouched, Acceptable, Repairing, RepairBase, Expected, Round
<1>4. Backed(st)'
  BY <1>1 DEF LocalInv, Backed, AtCandidate, Clean, Repairs
<1> QED
  BY <1>2, <1>3, <1>4 DEF LocalInv

\* An attempt is settled, an implementation only with its session recorded.
LEMMA Settled ==
  ASSUME LocalInv, NEW i \in DOMAIN attempts,
         NEW status \in {"prepared", "started", "failed", "recovered", "succeeded"},
         NEW result \in Outcome \cup Verdict \cup {NoResult}, SetAttempt(i, status, result),
         status = "succeeded" => session \/ attempts[i].kind = "review",
         KeepWorld, Reliably \/ (\E name \in Fault : Trouble(name)), ctl' \in Control, Working'
  PROVE  LocalInv'
<1>1. /\ attempts' \in Seq(Attempt) /\ DOMAIN attempts' = DOMAIN attempts
      /\ \A j \in DOMAIN attempts :
           /\ attempts'[j].kind = attempts[j].kind /\ attempts'[j].round = attempts[j].round
           /\ attempts'[j].status = IF j = i THEN status ELSE attempts[j].status
  BY AttemptSet DEF LocalInv
<1>2. UNCHANGED <<st, cand, session, workspace, rows, log, batch, review, fb, disk, commits, expired>>
  BY DEF SetAttempt, KeepWorld, runVars, proofVars
<1>3. TypeOK'
  <2>1. troubles' \in 0..MaxTroubles
    BY LocalBounds DEF LocalInv, TypeOK, Reliably, Trouble
  <2> QED
    BY <1>1, <1>2, <2>1 DEF LocalInv, TypeOK, Control
<1>4. Records'
  BY <1>1, <1>2 DEF LocalInv, Records, Acceptable, Repairing, RepairBase, Expected, Round,
     Implementation
<1>5. Backed(st)'
  BY <1>2 DEF LocalInv, Backed, AtCandidate, Clean, Repairs
<1> QED
  BY <1>3, <1>4, <1>5 DEF LocalInv

\* A new attempt of the round keeps the invariant (BeginAttempt).
LEMMA Begun ==
  ASSUME LocalInv, NEW kind \in Implementation \cup {"review"}, BeginAttempt(kind),
         KeepWorld, Reliably, ctl' \in Control, Working'
  PROVE  LocalInv'
<1>1. /\ attempts' \in Seq(Attempt) /\ Len(attempts') = Len(attempts) + 1
      /\ DOMAIN attempts' = DOMAIN attempts \cup {Len(attempts) + 1}
      /\ \A j \in DOMAIN attempts : attempts'[j] = attempts[j]
      /\ attempts'[Len(attempts')] =
           [kind |-> kind, round |-> Round, status |-> "prepared", result |-> NoResult]
  BY AttemptBegun DEF LocalInv
<1>2. UNCHANGED <<st, cand, session, workspace, rows, log, batch, review, fb, disk, commits, expired, troubles>>
  BY DEF BeginAttempt, KeepWorld, Reliably, runVars, proofVars
<1>3. TypeOK'
  BY <1>1, <1>2 DEF LocalInv, TypeOK, Control
<1>4. Round \in Nat /\ Round' = Round
  BY <1>2 DEF LocalInv, TypeOK, Round
<1>5. \A i \in DOMAIN attempts' : attempts'[i].round <= Round'
  BY <1>1, <1>4 DEF LocalInv, Records
<1>6. \A i \in DOMAIN attempts' :
        attempts'[i].kind \in Implementation /\ attempts'[i].status = "succeeded" => session'
  BY <1>1, <1>2 DEF LocalInv, Records
<1>7. Records'
  BY <1>2, <1>4, <1>5, <1>6 DEF LocalInv, Records, Acceptable, Repairing, RepairBase, Expected
<1>8. Backed(st)'
  BY <1>2 DEF LocalInv, Backed, AtCandidate, Clean, Repairs
<1> QED
  BY <1>3, <1>7, <1>8 DEF LocalInv

\* The worktree's status and head change, and nothing else of the directories.
LEMMA DirtMoved ==
  ASSUME NEW d \in Directories, NEW n \in 0..2
  PROVE  LET e == [d EXCEPT !.dirt = n]
         IN  e \in Directories /\ e.tree = d.tree /\ e.branch = d.branch /\ e.root = d.root
             /\ e.others = d.others /\ e.head = d.head
BY DEF Directories

\* A worktree that moves to a new head is still a directory of its shape.
LEMMA HeadMoved ==
  ASSUME NEW d \in Directories, NEW h \in 0..MaxHead
  PROVE  LET e == [d EXCEPT !.head = h, !.dirt = 0]
         IN  e \in Directories /\ e.tree = d.tree /\ e.branch = d.branch /\ e.root = d.root
             /\ e.others = d.others /\ e.head = h
<1> DEFINE f == [d EXCEPT !.head = h]
<1>1. f \in Directories /\ f.tree = d.tree /\ f.branch = d.branch /\ f.root = d.root
      /\ f.others = d.others /\ f.head = h
  BY LocalBounds DEF Directories
<1>2. [d EXCEPT !.head = h, !.dirt = 0] = [f EXCEPT !.dirt = 0]
  OBVIOUS
<1>3. 0 \in 0..2
  OBVIOUS
<1> HIDE DEF f
<1> QED
  BY <1>1, <1>2, <1>3, DirtMoved, ZenonT(60)

\* A commit is made behind the others.
LEMMA Committed ==
  ASSUME LocalInv, NEW subject \in {"candidate", "other"}, Len(commits) < MaxHead,
         commits' = Append(commits, [parent |-> disk.head, subject |-> subject]),
         disk' = [disk EXCEPT !.head = Len(commits) + 1, !.dirt = 0],
         KeepStore, UNCHANGED expired, Reliably \/ (\E name \in Fault : Trouble(name)),
         st # "approval_ready", ctl' \in Control, Working'
  PROVE  LocalInv'
<1>1. /\ commits' \in Seq(CommitMetadata) /\ Len(commits') = Len(commits) + 1
      /\ \A h \in DOMAIN commits : h \in DOMAIN commits' /\ commits'[h] = commits[h]
  <2>1. commits \in Seq(CommitMetadata) /\ disk.head \in 0..MaxHead
    BY DEF LocalInv, TypeOK
  <2>2. [parent |-> disk.head, subject |-> subject] \in CommitMetadata
    BY <2>1 DEF CommitMetadata
  <2> QED
    BY <2>1, <2>2
<1>2. /\ disk' \in Directories /\ disk'.tree = disk.tree /\ disk'.branch = disk.branch
      /\ disk'.root = disk.root /\ disk'.others = disk.others /\ disk'.head = Len(commits) + 1
  <2>1. commits \in Seq(CommitMetadata) /\ disk \in Directories
    BY DEF LocalInv, TypeOK, Directories
  <2>2. MaxHead \in Nat /\ Len(commits) \in Nat
    BY <2>1, LocalBounds
  <2>3. Len(commits) + 1 \in 0..MaxHead
    BY <2>2
  <2> QED
    BY <2>1, <2>3, HeadMoved
<1>3. UNCHANGED <<st, cand, session, workspace, rows, log, attempts, batch, review, fb>>
  BY DEF KeepStore, runVars, logVars, proofVars
<1>4. TypeOK'
  <2>1. troubles' \in 0..MaxTroubles
    BY LocalBounds, SMTT(30) DEF LocalInv, TypeOK, Reliably, Trouble
  <2> QED
    BY <1>1, <1>2, <1>3, <2>1 DEF LocalInv, TypeOK, Control, Directories
<1>5. cand # NoHead => Acceptable(cand)'
  BY <1>1, <1>3 DEF LocalInv, Records, Acceptable, Repairing, RepairBase, Expected
<1>6. Records'
  <2>1. Len(commits') <= MaxHead /\ disk'.head <= Len(commits')
    <3>1. commits \in Seq(CommitMetadata)
      BY DEF LocalInv, TypeOK
    <3>2. MaxHead \in Nat /\ Len(commits) \in Nat
      BY <3>1, LocalBounds
    <3> QED
      BY <1>1, <1>2, <3>2
  <2> QED
    BY <1>2, <1>3, <1>5, <2>1 DEF LocalInv, Records, Untouched, Round
<1>7. Backed(st)'
  BY <1>2, <1>3 DEF LocalInv, Backed
<1> QED
  BY <1>4, <1>6, <1>7 DEF LocalInv

\* The commit the controller makes on the head it has to follow.
LEMMA OwnCommit ==
  ASSUME TypeOK, NEW n \in Nat, n = Len(commits) + 1, disk.head = Expected, UNCHANGED log,
         commits' = Append(commits, [parent |-> disk.head, subject |-> "candidate"])
  PROVE  Acceptable(n)'
<1>1. commits \in Seq(CommitMetadata)
  BY DEF TypeOK
<1>2. n \in DOMAIN commits' /\ commits'[n] = [parent |-> Expected, subject |-> "candidate"]
  BY <1>1
<1>3. Expected' = Expected
  BY DEF Expected, Repairing, RepairBase
<1> QED
  BY <1>2, <1>3 DEF Acceptable

\* A verifier leaves changes in the worktree.
LEMMA MutatedKept ==
  ASSUME LocalInv, Mutated, KeepStore, st = "verifying", ctl' \in Control, Working'
  PROVE  LocalInv'
<1>1. disk \in Directories
  BY DEF LocalInv, TypeOK, Directories
<1>2. /\ disk' \in Directories /\ disk'.tree = disk.tree /\ disk'.branch = disk.branch
      /\ disk'.root = disk.root /\ disk'.others = disk.others /\ disk'.head = disk.head
  <2>1. disk' = [disk EXCEPT !.dirt = 2] /\ 2 \in 0..2
    BY DEF Mutated
  <2> QED
    BY <1>1, <2>1, DirtMoved
<1>3. UNCHANGED <<commits, expired>> /\ Reliably
  BY DEF Mutated
<1>4. /\ Untouched(disk)
      /\ workspace => disk.tree = "ours"
      /\ disk.root = "marked"
  BY DEF LocalInv, Records, Backed
<1> QED
  BY <1>2, <1>3, <1>4, DiskKept DEF Untouched

\* A repair began from a head.
LEMMA BaseOfRepair ==
  ASSUME TypeOK, Repairing
  PROVE  RepairBase \in Heads /\ RepairBase \in Commit
<1>1. log.repairs \in Seq(Heads) /\ log.repairs # <<>>
  BY DEF TypeOK, Repairing
<1>2. RepairBase \in Heads
  BY <1>1 DEF RepairBase
<1> QED
  BY <1>2, LocalBounds DEF Heads, Commit, NoHead

-----------------------------------------------------------------------------

\* The run's directory, reserved, created, marked and owned (ensureArtifactRoot).
LEMMA RootKept == LocalInv /\ RootStep => LocalInv'
<1> SUFFICES ASSUME LocalInv, RootStep PROVE LocalInv'
  OBVIOUS
<1>1. CASE Enter
  BY <1>1, Halted DEF Enter, KeepStore, runVars, OnlyState, Resting
<1>2. CASE LookAtRoot
  <2>1. ctl' \in Control /\ ctl'.at \in {"root_reserve", "root_make"}
    BY <1>2, Moves DEF LocalInv, LookAtRoot, Step
  <2>2. st = "received" /\ st' = st
    BY <1>2 DEF LocalInv, Backed, LookAtRoot, KeepStore, runVars
  <2>3. Working'
    BY <2>1, <2>2 DEF Working, Marking, Provisioning, Executing, Settling, Verifying,
       Reviewing, ProvisionAt, ExecuteAt, RecoverAt, DecideAt, VerifyAt, ReviewAt
  <2> QED
    BY <1>2, <2>1, <2>3, Went DEF LookAtRoot
<1>3. CASE ReserveRoot
  <2>1. ctl' \in Control /\ Working'
    BY <1>3, Moves, Unworked DEF LocalInv, ReserveRoot, Step, Resting
  <2>2. st = "received"
    BY <1>3 DEF LocalInv, Working, Marking, ReserveRoot, At
  <2> QED
    BY <1>3, <2>1, <2>2, RowKept DEF ReserveRoot, Resource
<1>4. CASE MakeRoot
  <2>1. CASE disk.root # "absent"
    BY <1>4, <2>1, Refused DEF MakeRoot
  <2>2. CASE disk.root = "absent"
    <3>1. ctl' \in Control /\ Working' /\ st = "received"
      BY <1>4, <2>2, Moves, Unworked DEF LocalInv, Backed, MakeRoot, Step, Resting
    <3>2. /\ disk' \in Directories /\ disk'.tree = disk.tree /\ disk'.branch = disk.branch
          /\ disk'.others = disk.others /\ disk'.root = "bare" /\ disk'.head = disk.head
      <4>1. disk \in Directories /\ disk' = [disk EXCEPT !.root = "bare"]
        BY <1>4, <2>2 DEF LocalInv, TypeOK, Directories, MakeRoot
      <4> QED
        BY <4>1 DEF Directories
    <3>3. Untouched(disk')
      BY <3>2 DEF LocalInv, Records, Untouched
    <3>4. /\ KeepStore /\ UNCHANGED <<commits, expired>> /\ Reliably
          /\ workspace => disk'.tree = "ours"
      BY <1>4, <2>2, <3>2 DEF LocalInv, Records, MakeRoot
    <3> QED
      BY <3>1, <3>2, <3>3, <3>4, DiskKept
  <2> QED
    BY <2>1, <2>2
<1>5. CASE CreateMarker
  <2>1. ctl' \in Control /\ ctl'.at = "root_write" /\ st = "received"
    BY <1>5, Moves DEF LocalInv, Backed, CreateMarker, Vacant, Step
  <2>2. /\ disk' \in Directories /\ disk'.tree = disk.tree /\ disk'.branch = disk.branch
        /\ disk'.others = disk.others /\ disk'.root = "half" /\ disk'.head = disk.head
    BY <1>5 DEF LocalInv, TypeOK, Directories, CreateMarker
  <2>3. Untouched(disk')
    BY <1>5, <2>2 DEF LocalInv, Records, Untouched, CreateMarker, Vacant
  <2>4. Working'
    BY <2>1, <2>2 DEF Working, Marking, Provisioning, Executing, Settling, Verifying,
       Reviewing, ProvisionAt, ExecuteAt, RecoverAt, DecideAt, VerifyAt, ReviewAt
  <2> QED
    BY <1>5, <2>1, <2>2, <2>3, <2>4, DiskKept DEF LocalInv, Records, CreateMarker
<1>8. CASE WriteMarker
  <2>1. ctl' \in Control /\ Working'
    BY <1>8, Moves, Unworked DEF LocalInv, WriteMarker, Step, Resting
  <2>2. /\ disk' \in Directories /\ disk'.tree = disk.tree /\ disk'.branch = disk.branch
        /\ disk'.others = disk.others /\ disk'.root = "marked" /\ disk'.head = disk.head
        /\ disk'.dirt = disk.dirt
    BY <1>8 DEF LocalInv, TypeOK, Directories, WriteMarker
  <2>3. Untouched(disk')
    BY <1>8, <2>2 DEF LocalInv, Records, Untouched, WriteMarker, At, Working, Marking
  <2> QED
    BY <1>8, <2>1, <2>2, <2>3, DiskKept DEF LocalInv, Records, WriteMarker
<1>6. CASE OwnRoot
  <2>1. ctl' \in Control /\ Working'
    BY <1>6, Moves, Unworked DEF LocalInv, OwnRoot, Step, Resting
  <2> QED
    BY <1>6, <2>1, RowKept DEF OwnRoot, Resource
<1>7. CASE RefuseRoot
  BY <1>7, Refused DEF RefuseRoot
<1> QED
  BY <1>1, <1>2, <1>3, <1>4, <1>5, <1>6, <1>7, <1>8 DEF RootStep

\* The branch and the worktree, reserved, made or found, and owned (provision).
LEMMA ProvisionKept == LocalInv /\ ProvisionStep => LocalInv'
<1> SUFFICES ASSUME LocalInv, ProvisionStep PROVE LocalInv'
  OBVIOUS
<1>1. CASE ReserveBranch
  <2>1. CASE Refuse
    BY <2>1, Refused
  <2>2. CASE Own("branch", "reserved") /\ Go("reserve_worktree") /\ KeepWorld /\ Reliably
    <3>1. ctl' \in Control /\ ctl'.at = "reserve_worktree"
      BY <2>2, Moves DEF LocalInv, Step
    <3>2. Working'
      BY <1>1, <2>2, <3>1 DEF LocalInv, ReserveBranch, At, Own, runVars, Working, Marking,
         Provisioning, Executing, Settling, Verifying, Reviewing, ProvisionAt, ExecuteAt,
         RecoverAt, DecideAt, VerifyAt, ReviewAt
    <3> QED
      BY <2>2, <3>1, <3>2, RowKept DEF Resource
  <2> QED
    BY <1>1, <2>1, <2>2 DEF ReserveBranch
<1>2. CASE ReserveWorktree
  <2>1. ctl' \in Control /\ ctl'.at = "make"
    BY <1>2, Moves DEF LocalInv, ReserveWorktree, Step
  <2>2. Working'
    BY <1>2, <2>1 DEF LocalInv, TypeOK, ReserveWorktree, At, Own, Resource, runVars,
       Working, Marking, Provisioning, Executing, Settling, Verifying, Reviewing, ProvisionAt,
       ExecuteAt, RecoverAt, DecideAt, VerifyAt, ReviewAt
  <2> QED
    BY <1>2, <2>1, <2>2, RowKept DEF ReserveWorktree, Resource
<1>3. CASE ReuseWorkspace
  <2>1. ctl' \in Control /\ ctl'.at = "provisioned"
    BY <1>3, Moves DEF LocalInv, ReuseWorkspace, Step
  <2>2. Working'
    BY <1>3, <2>1 DEF LocalInv, ReuseWorkspace, At, ValidateOwned, KeepStore, KeepWorld,
       runVars, logVars, proofVars, Working, Marking, Provisioning, Executing, Settling, Verifying,
       Reviewing, ProvisionAt, ExecuteAt, RecoverAt, DecideAt, VerifyAt, ReviewAt
  <2> QED
    BY <1>3, <2>1, <2>2, Went DEF ReuseWorkspace
<1>4. CASE RecoverWorktree
  <2>1. ctl' \in Control /\ ctl'.at = "set_workspace"
    BY <1>4, Moves DEF LocalInv, RecoverWorktree, Step
  <2>2. Working'
    BY <1>4, <2>1 DEF LocalInv, RecoverWorktree, At, ValidateOwned, KeepStore, KeepWorld,
       runVars, logVars, proofVars, Working, Marking, Provisioning, Executing, Settling, Verifying,
       Reviewing, ProvisionAt, ExecuteAt, RecoverAt, DecideAt, VerifyAt, ReviewAt
  <2> QED
    BY <1>4, <2>1, <2>2, Went DEF RecoverWorktree
<1>5. CASE RefuseWorktree
  BY <1>5, Refused DEF RefuseWorktree
<1>6. CASE Provision
  <2>1. ctl' \in Control /\ ctl'.at = "add"
    BY <1>6, Moves DEF LocalInv, Provision, Step
  <2>2. Working'
    BY <1>6, <2>1 DEF LocalInv, Provision, At, KeepStore, KeepWorld, runVars, logVars, proofVars,
       Working, Marking, Provisioning, Executing, Settling, Verifying, Reviewing, ProvisionAt,
       ExecuteAt, RecoverAt, DecideAt, VerifyAt, ReviewAt
  <2> QED
    BY <1>6, <2>1, <2>2, Went DEF Provision
<1>11. CASE AddWorktree
  <2> DEFINE made == [disk EXCEPT !.branch = TRUE, !.tree = "ours"]
             left == [disk EXCEPT !.branch = TRUE]
  <2>1. disk \in Directories /\ st = "provisioning" /\ rows["worktree"] # "none"
    BY <1>11 DEF LocalInv, TypeOK, Directories, Working, Provisioning, ProvisionAt, AddWorktree, At
  <2>2. /\ made \in Directories /\ made.tree = "ours" /\ made.branch /\ made.root = disk.root
        /\ made.head = disk.head /\ made.others = disk.others
        /\ left \in Directories /\ left.tree = disk.tree /\ left.branch /\ left.root = disk.root
        /\ left.head = disk.head /\ left.others = disk.others
    BY <2>1 DEF Directories
  <2>3. disk.root = "marked" /\ Untouched(disk) /\ (workspace => disk.tree = "ours")
    BY <2>1 DEF LocalInv, Backed, Records
  <2> HIDE DEF made, left
  <2>4. CASE "tree" \notin disk.others /\ disk' = made /\ Go("set_workspace") /\ Reliably
    <3>1. ctl' \in Control /\ ctl'.at = "set_workspace"
      BY <2>4, Moves DEF LocalInv, Step
    <3>2. Working'
      BY <1>11, <2>1, <2>2, <2>4, <3>1 DEF AddWorktree, KeepStore, KeepWorld, runVars, logVars,
         proofVars, Working, Marking, Provisioning, Executing, Settling, Verifying, Reviewing,
         ProvisionAt, ExecuteAt, RecoverAt, DecideAt, VerifyAt, ReviewAt
    <3>3. Untouched(disk')
      BY <2>2, <2>3, <2>4 DEF Untouched
    <3> QED
      BY <1>11, <2>1, <2>2, <2>3, <2>4, <3>1, <3>2, <3>3, DiskKept DEF AddWorktree
  <2>5. CASE /\ disk' = left
             /\ \/ Reliably /\ Go("error")
                \/ Trouble("call") /\ Go("error")
                \/ Trouble("crash") /\ Return
    <3>1. ctl' \in Control /\ Working'
      BY <2>5, Moves, Unworked DEF LocalInv, Step, Resting
    <3>2. Untouched(disk')
      BY <2>2, <2>3, <2>5 DEF Untouched
    <3> QED
      BY <1>11, <2>1, <2>2, <2>3, <2>5, <3>1, <3>2, DiskKept DEF AddWorktree, Fault
  <2> QED
    BY <1>11, <2>4, <2>5 DEF AddWorktree, made, left
<1>7. CASE SetWorkspace
  <2>1. /\ ctl' \in Control /\ ctl'.at = "own_branch"
        /\ st = "provisioning" /\ rows["worktree"] # "none" /\ disk.tree = "ours"
    BY <1>7, Moves DEF LocalInv, Working, Provisioning, ProvisionAt, SetWorkspace, At, Step
  <2>2. TypeOK'
    BY <1>7, <2>1 DEF LocalInv, TypeOK, SetWorkspace, KeepWorld, Reliably, logVars,
       proofVars, Control
  <2>3. Records'
    BY <1>7, <2>1 DEF LocalInv, Records, Acceptable, Repairing, RepairBase, Expected, Round,
       SetWorkspace, KeepWorld, logVars
  <2>4. Backed(st)'
    BY <1>7 DEF LocalInv, Backed, AtCandidate, Clean, Repairs, SetWorkspace, KeepWorld,
       logVars, proofVars
  <2>5. Working'
    BY <1>7, <2>1 DEF SetWorkspace, KeepWorld, logVars, Working, Marking, Provisioning, Executing,
       Settling, Verifying, Reviewing, ProvisionAt, ExecuteAt, RecoverAt, DecideAt,
       VerifyAt, ReviewAt
  <2> QED
    BY <2>2, <2>3, <2>4, <2>5 DEF LocalInv
<1>8. CASE OwnBranch
  <2>1. ctl' \in Control /\ ctl'.at = "own_worktree"
    BY <1>8, Moves DEF LocalInv, OwnBranch, Step
  <2>2. Working'
    BY <1>8, <2>1 DEF LocalInv, TypeOK, OwnBranch, At, Own, Resource, KeepWorld, runVars,
       Working, Marking, Provisioning, Executing, Settling, Verifying, Reviewing, ProvisionAt,
       ExecuteAt, RecoverAt, DecideAt, VerifyAt, ReviewAt
  <2> QED
    BY <1>8, <2>1, <2>2, RowKept DEF OwnBranch, Resource
<1>9. CASE OwnWorktree
  <2>1. ctl' \in Control /\ ctl'.at = "provisioned"
    BY <1>9, Moves DEF LocalInv, OwnWorktree, Step
  <2>2. Working'
    BY <1>9, <2>1 DEF LocalInv, TypeOK, OwnWorktree, At, Own, Resource, KeepWorld, runVars,
       Working, Marking, Provisioning, Executing, Settling, Verifying, Reviewing, ProvisionAt,
       ExecuteAt, RecoverAt, DecideAt, VerifyAt, ReviewAt
  <2> QED
    BY <1>9, <2>1, <2>2, RowKept DEF OwnWorktree, Resource
<1>10. CASE Provisioned
  <2>1. Backed("executing")
    BY <1>10 DEF LocalInv, Backed, Working, Provisioning, ProvisionAt, Provisioned, At
  <2> QED
    BY <1>10, <2>1, Entered DEF Provisioned, LocalStates
<1> QED
  BY <1>1, <1>2, <1>3, <1>4, <1>5, <1>6, <1>7, <1>8, <1>9, <1>10, <1>11 DEF ProvisionStep

\* The implementation round: launches, the outcome and the session it saves, the
\* recovery of an interrupted attempt and what the outcome does to the run (execute).
LEMMA ExecuteKept == LocalInv /\ ExecuteStep => LocalInv'
<1> SUFFICES ASSUME LocalInv, ExecuteStep PROVE LocalInv'
  OBVIOUS
<1> USE DEF Do
<1>1. CASE FailUnlaunched
  <2>1. PICK i \in DOMAIN attempts : Finish(i, "failed") /\ ctl' = [ctl EXCEPT !.k = i - 1]
    BY <1>1 DEF FailUnlaunched
  <2>2. i - 1 \in Nat /\ attempts[i].result \in Outcome \cup Verdict \cup {NoResult}
    BY AttemptTyped, SMTT(30) DEF LocalInv
  <2>3. ctl' \in Control /\ ctl'.at = "execute"
    BY <1>1, <2>1, <2>2, Noted DEF LocalInv, Step, FailUnlaunched, At
  <2>4. Working'
    BY <1>1, <2>3 DEF LocalInv, FailUnlaunched, At, Finish, SetAttempt, KeepWorld, runVars,
       proofVars, Working, Marking, Provisioning, Executing, Settling, Verifying, Reviewing,
       ProvisionAt, ExecuteAt, RecoverAt, DecideAt, VerifyAt, ReviewAt
  <2> QED
    BY <1>1, <2>1, <2>2, <2>3, <2>4, Settled DEF Finish, FailUnlaunched
<1>2. CASE FindInterrupted
  <2>1. PICK i \in DOMAIN attempts :
          \/ ctl' = [ctl EXCEPT !.at = "recover", !.k = i] /\ KeepStore
          \/ ctl' = [ctl EXCEPT !.at = "lost"] /\ Finish(i, "failed")
    BY <1>2 DEF FindInterrupted
  <2>2. i \in Nat /\ attempts[i].result \in Outcome \cup Verdict \cup {NoResult} /\ st = "executing"
    BY <1>2, AttemptTyped DEF LocalInv, FindInterrupted, At, Working, Executing, ExecuteAt
  <2>3. CASE ctl' = [ctl EXCEPT !.at = "recover", !.k = i] /\ KeepStore
    <3>a. "recover" \in Step /\ TypeOK
      BY DEF Step, LocalInv
    <3>b. i \in Nat /\ ctl' = [ctl EXCEPT !.at = "recover", !.k = i]
      BY <2>2, <2>3
    <3>1. ctl' \in Control /\ ctl'.at = "recover" /\ ctl'.k = i
      BY ONLY <3>a, <3>b, Noted, ZenonT(60)
    <3>2. Working'
      BY <1>2, <2>2, <2>3, <3>1 DEF RepairStates, FindInterrupted, KeepStore, KeepWorld,
         runVars, logVars, proofVars, Working, Marking, Provisioning, Executing, Settling, Verifying,
         Reviewing, ProvisionAt, ExecuteAt, RecoverAt, DecideAt, VerifyAt, ReviewAt
    <3> QED
      BY <1>2, <2>3, <3>1, <3>2, Went DEF FindInterrupted
  <2>4. CASE ctl' = [ctl EXCEPT !.at = "lost"] /\ Finish(i, "failed")
    <3>1. ctl' \in Control /\ ctl'.at = "lost"
      BY <2>4, Moves DEF LocalInv, Step, Go
    <3>2. Working'
      BY <2>2, <2>4, <3>1 DEF RepairStates, Finish, SetAttempt, runVars, Working, Marking,
         Provisioning, Executing, Settling, Verifying, Reviewing, ProvisionAt, ExecuteAt,
         RecoverAt, DecideAt, VerifyAt, ReviewAt
    <3> QED
      BY <1>2, <2>2, <2>4, <3>1, <3>2, Settled DEF Finish, FindInterrupted
  <2> QED
    BY <2>1, <2>3, <2>4
<1>3. CASE ReuseOutcome
  <2>1. PICK i \in DOMAIN attempts :
          Current(i) /\ Reusable(i) /\ ctl' = [ctl EXCEPT !.at = "apply", !.result = attempts[i].result]
    BY <1>3 DEF ReuseOutcome
  <2>2. attempts[i].result \in Outcome \cup Verdict \cup {NoResult} /\ st = "executing"
    BY <1>3, AttemptTyped DEF LocalInv, ReuseOutcome, At, Working, Executing, ExecuteAt
  <2>3. ctl' \in Control /\ ctl'.at = "apply" /\ ctl'.result = attempts[i].result
    BY <2>1, <2>2, Noted, ZenonT(60) DEF LocalInv, Step
  <2>4. InRound(i) /\ attempts[i].status = "succeeded"
    <3>1. attempts[i].kind \in Implementation /\ attempts[i].status = "succeeded"
      BY <2>1 DEF Current, LastImplementation, Reusable
    <3>2. session /\ attempts[i].round \in Nat /\ attempts[i].round <= Round
      BY <3>1, AttemptTyped DEF LocalInv, Records
    <3>3. Instructions = NoResult => log.repairs = <<>> /\ log.accepted = <<>>
      BY <3>2 DEF Instructions, Repairing, NoResult
    <3>4. Instructions = NoResult => Len(log.repairs) = 0 /\ Len(log.accepted) = 0
      BY <3>3, Len(<<>>) = 0, Zenon
    <3>5. Instructions = NoResult => Round = 0
      BY <3>4, 0 + 0 = 0, Zenon DEF Round
    <3> QED
      BY <2>1, <3>1, <3>2, <3>5 DEF Reusable, InRound
  <2>5. session
    BY <2>1, <2>4 DEF LocalInv, Records, InRound
  <2>6. Working'
    BY <1>3, <2>2, <2>3, <2>4, <2>5 DEF ReuseOutcome, InRound, Round, KeepStore, KeepWorld,
       runVars, logVars, proofVars, Working, Marking, Provisioning, Executing, Settling, Verifying,
       Reviewing, ProvisionAt, ExecuteAt, RecoverAt, DecideAt, VerifyAt, ReviewAt
  <2> QED
    BY <1>3, <2>3, <2>6, Went DEF ReuseOutcome
<1>4. CASE RefuseResume
  BY <1>4, Refused DEF RefuseResume
<1>5. CASE BeginImplementation
  <2>1. ctl' \in Control /\ ctl'.at = "launch" /\ st = "executing"
    BY <1>5, Moves DEF LocalInv, BeginImplementation, Step, At, Working, Executing, ExecuteAt
  <2>2. PICK kind \in Implementation : BeginAttempt(kind)
    BY <1>5 DEF BeginImplementation, Implementation
  <2>3. /\ attempts' # <<>>
        /\ attempts'[Len(attempts')].kind = kind /\ attempts'[Len(attempts')].round = Round
    <3>1. /\ attempts' # <<>>
          /\ attempts'[Len(attempts')] =
               [kind |-> kind, round |-> Round, status |-> "prepared", result |-> NoResult]
      BY <2>2, AttemptBegun DEF LocalInv
    <3> QED
      BY <3>1
  <2>4. Round' = Round
    BY <2>2 DEF BeginAttempt, Round
  <2>5. Working'
    BY <2>1, <2>2, <2>3, <2>4 DEF BeginAttempt, InRound, Newest, runVars, Working, Marking,
       Provisioning, Executing, Settling, Verifying, Reviewing, ProvisionAt, ExecuteAt,
       RecoverAt, DecideAt, VerifyAt, ReviewAt
  <2> QED
    BY <1>5, <2>1, <2>2, <2>5, Begun DEF BeginImplementation
<1>6. CASE CommitAttemptProcessLaunch
  <2>1. attempts # <<>> /\ Newest \in DOMAIN attempts
    BY <1>6, LastAttempt DEF LocalInv, CommitAttemptProcessLaunch, At, Working, Executing,
       Reviewing,
       ExecuteAt, ReviewAt
  <2>2. /\ SetAttempt(Newest, "started", attempts[Newest].result)
        /\ attempts[Newest].result \in Outcome \cup Verdict \cup {NoResult}
    BY <1>6, <2>1, AttemptTyped DEF LocalInv, CommitAttemptProcessLaunch, Finish
  <2>3. /\ ctl' \in Control
        /\ \/ At("launch") /\ ctl'.at = "child"
           \/ At("review_launch") /\ ctl'.at = "review_child"
    BY <1>6, Moves DEF LocalInv, CommitAttemptProcessLaunch, Step
  <2>4. Working'
    BY <1>6, <2>1, <2>2, <2>3, NewestKept DEF LocalInv, At, Working, Marking, Provisioning,
       Executing, Settling, Verifying, Reviewing, ProvisionAt, ExecuteAt, RecoverAt,
       DecideAt, VerifyAt, ReviewAt
  <2> QED
    BY <1>6, <2>1, <2>2, <2>3, <2>4, Settled DEF CommitAttemptProcessLaunch
<1>7. CASE CodexEnds
  <2>1. PICK result \in Outcome : ctl' = [ctl EXCEPT !.at = "save_session", !.result = result]
    BY <1>7 DEF CodexEnds
  <2>2. ctl' \in Control /\ ctl'.at = "save_session" /\ ctl'.result = result
    BY <2>1, Noted DEF LocalInv, Step
  <2>3. /\ st = "executing" /\ attempts # <<>> /\ InRound(Newest)
        /\ UNCHANGED <<st, attempts, log>>
    BY <1>7 DEF LocalInv, CodexEnds, At, Working, Executing, ExecuteAt, KeepStore, runVars, logVars
  <2>4. Working'
    BY <2>2, <2>3 DEF InRound, Newest, Round, Working, Marking, Provisioning, Executing, Settling,
       Verifying, Reviewing, ProvisionAt, ExecuteAt, RecoverAt, DecideAt, VerifyAt, ReviewAt
  <2>5. CASE \E dirt \in 0..1 : disk' = [disk EXCEPT !.dirt = dirt] /\ UNCHANGED commits /\ Reliably
    <3>1. PICK dirt \in 0..2 : disk' = [disk EXCEPT !.dirt = dirt]
      BY <2>5
    <3>2. disk \in Directories
      BY DEF LocalInv, TypeOK, Directories
    <3>3. /\ disk' \in Directories /\ disk'.tree = disk.tree /\ disk'.branch = disk.branch
          /\ disk'.root = disk.root /\ disk'.others = disk.others /\ disk'.head = disk.head
      BY <3>1, <3>2, DirtMoved
    <3>4. Untouched(disk')
      BY <3>3 DEF LocalInv, Records, Untouched
    <3> QED
      BY <1>7, <2>2, <2>3, <2>4, <2>5, <3>3, <3>4, DiskKept DEF LocalInv, Records, Backed, CodexEnds
  <2>6. CASE /\ Len(commits) < MaxHead /\ Trouble("commit")
             /\ \E subject \in {"candidate", "other"} :
                  commits' = Append(commits, [parent |-> disk.head, subject |-> subject])
             /\ disk' = [disk EXCEPT !.head = Len(commits) + 1, !.dirt = 0]
    BY <1>7, <2>2, <2>3, <2>4, <2>6, Committed DEF CodexEnds, Fault
  <2> QED
    BY <1>7, <2>5, <2>6 DEF CodexEnds
<1>8. CASE SetImplementationSession
  <2>1. /\ ctl' \in Control /\ ctl'.k = ctl.k /\ ctl'.result = ctl.result
        /\ \/ At("save_session") /\ ctl'.at = "finish"
           \/ At("recover") /\ ctl'.at = "recovered"
    <3>1. ctl \in Control
      BY DEF LocalInv, TypeOK, Control
    <3> QED
      BY <1>8, <3>1 DEF SetImplementationSession, Go, Control, Step
  <2>2. UNCHANGED <<st, cand, workspace, rows, log, attempts, batch, review, fb, disk, commits, expired, troubles>>
    BY <1>8 DEF SetImplementationSession, KeepWorld, Reliably, logVars, proofVars
  <2>3. TypeOK'
    BY <1>8, <2>1, <2>2 DEF LocalInv, TypeOK, SetImplementationSession, Control
  <2>4. Records'
    <3>1. session'
      BY <1>8 DEF SetImplementationSession
    <3>2. Acceptable(cand)' <=> Acceptable(cand)
      BY <2>2 DEF Acceptable, Repairing, RepairBase, Expected
    <3> QED
      BY <2>2, <3>1, <3>2 DEF LocalInv, Records, Round
  <2>5. Backed(st)'
    BY <1>8, <2>2 DEF LocalInv, Backed, AtCandidate, Clean, Repairs, SetImplementationSession
  <2>6. Working'
    BY <1>8, <2>1, <2>2 DEF LocalInv, At, SetImplementationSession, InRound, Newest, Round,
       Recovering, Working, Marking, Provisioning, Executing, Settling, Verifying, Reviewing,
       ProvisionAt, ExecuteAt, RecoverAt, DecideAt, VerifyAt, ReviewAt
  <2> QED
    BY <2>3, <2>4, <2>5, <2>6 DEF LocalInv
<1>9. CASE FinishAttempt
  <2>1. /\ attempts # <<>> /\ Newest \in DOMAIN attempts /\ session /\ st = "executing"
        /\ ctl.result \in Outcome /\ InRound(Newest)
    BY <1>9, LastAttempt DEF LocalInv, FinishAttempt, At, Working, Executing, ExecuteAt
  <2>2. /\ ctl' \in Control /\ ctl'.at = "apply" /\ ctl'.result = ctl.result
    <3>1. ctl \in Control
      BY DEF LocalInv, TypeOK, Control
    <3> QED
      BY <1>9, <3>1 DEF FinishAttempt, Go, Control, Step
  <2>3. SetAttempt(Newest, "succeeded", ctl.result)
    BY <1>9 DEF FinishAttempt
  <2>4. /\ DOMAIN attempts' = DOMAIN attempts /\ Round' = Round
        /\ attempts'[Newest].kind = attempts[Newest].kind /\ attempts'[Newest].round = attempts[Newest].round
        /\ attempts'[Newest].status = "succeeded" /\ attempts'[Newest].result = ctl.result
    <3>1. Round' = Round
      BY <2>3 DEF SetAttempt, Round
    <3> QED
      BY <2>1, <2>3, <3>1, AttemptSet DEF LocalInv
  <2>5. \E i \in DOMAIN attempts' :
          /\ attempts'[i].kind \in Implementation /\ attempts'[i].round = Round'
          /\ attempts'[i].status = "succeeded" /\ attempts'[i].result = ctl'.result
    BY <2>1, <2>2, <2>4 DEF InRound
  <2>6. Working'
    BY <2>1, <2>2, <2>3, <2>5 DEF InRound, SetAttempt, runVars, Working, Marking, Provisioning,
       Executing, Settling, Verifying, Reviewing, ProvisionAt, ExecuteAt, RecoverAt,
       DecideAt, VerifyAt, ReviewAt
  <2> QED
    BY <1>9, <2>1, <2>2, <2>3, <2>6, Settled DEF FinishAttempt
<1>10. CASE FinishRecovered
  <2>1. ctl.k \in DOMAIN attempts /\ attempts[ctl.k].result \in Outcome \cup Verdict \cup {NoResult}
    BY <1>10, AttemptTyped DEF LocalInv, FinishRecovered, At, Working, Settling, RecoverAt
  <2>2. CASE Return
    <3>1. ctl' \in Control /\ Working'
      BY <2>2, Moves, Unworked DEF LocalInv, Resting
    <3> QED
      BY <1>10, <2>1, <3>1, Settled DEF FinishRecovered, Finish
  <2>3. CASE ~Recovering /\ Go("execute")
    <3>1. ctl' \in Control /\ ctl'.at = "execute"
      BY <2>3, Moves DEF LocalInv, Step
    <3>2. st' = "executing"
      BY <1>10, <2>3 DEF LocalInv, FinishRecovered, At, Working, Settling, RecoverAt,
         Finish, SetAttempt, runVars
    <3>4. Working'
      BY <3>1, <3>2 DEF Working, Marking, Provisioning, Executing, Settling, Verifying, Reviewing,
         ProvisionAt, ExecuteAt, RecoverAt, DecideAt, VerifyAt, ReviewAt
    <3> QED
      BY <1>10, <2>1, <3>1, <3>4, Settled DEF FinishRecovered, Finish
  <2> QED
    BY <1>10, <2>2, <2>3 DEF FinishRecovered
<1>11. CASE SessionLost
  <2>1. st # "received"
    BY <1>11 DEF LocalInv, SessionLost, At, Working, Settling, RecoverAt, RepairStates
  <2> QED
    BY <1>11, <2>1, Halted DEF SessionLost
<1>12. CASE ApplyImplementationOutcome
  <2>1. session /\ st = "executing"
    BY <1>12 DEF LocalInv, ApplyImplementationOutcome, At, Working, Executing, ExecuteAt
  <2>2. \A to \in {"verifying", "awaiting_human_decision", "failed"} : to \in LocalStates /\ Backed(to)
    BY <2>1 DEF LocalInv, Backed, LocalStates
  <2>3. PICK to \in {"verifying", "awaiting_human_decision", "failed"} : Transition(to)
    BY <1>12 DEF ApplyImplementationOutcome
  <2> QED
    BY <1>12, <2>2, <2>3, Entered DEF ApplyImplementationOutcome
<1> QED
  BY <1>1, <1>2, <1>3, <1>4, <1>5, <1>6, <1>7, <1>8, <1>9, <1>10, <1>11, <1>12 DEF ExecuteStep

\* The accepted decision, its artifact and its row (resumeHumanDecision).
LEMMA DecisionKept == LocalInv /\ DecisionStep => LocalInv'
<1> SUFFICES ASSUME LocalInv, DecisionStep PROVE LocalInv'
  OBVIOUS
<1>1. CASE WriteDecision
  <2>1. CASE Refuse
    BY <2>1, Refused
  <2>2. CASE /\ disk' = [disk EXCEPT !.decisions = disk.decisions \cup {Newest}]
             /\ Go("accepted") /\ KeepStore /\ UNCHANGED <<commits, expired>> /\ Reliably
    <3>1. ctl' \in Control /\ ctl'.at = "accepted" /\ st = "awaiting_human_decision" /\ st' = st
      BY <1>1, <2>2, Moves DEF LocalInv, WriteDecision, Step, At, Working, DecideAt,
         KeepStore, runVars
    <3>2. Newest \in Nat /\ disk \in Directories
      BY DEF LocalInv, TypeOK, Newest, Directories
    <3>3. /\ disk' \in Directories /\ disk'.tree = disk.tree /\ disk'.branch = disk.branch
          /\ disk'.root = disk.root /\ disk'.head = disk.head /\ disk'.others = disk.others
      BY <2>2, <3>2 DEF Directories
    <3>4. Working'
      BY <3>1 DEF Working, Marking, Provisioning, Executing, Settling, Verifying, Reviewing,
         ProvisionAt, ExecuteAt, RecoverAt, DecideAt, VerifyAt, ReviewAt
    <3> QED
      BY <2>2, <3>1, <3>3, <3>4, DiskKept DEF LocalInv, Records, Backed, Untouched
  <2> QED
    BY <1>1, <2>1, <2>2 DEF WriteDecision
<1>2. CASE AcceptDecision
  <2>1. /\ ctl' \in Control /\ ctl'.at \in Resting /\ st' = "executing"
        /\ st = "awaiting_human_decision" /\ session
    BY <1>2, Moves DEF LocalInv, Backed, AcceptDecision, At, Working, DecideAt, Resting
  <2>2. /\ log' \in [repairs : Seq(Heads), accepted : Seq(Nat)] /\ log'.repairs = log.repairs
        /\ Len(log'.accepted) = Len(log.accepted) + 1
    <3>1. log \in [repairs : Seq(Heads), accepted : Seq(Nat)] /\ Newest \in Nat
      BY DEF LocalInv, TypeOK, Newest
    <3>2. log' = [log EXCEPT !.accepted = Append(log.accepted, Newest)]
      BY <1>2 DEF AcceptDecision
    <3>3. log.accepted \in Seq(Nat) /\ log.repairs \in Seq(Heads)
      BY <3>1
    <3>4. /\ Append(log.accepted, Newest) \in Seq(Nat)
          /\ Len(Append(log.accepted, Newest)) = Len(log.accepted) + 1
      BY <3>1, <3>3
    <3>5. log'.accepted = Append(log.accepted, Newest) /\ log'.repairs = log.repairs
      BY <3>1, <3>2
    <3>6. log' \in [repairs : Seq(Heads), accepted : Seq(Nat)]
      BY <3>1, <3>2, <3>4
    <3> QED
      BY <3>4, <3>5, <3>6
  <2>3. UNCHANGED <<cand, session, workspace, rows, attempts, batch, review, fb, disk, commits, expired, troubles>>
    BY <1>2 DEF AcceptDecision, KeepWorld, Reliably, proofVars
  <2>4. TypeOK'
    BY <2>1, <2>2, <2>3 DEF LocalInv, TypeOK, LocalStates, Control
  <2>5. Round \in Nat /\ Round' = Round + 1
    BY <2>2 DEF LocalInv, TypeOK, Round
  <2>6. \A i \in DOMAIN attempts' : attempts'[i].round <= Round'
    BY <2>3, <2>5, AttemptTyped DEF LocalInv, Records
  <2>7. Records'
    BY <2>1, <2>2, <2>3, <2>6 DEF LocalInv, Records, Acceptable, Repairing, RepairBase, Expected
  <2>8. Backed(st)'
    BY <2>1, <2>3 DEF LocalInv, Backed
  <2>9. Working'
    BY <2>1, Unworked
  <2> QED
    BY <2>4, <2>7, <2>8, <2>9 DEF LocalInv
<1> QED
  BY <1>1, <1>2 DEF DecisionStep

\* ReconcileInterruptedRun on a run left in execution.
LEMMA ReconcileKept == LocalInv /\ ReconcileInterruptedRun => LocalInv'
<1> SUFFICES ASSUME LocalInv, ReconcileInterruptedRun PROVE LocalInv'
  OBVIOUS
<1>1. PICK i \in DOMAIN attempts :
        \/ Finish(i, "failed") /\ UNCHANGED ctl
        \/ ctl' = [Idle EXCEPT !.at = "recover", !.k = i, !.result = "reconcile"] /\ KeepStore
        \/ ctl' = [Idle EXCEPT !.at = "lost", !.result = "reconcile"] /\ Finish(i, "failed")
  BY DEF ReconcileInterruptedRun, Interrupted
<1>2. i \in Nat /\ attempts[i].result \in Outcome \cup Verdict \cup {NoResult}
  BY AttemptTyped DEF LocalInv
<1>3. st \in RepairStates /\ At("idle") /\ KeepWorld /\ Reliably
  BY DEF ReconcileInterruptedRun
<1>4. CASE Finish(i, "failed") /\ UNCHANGED ctl
  <2>1. ctl' \in Control /\ Working'
    BY <1>3, <1>4, Unworked DEF LocalInv, TypeOK, Control, At, Resting
  <2> QED
    BY <1>2, <1>3, <1>4, <2>1, Settled DEF Finish
<1>5. CASE ctl' = [Idle EXCEPT !.at = "recover", !.k = i, !.result = "reconcile"] /\ KeepStore
  <2>1. ctl' \in Control /\ ctl'.at = "recover" /\ ctl'.k = i /\ ctl'.result = "reconcile"
    BY <1>2, <1>5, Noted DEF LocalInv, Step
  <2>2. Working'
    BY <1>3, <1>5, <2>1 DEF Recovering, KeepStore, KeepWorld, runVars, logVars, proofVars,
       Working, Marking, Provisioning, Executing, Settling, Verifying, Reviewing, ProvisionAt,
       ExecuteAt, RecoverAt, DecideAt, VerifyAt, ReviewAt
  <2> QED
    BY <1>3, <1>5, <2>1, <2>2, Went
<1>6. CASE ctl' = [Idle EXCEPT !.at = "lost", !.result = "reconcile"] /\ Finish(i, "failed")
  <2>1. ctl' \in Control /\ ctl'.at = "lost" /\ ctl'.result = "reconcile"
    BY <1>6, Noted DEF LocalInv, Step
  <2>2. Working'
    BY <1>3, <1>6, <2>1 DEF Recovering, Finish, SetAttempt, runVars, Working, Marking, Provisioning,
       Executing, Settling, Verifying, Reviewing, ProvisionAt, ExecuteAt, RecoverAt,
       DecideAt, VerifyAt, ReviewAt
  <2> QED
    BY <1>2, <1>3, <1>6, <2>1, <2>2, Settled DEF Finish
<1> QED
  BY <1>1, <1>4, <1>5, <1>6

\* FailAttempt on an attempt nothing will finish.
LEMMA FailKept == LocalInv /\ FailAttempt => LocalInv'
<1> SUFFICES ASSUME LocalInv, FailAttempt PROVE LocalInv'
  OBVIOUS
<1>1. attempts # <<>> /\ Newest \in DOMAIN attempts
  BY LastAttempt DEF LocalInv, FailAttempt, Working, Executing, Reviewing, ExecuteAt, ReviewAt
<1>2. attempts[Newest].result \in Outcome \cup Verdict \cup {NoResult}
  BY <1>1, AttemptTyped DEF LocalInv
<1>3. ctl' \in Control /\ Working'
  BY Moves, Unworked DEF LocalInv, FailAttempt, Step, Resting
<1> QED
  BY <1>1, <1>2, <1>3, Settled DEF FailAttempt, Finish, Fault

\* Policy, the controller's commit and the proof of the candidate (verify).
LEMMA VerifyKept == LocalInv /\ VerifyStep => LocalInv'
<1> SUFFICES ASSUME LocalInv, VerifyStep PROVE LocalInv'
  OBVIOUS
<1> USE DEF Do
<1>1. CASE RecoverCandidate
  <2>1. /\ disk.head \in 1..MaxHead /\ disk.head \in Commit /\ disk.head \in DOMAIN commits
        /\ Acceptable(disk.head)
    <3>1. commits \in Seq(CommitMetadata) /\ disk.head \in 0..MaxHead
      BY DEF LocalInv, TypeOK
    <3>2. disk.head # 0 /\ disk.head <= Len(commits) /\ Recoverable(disk.head)
      BY <1>1 DEF LocalInv, Records, RecoverCandidate, Base
    <3>3. disk.head \in 1..MaxHead /\ disk.head \in Commit /\ disk.head \in DOMAIN commits
      BY <3>1, <3>2, LocalBounds DEF Commit, NoHead
    <3>4. commits[disk.head] \in CommitMetadata
      BY <3>1, <3>3
    <3> QED
      BY <3>2, <3>3, <3>4 DEF Recoverable, Acceptable, CommitMetadata
  <2>2. ctl' \in Control /\ ctl'.at = "set_candidate" /\ ctl'.head = disk.head
    BY <1>1, <2>1, Noted, ZenonT(60) DEF LocalInv, RecoverCandidate, Candidate, Step
  <2>3. Working'
    BY <1>1, <2>1, <2>2 DEF LocalInv, RecoverCandidate, Candidate, At, Heads, Acceptable,
       Repairing, RepairBase,
       Expected, KeepStore, KeepWorld, runVars, logVars, proofVars, Working, Marking, Provisioning,
          Executing, Settling, Verifying, Reviewing, ProvisionAt, ExecuteAt, RecoverAt,
          DecideAt, VerifyAt, ReviewAt
  <2> QED
    BY <1>1, <2>2, <2>3, Went DEF RecoverCandidate, Candidate
<1>2. CASE KeepRepairBase
  <2>1. PICK h \in Commit : h = RepairBase /\ h \in Heads /\ Acceptable(h)
    BY <1>2, BaseOfRepair DEF LocalInv, KeepRepairBase, Acceptable
  <2>2. ctl' \in Control /\ ctl'.at = "set_candidate" /\ ctl'.head = h
    <3>1. ctl' = [ctl EXCEPT !.at = "set_candidate", !.head = h] /\ "set_candidate" \in Step
      BY <1>2, <2>1 DEF KeepRepairBase, Candidate, Step
    <3> QED
      BY <3>1, Noted DEF LocalInv
  <2>3. Working'
    BY <1>2, <2>1, <2>2 DEF LocalInv, KeepRepairBase, Candidate, At, Acceptable, Repairing,
       RepairBase,
       Expected, KeepStore, KeepWorld, runVars, logVars, proofVars, Working, Marking, Provisioning,
          Executing, Settling, Verifying, Reviewing, ProvisionAt, ExecuteAt, RecoverAt,
          DecideAt, VerifyAt, ReviewAt
  <2> QED
    BY <1>2, <2>2, <2>3, Went DEF KeepRepairBase, Candidate
<1>3. CASE RefuseCandidate
  BY <1>3, Refused DEF RefuseCandidate
<1>4. CASE StartPrecommit
  <2>1. NoHead \in Commit
    BY LocalBounds DEF NoHead, Commit
  <2>2. ctl' \in Control /\ ctl'.at = "precommit"
    BY <1>4, <2>1, Noted DEF LocalInv, StartPrecommit, Candidate, Step
  <2>3. Working'
    BY <1>4, <2>2 DEF StartPrecommit, LocalInv, Candidate, At, Expected, Repairing,
       RepairBase, KeepStore, KeepWorld, runVars, logVars, proofVars, Working, Marking, Provisioning,
       Executing, Settling, Verifying, Reviewing, ProvisionAt, ExecuteAt, RecoverAt,
       DecideAt, VerifyAt, ReviewAt
  <2> QED
    BY <1>4, <2>2, <2>3, Went DEF StartPrecommit, Candidate
<1>5. CASE SkipToCheck
  <2>1. ctl' \in Control /\ ctl'.at = "check"
    BY <1>5, Moves DEF LocalInv, SkipToCheck, Step
  <2>2. cand \in Heads
    BY <1>5 DEF LocalInv, TypeOK, SkipToCheck
  <2>3. Working'
    BY <1>5, <2>1, <2>2 DEF LocalInv, SkipToCheck, At, KeepStore, KeepWorld, runVars,
       logVars, proofVars, Working, Marking, Provisioning, Executing, Settling, Verifying, Reviewing,
       ProvisionAt, ExecuteAt, RecoverAt, DecideAt, VerifyAt, ReviewAt
  <2> QED
    BY <1>5, <2>1, <2>3, Went DEF SkipToCheck
<1>6. CASE PrecommitVerification
  <2>1. KeepStore /\ st = "verifying" /\ st' = st
    BY <1>6 DEF LocalInv, PrecommitVerification, At, Working, Verifying, VerifyAt,
       KeepStore, runVars
  <2>2. CASE Go("commit") /\ KeepWorld /\ Reliably
    <3>1. ctl' \in Control /\ ctl'.at = "commit"
      BY <2>2, Moves DEF LocalInv, Step
    <3>2. disk'.head = Expected'
      BY <1>6, <2>1, <2>2 DEF LocalInv, PrecommitVerification, At, Working, Verifying, VerifyAt,
         Expected, Repairing, RepairBase, KeepStore, KeepWorld, logVars
    <3>3. Working'
      BY <2>1, <3>1, <3>2 DEF Working, Marking, Provisioning, Executing, Settling, Verifying,
         Reviewing, ProvisionAt, ExecuteAt, RecoverAt, DecideAt, VerifyAt, ReviewAt
    <3> QED
      BY <2>1, <2>2, <3>1, <3>3, Went
  <2>3. Go("error") => ctl' \in Control /\ Working'
    BY Moves, Unworked DEF LocalInv, Step, Resting
  <2>4. CASE Go("error") /\ KeepWorld /\ Trouble("check")
    BY <2>1, <2>3, <2>4, Went DEF Fault
  <2>5. CASE Go("error") /\ Mutated
    BY <2>1, <2>3, <2>5, MutatedKept
  <2> QED
    BY <1>6, <2>2, <2>4, <2>5 DEF PrecommitVerification
<1>7. CASE CommitCandidate
  <2>1. PICK n \in Nat : n = Len(commits) + 1
    BY DEF LocalInv, TypeOK
  <2>2. /\ Len(commits) < MaxHead /\ disk.head = Expected /\ st = "verifying" /\ UNCHANGED <<st, log>>
        /\ n \in Heads /\ n \in Commit
    <3>1. commits \in Seq(CommitMetadata)
      BY DEF LocalInv, TypeOK
    <3>2. MaxHead \in Nat /\ Len(commits) \in Nat /\ Len(commits) < MaxHead
      BY <1>7, <3>1, LocalBounds DEF CommitCandidate
    <3>3. disk.head = Expected /\ st = "verifying" /\ UNCHANGED <<st, log>>
      BY <1>7 DEF LocalInv, CommitCandidate, At, Working, Verifying, VerifyAt, KeepStore,
         runVars, logVars
    <3> QED
      BY <2>1, <3>2, <3>3 DEF Heads, Commit, NoHead
  <2>3. ctl' = [ctl EXCEPT !.at = "set_candidate", !.head = n]
    BY <1>7, <2>1, SMTT(30) DEF CommitCandidate
  <2>4. ctl' \in Control /\ ctl'.at = "set_candidate" /\ ctl'.head = n
    BY <2>2, <2>3, Noted DEF LocalInv, Step
  <2>5. Acceptable(n)'
    BY <1>7, <2>1, <2>2, OwnCommit DEF LocalInv, CommitCandidate
  <2>6. Working'
    BY <2>2, <2>4, <2>5 DEF Acceptable, Working, Marking, Provisioning, Executing, Settling,
       Verifying, Reviewing, ProvisionAt, ExecuteAt, RecoverAt, DecideAt, VerifyAt, ReviewAt
  <2> QED
    BY <1>7, <2>2, <2>4, <2>6, Committed DEF CommitCandidate
<1>8. CASE SetCandidateHead
  <2>1. /\ ctl' \in Control /\ ctl'.at = "check" /\ st = "verifying" /\ ctl.head \in Heads
        /\ Acceptable(ctl.head)
    BY <1>8, Moves DEF LocalInv, SetCandidateHead, Step, At, Working, Verifying, VerifyAt
  <2>2. /\ UNCHANGED <<st, session, workspace, rows, log, attempts, batch, review, fb, disk, commits, expired, troubles>>
        /\ cand' = ctl.head
    BY <1>8 DEF SetCandidateHead, KeepWorld, Reliably, logVars, proofVars
  <2>3. TypeOK'
    BY <2>1, <2>2 DEF LocalInv, TypeOK, Control
  <2>4. Records'
    BY <2>1, <2>2 DEF LocalInv, Records, Acceptable, Repairing, RepairBase, Expected, Round
  <2>5. Backed(st)'
    BY <2>1, <2>2 DEF LocalInv, Backed
  <2>6. Working'
    BY <2>1, <2>2 DEF Working, Marking, Provisioning, Executing, Settling, Verifying, Reviewing,
       ProvisionAt, ExecuteAt, RecoverAt, DecideAt, VerifyAt, ReviewAt
  <2> QED
    BY <2>3, <2>4, <2>5, <2>6 DEF LocalInv
<1>9. CASE RefuseCheck
  BY <1>9, Refused DEF RefuseCheck
<1>10. CASE ReuseVerification
  <2>1. ctl' \in Control /\ ctl'.at = "verified"
    BY <1>10, Moves DEF LocalInv, ReuseVerification, Step
  <2>2. Working'
    BY <1>10, <2>1 DEF LocalInv, ReuseVerification, At, KeepStore, KeepWorld, runVars,
       logVars, proofVars, Working, Marking, Provisioning, Executing, Settling, Verifying, Reviewing,
       ProvisionAt, ExecuteAt, RecoverAt, DecideAt, VerifyAt, ReviewAt
  <2> QED
    BY <1>10, <2>1, <2>2, Went DEF ReuseVerification
<1>11. CASE RunVerification
  <2>1. /\ st = "verifying" /\ cand \in Heads
    BY <1>11 DEF LocalInv, RunVerification, At, Working, Verifying, VerifyAt
  <2>2. PICK ok \in BOOLEAN : Save(ok)
    BY <1>11 DEF RunVerification
  <2>3. UNCHANGED <<st, cand, session, workspace, rows, log, attempts, review, fb, commits, expired>>
    BY <1>11, <2>2 DEF RunVerification, Save, Mutated, KeepWorld, runVars, logVars
  <2>4. batch' \in [head : Commit, repairs : Nat, ok : BOOLEAN]
    BY <2>1, <2>2, LocalBounds DEF LocalInv, TypeOK, Save, Repairs, Heads, Commit, NoHead
  <2>5. ctl' \in Control /\ (ctl'.at = "verified" \/ ctl'.at \in Resting)
    BY <1>11, Moves DEF LocalInv, RunVerification, Step, Resting
  <2>6. Working'
    BY <2>1, <2>3, <2>5, Unworked DEF Working, Marking, Provisioning, Executing, Settling, Verifying,
       Reviewing, ProvisionAt, ExecuteAt, RecoverAt, DecideAt, VerifyAt, ReviewAt
  <2>7. /\ disk' \in Directories /\ disk'.tree = disk.tree /\ disk'.branch = disk.branch
        /\ disk'.root = disk.root /\ disk'.head = disk.head /\ disk'.others = disk.others
    <3>1. disk \in Directories
      BY DEF LocalInv, TypeOK, Directories
    <3>2. CASE UNCHANGED disk
      BY <3>1, <3>2
    <3>3. CASE disk' = [disk EXCEPT !.dirt = 2]
      <4>1. 2 \in 0..2
        OBVIOUS
      <4> QED
        BY <3>1, <3>3, <4>1, DirtMoved
    <3> QED
      BY <1>11, <3>2, <3>3 DEF RunVerification, Mutated, KeepWorld
  <2>8. troubles' \in 0..MaxTroubles
    <3>1. Reliably \/ \E name \in Fault : Trouble(name)
      BY <1>11 DEF RunVerification, Mutated, Fault
    <3> QED
      BY <3>1, LocalBounds DEF LocalInv, TypeOK, Reliably, Trouble
  <2>9. TypeOK'
    BY <2>3, <2>4, <2>5, <2>7, <2>8 DEF LocalInv, TypeOK, Control, Directories
  <2>10. Records'
    BY <2>3, <2>7 DEF LocalInv, Records, Untouched, Acceptable, Repairing, RepairBase, Expected, Round
  <2>11. Backed(st)'
    BY <2>1, <2>3, <2>7 DEF LocalInv, Backed
  <2> QED
    BY <2>6, <2>9, <2>10, <2>11 DEF LocalInv
<1>12. CASE Verified
  <2>1. Backed("fresh_review") /\ "fresh_review" \in LocalStates
    BY <1>12 DEF LocalInv, Backed, LocalStates, Verified, At, Working, Verifying, VerifyAt
  <2> QED
    BY <1>12, <2>1, Entered, Refused DEF Verified
<1> QED
  BY <1>1, <1>2, <1>3, <1>4, <1>5, <1>6, <1>7, <1>8, <1>9, <1>10, <1>11, <1>12 DEF VerifyStep

\* The fresh review, its verdict and the authorization it gives (review).
LEMMA ReviewKept == LocalInv /\ ReviewStep => LocalInv'
<1> SUFFICES ASSUME LocalInv, ReviewStep PROVE LocalInv'
  OBVIOUS
<1> USE DEF Do
<1>1. CASE RefuseReview
  BY <1>1, Refused DEF RefuseReview
<1>2. CASE FailUnlaunchedReview
  <2>1. PICK i \in DOMAIN attempts : Finish(i, "failed")
    BY <1>2 DEF FailUnlaunchedReview, UnlaunchedReviews
  <2>2. attempts[i].result \in Outcome \cup Verdict \cup {NoResult}
    BY AttemptTyped DEF LocalInv
  <2>3. ctl' \in Control /\ ctl' = ctl /\ st' = st
    BY <1>2, <2>1 DEF LocalInv, TypeOK, Control, FailUnlaunchedReview, Finish, SetAttempt, runVars
  <2>4. Working'
    BY <1>2, <2>3 DEF LocalInv, FailUnlaunchedReview, At, Working, Marking, Provisioning, Executing,
       Settling, Verifying, Reviewing, ProvisionAt, ExecuteAt, RecoverAt, DecideAt,
       VerifyAt, ReviewAt
  <2> QED
    BY <1>2, <2>1, <2>2, <2>3, <2>4, Settled DEF Finish, FailUnlaunchedReview
<1>3. CASE ReuseReview
  <2>1. ctl' \in Control /\ ctl'.at = "judge"
    BY <1>3, Moves DEF LocalInv, ReuseReview, Step
  <2>2. Working'
    BY <1>3, <2>1 DEF LocalInv, ReuseReview, At, Judged, Reviewed, Repairs, KeepStore,
       KeepWorld, runVars, logVars, proofVars, Working, Marking, Provisioning, Executing, Settling,
       Verifying, Reviewing, ProvisionAt, ExecuteAt, RecoverAt, DecideAt, VerifyAt, ReviewAt
  <2> QED
    BY <1>3, <2>1, <2>2, Went DEF ReuseReview
<1>4. CASE BeginReview
  <2>1. /\ ctl' \in Control /\ ctl'.at = "review_launch" /\ st = "fresh_review" /\ BeginAttempt("review")
    BY <1>4, Moves DEF LocalInv, BeginReview, Step, At, Working, Reviewing, ReviewAt
  <2>2. attempts' # <<>> /\ attempts'[Newest'].kind = "review" /\ st' = st
    BY <2>1, AttemptBegun DEF LocalInv, BeginAttempt, Newest, runVars
  <2>3. Working'
    BY <2>1, <2>2 DEF Working, Marking, Provisioning, Executing, Settling, Verifying, Reviewing,
       ProvisionAt, ExecuteAt, RecoverAt, DecideAt, VerifyAt, ReviewAt
  <2> QED
    BY <1>4, <2>1, <2>3, Begun DEF BeginReview
<1>5. CASE ReviewerEnds
  <2>1. PICK verdict \in Verdict :
          \E head \in Commit :
            /\ ctl' = [ctl EXCEPT !.at = "review_finish", !.result = verdict, !.head = head]
            /\ Reliably \/ Trouble("reviewer")
    BY <1>5 DEF ReviewerEnds
  <2>2. ctl' \in Control /\ ctl'.at = "review_finish" /\ ctl'.result = verdict
    <3>1. ctl \in Control
      BY DEF LocalInv, TypeOK, Control
    <3> QED
      BY <2>1, <3>1 DEF Control, Step
  <2>3. Working'
    BY <1>5, <2>2 DEF LocalInv, ReviewerEnds, At, Newest, KeepStore, KeepWorld, runVars,
       logVars, proofVars, Working, Marking, Provisioning, Executing, Settling, Verifying, Reviewing,
       ProvisionAt, ExecuteAt, RecoverAt, DecideAt, VerifyAt, ReviewAt
  <2> QED
    BY <1>5, <2>1, <2>2, <2>3, Went DEF ReviewerEnds, Fault
<1>6. CASE FinishReview
  <2>1. /\ attempts # <<>> /\ attempts[Newest].kind = "review"
        /\ st = "fresh_review" /\ ctl.result \in Verdict
        /\ SetAttempt(Newest, "succeeded", ctl.result)
    BY <1>6 DEF LocalInv, FinishReview, At, Working, Reviewing, ReviewAt
  <2>2. Newest \in DOMAIN attempts
    BY <2>1, LastAttempt DEF LocalInv
  <2>3. ctl' \in Control /\ ctl'.at = "review_save" /\ ctl'.result = ctl.result
    <3>1. ctl \in Control
      BY DEF LocalInv, TypeOK, Control
    <3> QED
      BY <1>6, <3>1 DEF FinishReview, Go, Control, Step
  <2>4. Working'
    BY <2>1, <2>3 DEF SetAttempt, runVars, Working, Marking, Provisioning, Executing, Settling,
       Verifying, Reviewing, ProvisionAt, ExecuteAt, RecoverAt, DecideAt, VerifyAt, ReviewAt
  <2> QED
    BY <1>6, <2>1, <2>2, <2>3, <2>4, Settled DEF FinishReview
<1>7. CASE SaveReview
  <2>1. /\ ctl' \in Control /\ ctl'.at = "judge" /\ st = "fresh_review" /\ ctl.result \in Verdict /\ cand \in Heads
    BY <1>7, Moves DEF LocalInv, Backed, SaveReview, Step, At, Working, Reviewing, ReviewAt
  <2>2. /\ UNCHANGED <<st, cand, session, workspace, rows, log, attempts, batch, fb, disk, commits, expired, troubles>>
        /\ review' = [head |-> ctl.head, repairs |-> Repairs, verdict |-> ctl.result]
    BY <1>7 DEF SaveReview, KeepWorld, Reliably, runVars, logVars
  <2>3. review' \in [head : Commit, repairs : Nat, verdict : Verdict]
    BY <2>1, <2>2, LocalBounds DEF LocalInv, TypeOK, Repairs, Heads, Commit, NoHead
  <2>4. TypeOK'
    BY <2>1, <2>2, <2>3 DEF LocalInv, TypeOK, Control
  <2>5. Records'
    BY <2>2 DEF LocalInv, Records, Acceptable, Repairing, RepairBase, Expected, Round
  <2>6. Backed(st)'
    BY <2>1, <2>2 DEF LocalInv, Backed
  <2>7. Working'
    BY <2>1, <2>2 DEF Reviewed, Repairs, Working, Marking, Provisioning, Executing, Settling,
       Verifying, Reviewing, ProvisionAt, ExecuteAt, RecoverAt, DecideAt, VerifyAt, ReviewAt
  <2> QED
    BY <2>4, <2>5, <2>6, <2>7 DEF LocalInv
<1>8. CASE JudgeReview
  <2>1. st = "fresh_review"
    BY <1>8 DEF LocalInv, JudgeReview, At, Working, Reviewing, ReviewAt
  <2>2. CASE Reviewed /\ review.verdict = "pass" /\ Proven /\ AtCandidate /\ Clean /\ Go("bind")
    <3>1. ctl' \in Control /\ ctl'.at = "bind"
      BY <2>2, Moves DEF LocalInv, Step
    <3>2. Working'
      BY <1>8, <2>1, <2>2, <3>1 DEF JudgeReview, Reviewed, Proven, AtCandidate, Clean,
         Repairs, KeepStore, KeepWorld, runVars, logVars, proofVars, Working, Marking, Provisioning,
         Executing, Settling, Verifying, Reviewing, ProvisionAt, ExecuteAt, RecoverAt,
         DecideAt, VerifyAt, ReviewAt
    <3> QED
      BY <1>8, <3>1, <3>2, Went DEF JudgeReview
  <2>3. CASE Go("handoff") \/ Go("error")
    <3>1. ctl' \in Control /\ (ctl'.at = "handoff" \/ ctl'.at = "error")
      BY <2>3, Moves DEF LocalInv, Step
    <3>2. Working'
      BY <1>8, <2>1, <3>1 DEF JudgeReview, KeepStore, KeepWorld, runVars, logVars,
         proofVars, Working, Marking, Provisioning, Executing, Settling, Verifying, Reviewing,
         ProvisionAt, ExecuteAt, RecoverAt, DecideAt, VerifyAt, ReviewAt
    <3> QED
      BY <1>8, <3>1, <3>2, Went DEF JudgeReview
  <2> QED
    BY <1>8, <2>2, <2>3 DEF JudgeReview
<1>9. CASE TransitionTrustedReviewFeedback
  <2>1. PICK h \in Heads : fb' = [fb EXCEPT ![h] = [life |-> "repair_verified", bound |-> cand]]
    BY <1>9 DEF TransitionTrustedReviewFeedback
  <2>2. /\ UNCHANGED <<st, cand, session, workspace, rows, log, attempts, batch, review, disk, commits, expired,
                      ctl, troubles>>
        /\ At("bind")
    BY <1>9 DEF TransitionTrustedReviewFeedback, KeepWorld, Reliably, runVars, logVars
  <2>3. fb' \in [Heads -> [life : {"none", "selected_for_repair", "repair_verified"}, bound : Commit]]
    <3>1. cand \in Commit
      BY LocalBounds DEF LocalInv, TypeOK, Heads, Commit, NoHead
    <3>2. [life |-> "repair_verified", bound |-> cand]
            \in [life : {"none", "selected_for_repair", "repair_verified"}, bound : Commit]
      BY <3>1
    <3>3. fb \in [Heads -> [life : {"none", "selected_for_repair", "repair_verified"}, bound : Commit]]
      BY DEF LocalInv, TypeOK
    <3> QED
      BY <2>1, <3>2, <3>3
  <2>4. TypeOK'
    BY <2>2, <2>3 DEF LocalInv, TypeOK
  <2>5. Records'
    BY <2>2 DEF LocalInv, Records, Acceptable, Repairing, RepairBase, Expected, Round
  <2>6. Backed(st)'
    BY <2>2 DEF LocalInv, Backed, AtCandidate, Clean, Repairs
  <2>7. Working'
    BY <2>2 DEF LocalInv, At, Reviewed, Proven, AtCandidate, Clean, Repairs, Working, Marking,
       Provisioning, Executing, Settling, Verifying, Reviewing, ProvisionAt, ExecuteAt,
       RecoverAt, DecideAt, VerifyAt, ReviewAt
  <2> QED
    BY <2>4, <2>5, <2>6, <2>7 DEF LocalInv
<1>10. CASE AuthorizeReview
  <2>1. /\ st = "fresh_review" /\ cand \in Heads /\ Reviewed /\ review.verdict = "pass" /\ Proven
        /\ AtCandidate /\ Clean
    BY <1>10 DEF LocalInv, Backed, AuthorizeReview, At, Working, Reviewing, ReviewAt
  <2>2. /\ batch = [head |-> cand, repairs |-> Repairs, ok |-> TRUE]
        /\ review = [head |-> cand, repairs |-> Repairs, verdict |-> "pass"]
    <3>1. /\ batch \in [head : Commit, repairs : Nat, ok : BOOLEAN]
          /\ review \in [head : Commit, repairs : Nat, verdict : Verdict]
      BY DEF LocalInv, TypeOK
    <3> QED
      BY <2>1, <3>1 DEF Reviewed, Proven
  <2>3. Backed("approval_ready") /\ "approval_ready" \in LocalStates
    BY <2>1, <2>2 DEF LocalInv, Backed, LocalStates
  <2> QED
    BY <1>10, <2>3, Entered DEF AuthorizeReview
<1>11. CASE PersistFreshReviewFindings
  <2>1. Backed("repairing") /\ "repairing" \in LocalStates
    BY <1>11 DEF LocalInv, Backed, LocalStates, PersistFreshReviewFindings, At, Working,
       Reviewing, ReviewAt
  <2>2. CASE Refuse
    BY <2>2, Refused
  <2>3. CASE st' = "repairing" /\ OnlyState /\ Return /\ KeepWorld /\ Reliably
    <3>1. ctl' \in Control /\ ctl'.at \in Resting
      BY <2>3, Moves DEF LocalInv, Resting
    <3> QED
      BY <2>1, <2>3, <3>1, Rests
  <2> QED
    BY <1>11, <2>2, <2>3 DEF PersistFreshReviewFindings
<1>12. CASE ValidateApproval
  <2>1. st # "received"
    BY <1>12 DEF LocalInv, Working, ValidateApproval, At
  <2> QED
    BY <1>12, <2>1, Halted DEF ValidateApproval, KeepStore, OnlyState, runVars
<1> QED
  BY <1>1, <1>2, <1>3, <1>4, <1>5, <1>6, <1>7, <1>8, <1>9, <1>10, <1>11, <1>12 DEF ReviewStep

\* The repair of a candidate, or its refusal (beginRepair).
LEMMA RepairKept == LocalInv /\ RepairStep => LocalInv'
<1> SUFFICES ASSUME LocalInv, RepairStep PROVE LocalInv'
  OBVIOUS
<1>1. CASE RepairOverdue \/ RepairsExhausted
  BY <1>1, Halted DEF RepairOverdue, RepairsExhausted, StartsRepair
<1>2. CASE BeginRepair
  <2>1. st = "repairing" /\ cand \in Heads /\ session /\ disk.root = "marked" /\ rows["artifact_root"] = "owned"
    BY <1>2 DEF LocalInv, Backed, BeginRepair, StartsRepair
  <2>2. /\ UNCHANGED <<session, workspace, rows, attempts, batch, review, fb, disk, commits, expired, troubles>>
        /\ st' = "executing" /\ cand' = NoHead /\ log' = [log EXCEPT !.repairs = Append(log.repairs, cand)]
    BY <1>2 DEF BeginRepair, KeepWorld, Reliably, proofVars
  <2>3. ctl' \in Control /\ ctl'.at \in Resting
    <3>1. Idle \in Control
      BY LocalBounds DEF Idle, Control, Step, Commit, NoHead, NoResult
    <3> QED
      BY <1>2, <3>1 DEF BeginRepair, Control, Step, Resting
  <2>4. log' \in [repairs : Seq(Heads), accepted : Seq(Nat)] /\ Round \in Nat /\ Round' = Round + 1
    <3>1. log \in [repairs : Seq(Heads), accepted : Seq(Nat)]
      BY DEF LocalInv, TypeOK
    <3>2. log.repairs \in Seq(Heads) /\ log.accepted \in Seq(Nat)
      BY <3>1
    <3>3. /\ Append(log.repairs, cand) \in Seq(Heads) /\ Len(Append(log.repairs, cand)) = Len(log.repairs) + 1
      BY <2>1, <3>2
    <3>4. log'.repairs = Append(log.repairs, cand) /\ log'.accepted = log.accepted
      BY <2>2, <3>1
    <3>5. log' \in [repairs : Seq(Heads), accepted : Seq(Nat)]
      BY <2>2, <3>1, <3>3
    <3>6. Len(log'.repairs) = Len(log.repairs) + 1 /\ Len(log'.accepted) = Len(log.accepted)
      BY <3>3, <3>4
    <3>7. Len(log.repairs) \in Nat /\ Len(log.accepted) \in Nat
      BY <3>2
    <3>8. Round \in Nat /\ Round' = Round + 1
      <4>1. PICK r \in Nat, a \in Nat : r = Len(log.repairs) /\ a = Len(log.accepted)
        BY <3>7, Zenon
      <4>2. Round = r + a /\ Round' = (r + 1) + a
        BY <3>6, <4>1, Zenon DEF Round
      <4> QED
        BY <4>2
    <3> QED
      BY <3>5, <3>8
  <2>5. TypeOK'
    BY <2>2, <2>3, <2>4, SMTT(30) DEF LocalInv, TypeOK, LocalStates, Control
  <2>6. \A i \in DOMAIN attempts' : attempts'[i].round <= Round'
    BY <2>2, <2>4, AttemptTyped DEF LocalInv, Records
  <2>7. Records'
    BY <2>1, <2>2, <2>6 DEF LocalInv, Records
  <2>8. Backed(st)'
    BY <2>1, <2>2 DEF Backed
  <2>9. Working'
    BY <2>3, Unworked
  <2> QED
    BY <2>5, <2>7, <2>8, <2>9 DEF LocalInv
<1> QED
  BY <1>1, <1>2 DEF RepairStep

\* What delivery asks of the loop: a repair of feedback, or a stop at its drift.
LEMMA DeliveryKept == LocalInv /\ DeliveryStep => LocalInv'
<1> SUFFICES ASSUME LocalInv, DeliveryStep PROVE LocalInv'
  OBVIOUS
<1>1. CASE RequestRepair
  <2>1. st = "approval_ready" /\ cand \in Heads /\ session /\ At("idle") /\ disk.root = "marked"
        /\ rows["artifact_root"] = "owned"
    BY <1>1 DEF LocalInv, Backed, RequestRepair
  <2>2. /\ UNCHANGED <<cand, session, workspace, rows, log, attempts, batch, review, disk, commits, expired,
                      ctl, troubles>>
        /\ st' = "repairing"
    BY <1>1 DEF RequestRepair, KeepWorld, Reliably, logVars
  <2>3. fb' \in [Heads -> [life : {"none", "selected_for_repair", "repair_verified"}, bound : Commit]]
    <3>1. fb \in [Heads -> [life : {"none", "selected_for_repair", "repair_verified"}, bound : Commit]]
      BY DEF LocalInv, TypeOK
    <3>2. fb' = fb \/ fb' = [fb EXCEPT ![cand] = [fb[cand] EXCEPT !.life = "selected_for_repair"]]
      BY <1>1 DEF RequestRepair
    <3> QED
      BY <2>1, <3>1, <3>2
  <2>4. TypeOK'
    BY <2>2, <2>3 DEF LocalInv, TypeOK, LocalStates
  <2>5. Records'
    BY <2>2 DEF LocalInv, Records, Acceptable, Repairing, RepairBase, Expected, Round
  <2>6. Backed(st)'
    BY <2>1, <2>2 DEF Backed
  <2>7. Working'
    BY <2>1, <2>2, Unworked DEF At, Resting
  <2> QED
    BY <2>4, <2>5, <2>6, <2>7 DEF LocalInv
<1>2. CASE FeedbackDrift
  BY <1>2, Halted DEF FeedbackDrift
<1> QED
  BY <1>1, <1>2 DEF DeliveryStep

\* The choice of the handler by the run's state, and the operator's decision.
LEMMA TurnKept == LocalInv /\ (Admit \/ Dispatch \/ OperatorDecides) => LocalInv'
<1> SUFFICES ASSUME LocalInv, Admit \/ Dispatch \/ OperatorDecides PROVE LocalInv'
  OBVIOUS
<1>1. Idle \in Control
  BY LocalBounds DEF Idle, Control, Step, Commit, NoHead, NoResult
<1>2. CASE Admit
  <2>1. PICK to \in {"admitting", "provisioning"} : Transition(to)
    BY <1>2 DEF Admit
  <2>2. Backed(to) /\ to \in LocalStates
    BY <1>2 DEF Backed, LocalStates, Admit, Turn, RootReady
  <2> QED
    BY <1>2, <2>1, <2>2, Entered DEF Admit
<1>3. CASE Dispatch
  <2>1. Len(attempts) \in Nat
    BY DEF LocalInv, TypeOK
  <2>2. CASE Handler = "idle"
    <3>1. ctl' \in Control /\ ctl'.at \in Resting
      BY <1>1, <1>3, <2>2 DEF Dispatch, Idle, Resting
    <3> QED
      BY <1>3, <3>1, Went, Unworked DEF Dispatch
  <2>3. CASE Handler # "idle"
    <3>1. PICK h \in Step :
            /\ h = Handler /\ h \in {"provision", "execute", "verify", "review", "approve", "accept"}
            /\ h = "provision" => st = "provisioning"
            /\ h = "execute" => st = "executing"
            /\ h = "verify" => st = "verifying"
            /\ h = "review" => st = "fresh_review"
            /\ h = "approve" => st = "approval_ready"
            /\ h = "accept" => st = "awaiting_human_decision"
      BY <2>3 DEF Handler, Step
    <3>2. PICK n \in Nat : ctl' = [ctl EXCEPT !.at = h, !.k = n]
      <4>1. ctl' = [ctl EXCEPT !.at = Handler, !.k = Len(attempts)]
        BY <1>3, <2>3 DEF Dispatch
      <4> QED
        BY <2>1, <3>1, <4>1
    <3>3. ctl' \in Control /\ ctl'.at = h
      BY <3>2, Noted DEF LocalInv
    <3>4. st' = st
      BY <1>3 DEF Dispatch, KeepStore, runVars
    <3>5. /\ ctl'.at \in {"provision", "execute", "verify", "review", "approve", "accept"}
          /\ ctl'.at = "provision" => st' = "provisioning"
          /\ ctl'.at = "execute" => st' = "executing"
          /\ ctl'.at = "verify" => st' = "verifying"
          /\ ctl'.at = "review" => st' = "fresh_review"
          /\ ctl'.at = "approve" => st' = "approval_ready"
          /\ ctl'.at = "accept" => st' = "awaiting_human_decision"
      BY <3>1, <3>3, <3>4
    <3>6. Working'
      BY <3>5 DEF Working, Marking, Provisioning, Executing, Settling, Verifying, Reviewing,
         ProvisionAt, ExecuteAt, RecoverAt, DecideAt, VerifyAt, ReviewAt
    <3> QED
      BY <1>3, <3>3, <3>6, Went DEF Dispatch
  <2> QED
    BY <2>2, <2>3
<1>4. CASE OperatorDecides
  <2>1. ctl' \in Control /\ ctl'.at \in Resting
    BY <1>1, <1>4 DEF OperatorDecides, Control, Step, Resting, NoResult
  <2> QED
    BY <1>4, <2>1, Went, Unworked DEF OperatorDecides
<1> QED
  BY <1>2, <1>3, <1>4

\* A directory of somebody else, and the passing of the deadline.
LEMMA OutsideKept == LocalInv /\ (ForeignDirectory \/ DeadlinePasses) => LocalInv'
<1> SUFFICES ASSUME LocalInv, ForeignDirectory \/ DeadlinePasses PROVE LocalInv'
  OBVIOUS
<1>1. ctl \in Control
  BY DEF LocalInv, TypeOK, Control
<1>2. CASE ForeignDirectory
  <2>1. disk \in Directories /\ UNCHANGED <<ctl, commits, expired>> /\ KeepStore /\ Reliably
    BY <1>2 DEF LocalInv, TypeOK, Directories, ForeignDirectory
  <2>2. /\ disk' \in Directories /\ disk'.branch = disk.branch /\ disk'.head = disk.head
        /\ disk'.dirt = disk.dirt
        /\ \/ disk'.tree = disk.tree /\ ("tree" \in disk'.others <=> "tree" \in disk.others)
           \/ disk.tree = "absent" /\ disk'.tree = "bare"
        /\ \/ disk'.root = disk.root /\ ("root" \in disk'.others <=> "root" \in disk.others)
           \/ disk.root = "absent" /\ disk'.root = "bare"
    <3>1. CASE /\ disk.root = "absent"
               /\ \E more \in SUBSET {"root"} :
                    disk' = [disk EXCEPT !.root = "bare", !.others = @ \cup more]
      <4>1. PICK more \in SUBSET {"root"} :
              disk' = [disk EXCEPT !.root = "bare", !.others = disk.others \cup more]
        BY <3>1
      <4>2. disk.others \cup more \in SUBSET {"root", "tree"}
        BY <2>1 DEF Directories
      <4>3. /\ disk' \in Directories /\ disk'.others = disk.others \cup more
            /\ disk'.root = "bare" /\ disk'.tree = disk.tree
            /\ disk'.branch = disk.branch /\ disk'.head = disk.head /\ disk'.dirt = disk.dirt
        BY <2>1, <4>1, <4>2 DEF Directories
      <4>4. "tree" \in disk'.others <=> "tree" \in disk.others
        BY <4>1, <4>3
      <4> QED
        BY <3>1, <4>3, <4>4
    <3>2. CASE /\ disk.tree = "absent"
               /\ \E more \in SUBSET {"tree"} :
                    disk' = [disk EXCEPT !.tree = "bare", !.others = @ \cup more]
      <4>1. PICK more \in SUBSET {"tree"} :
              disk' = [disk EXCEPT !.tree = "bare", !.others = disk.others \cup more]
        BY <3>2
      <4>2. disk.others \cup more \in SUBSET {"root", "tree"}
        BY <2>1 DEF Directories
      <4>3. /\ disk' \in Directories /\ disk'.others = disk.others \cup more
            /\ disk'.tree = "bare" /\ disk'.root = disk.root
            /\ disk'.branch = disk.branch /\ disk'.head = disk.head /\ disk'.dirt = disk.dirt
        BY <2>1, <4>1, <4>2 DEF Directories
      <4>4. "root" \in disk'.others <=> "root" \in disk.others
        BY <4>1, <4>3
      <4> QED
        BY <3>2, <4>3, <4>4
    <3> QED
      BY <1>2, <3>1, <3>2 DEF ForeignDirectory
  <2>3. Working'
    BY <2>1, <2>2 DEF LocalInv, Recovering, Acceptable, Repairing, RepairBase, Expected,
       InRound, Newest,
       Round, Reviewed, Proven, AtCandidate, Clean, Repairs, KeepStore, runVars, logVars,
          proofVars, Working, Marking, Provisioning, Executing, Settling, Verifying, Reviewing,
          ProvisionAt, ExecuteAt, RecoverAt, DecideAt, VerifyAt, ReviewAt
  <2>4. /\ Untouched(disk')
        /\ workspace => disk'.tree = "ours"
        /\ st # "received" => disk'.root = "marked"
    BY <2>2 DEF LocalInv, Records, Untouched, Backed
  <2> QED
    BY <1>1, <2>1, <2>2, <2>3, <2>4, DiskKept DEF Fault
<1>3. CASE DeadlinePasses
  <2>1. /\ UNCHANGED <<st, cand, session, workspace, rows, log, attempts, batch, review, fb, disk, commits,
                      ctl, troubles>>
        /\ expired' \in BOOLEAN
    BY <1>3 DEF DeadlinePasses, KeepStore, runVars, logVars, proofVars
  <2>2. TypeOK'
    BY <2>1 DEF LocalInv, TypeOK
  <2>3. Records'
    BY <2>1 DEF LocalInv, Records, Acceptable, Repairing, RepairBase, Expected, Round
  <2>4. Backed(st)'
    BY <2>1 DEF LocalInv, Backed, AtCandidate, Clean, Repairs
  <2>5. Working'
    BY <2>1 DEF LocalInv, Recovering, Acceptable, Repairing, RepairBase, Expected, InRound, Newest,
       Round, Reviewed, Proven, AtCandidate, Clean, Repairs, Working, Marking, Provisioning,
          Executing, Settling, Verifying, Reviewing, ProvisionAt, ExecuteAt, RecoverAt,
          DecideAt, VerifyAt, ReviewAt
  <2> QED
    BY <2>2, <2>3, <2>4, <2>5 DEF LocalInv
<1> QED
  BY <1>2, <1>3

\* How every handler may end: a deadline, a stop, an error, a crash, a failed call.
LEMMA FrameKept == LocalInv /\ (FrameStep \/ Continue \/ Crash \/ CallFails \/ ApprovalUnread) => LocalInv'
<1> SUFFICES ASSUME LocalInv, FrameStep \/ Continue \/ Crash \/ CallFails \/ ApprovalUnread PROVE LocalInv'
  OBVIOUS
<1>1. CASE DeadlineCancels
  BY <1>1, Refused DEF DeadlineCancels
<1>2. CASE PolicyStops
  BY <1>2, Halted DEF PolicyStops, RepairStates
<1>3. CASE ReturnError
  <2>1. Return \/ ctl' = [Idle EXCEPT !.at = "parked"]
    BY <1>3 DEF ReturnError
  <2> QED
    BY <1>3, <2>1, Halted DEF ReturnError, KeepStore, OnlyState, runVars
<1>4. CASE Continue
  BY <1>4, Halted DEF Continue, KeepStore, OnlyState, runVars, Resting
<1>5. CASE Crash
  BY <1>5, Halted DEF Crash, KeepStore, OnlyState, runVars, Fault
<1>6. CASE CallFails
  BY <1>6, Halted DEF CallFails, KeepStore, OnlyState, runVars, Resting, Fault
<1>7. CASE ApprovalUnread
  BY <1>7, Halted DEF ApprovalUnread, LocalInv, Working, At, Fault
<1> QED
  BY <1>1, <1>2, <1>3, <1>4, <1>5, <1>6, <1>7 DEF FrameStep

\* A step that changes nothing.
LEMMA StutterKept == LocalInv /\ UNCHANGED vars => LocalInv'
<1> SUFFICES ASSUME LocalInv, UNCHANGED vars PROVE LocalInv'
  OBVIOUS
<1>1. UNCHANGED <<st, cand, session, workspace, rows, log, attempts, batch, review, fb, disk, commits,
                  expired, ctl, troubles>>
  BY DEF vars, runVars, logVars, proofVars
<1>2. TypeOK'
  BY <1>1 DEF LocalInv, TypeOK
<1>3. Records'
  BY <1>1 DEF LocalInv, Records, Acceptable, Repairing, RepairBase, Expected, Round
<1>4. Backed(st)'
  BY <1>1 DEF LocalInv, Backed, AtCandidate, Clean, Repairs
<1>5. Working'
  BY <1>1 DEF LocalInv, Recovering, Acceptable, Repairing, RepairBase, Expected, InRound, Newest,
     Round, Reviewed, Proven, AtCandidate, Clean, Repairs, Working, Marking, Provisioning, Executing,
        Settling, Verifying, Reviewing, ProvisionAt, ExecuteAt, RecoverAt, DecideAt,
        VerifyAt, ReviewAt
<1> QED
  BY <1>2, <1>3, <1>4, <1>5 DEF LocalInv

\* Every step keeps the invariant.
LEMMA NextKept == LocalInv /\ [Next]_vars => LocalInv'
<1>1. LocalInv /\ ControllerStep => LocalInv'
  BY RootKept, ProvisionKept, ExecuteKept, DecisionKept, VerifyKept, ReviewKept, RepairKept,
     TurnKept,
     FrameKept DEF ControllerStep
<1>2. LocalInv /\ Next => LocalInv'
  BY <1>1, ReconcileKept, TurnKept, DeliveryKept, FrameKept, FailKept, OutsideKept DEF Next
<1> QED
  BY <1>2, StutterKept

\* The invariant holds in every reachable state.
THEOREM Invariance == Spec => []LocalInv
<1>1. Init => LocalInv
  BY InitOK
<1> QED
  BY <1>1, NextKept, PTL DEF Spec

\* Every record of the run, its directories and the handler in progress is of the
\* declared shape, in every instance.
THEOREM TypeCorrect == Spec => []TypeOK
<1>1. LocalInv => TypeOK
  BY DEF LocalInv
<1> QED
  BY <1>1, Invariance, PTL

\* authorizeReview and validateApproval: no crash, reuse or failed call lets a run
\* be ready for delivery without the evidence of its own candidate.
THEOREM ApprovalsBacked == Spec => []ApprovalBacked
<1>1. LocalInv => ApprovalBacked
  BY DEF LocalInv, Backed, ApprovalBacked
<1> QED
  BY <1>1, Invariance, PTL

\* verifyCandidate: a candidate is a commit with the controller's subject on the
\* head it had to follow, or the head the repair began from.
THEOREM CandidatesOwned == Spec => []CandidateOwned
<1>1. LocalInv => CandidateOwned
  BY DEF LocalInv, Records, Acceptable, CandidateOwned
<1> QED
  BY <1>1, Invariance, PTL

\* ensureArtifactRoot and provision: the run works only in directories it reserved
\* and marked or registered, and in none that held anything of somebody else's.
THEOREM ForeignContentsUnused == Spec => []NoForeignContents
<1>1. LocalInv => NoForeignContents
  BY DEF LocalInv, Records, Untouched, Backed, NoForeignContents
<1> QED
  BY <1>1, Invariance, PTL

\* The only step from executing to verifying is the application of an outcome.
LEMMA OutcomeApplied ==
  ASSUME LocalInv, Next, st = "executing", st' = "verifying"
  PROVE  ApplyImplementationOutcome /\ ctl.result = "completed"
<1>1. CASE RootStep
  BY <1>1 DEF RootStep, Enter, LookAtRoot, ReserveRoot, MakeRoot, CreateMarker, WriteMarker, OwnRoot, RefuseRoot,
     Refuse, Own, KeepStore, runVars
<1>2. CASE ProvisionStep
  <2>1. st' = st \/ st' = "executing"
    BY <1>2 DEF ProvisionStep, ReserveBranch, ReserveWorktree, ReuseWorkspace, RecoverWorktree,
       RefuseWorktree, Provision, AddWorktree, SetWorkspace, OwnBranch, OwnWorktree, Provisioned, Transition,
       Refuse, Own, KeepStore, runVars
  <2> QED
    BY <2>1
<1>3. CASE ExecuteStep
  <2>1. CASE ApplyImplementationOutcome
    BY <2>1 DEF ApplyImplementationOutcome, Transition
  <2>2. CASE ~ApplyImplementationOutcome
    <3>1. st' = st \/ st' = "manual_intervention"
      BY <1>3, <2>2 DEF ExecuteStep, FailUnlaunched, FindInterrupted, ReuseOutcome, RefuseResume,
         BeginImplementation, CommitAttemptProcessLaunch, CodexEnds, SetImplementationSession,
         FinishAttempt, FinishRecovered, SessionLost, BeginAttempt, Finish, SetAttempt, Refuse,
         KeepStore, runVars
    <3> QED
      BY <3>1
  <2> QED
    BY <2>1, <2>2
<1>4. CASE DecisionStep
  <2>1. st' = st \/ st' = "executing"
    BY <1>4 DEF DecisionStep, WriteDecision, AcceptDecision, Refuse, KeepStore, runVars
  <2> QED
    BY <2>1
<1>5. CASE VerifyStep
  <2>1. st' = st \/ st' = "fresh_review"
    BY <1>5 DEF VerifyStep, RecoverCandidate, KeepRepairBase, RefuseCandidate, StartPrecommit,
       SkipToCheck, PrecommitVerification, CommitCandidate, SetCandidateHead, RefuseCheck,
       ReuseVerification, RunVerification, Verified, Save, Candidate, Transition, Refuse, KeepStore,
       runVars
  <2> QED
    BY <2>1
<1>6. CASE ReviewStep
  <2>1. st' = st \/ st' \in {"approval_ready", "repairing", "failed"}
    BY <1>6 DEF ReviewStep, RefuseReview, FailUnlaunchedReview, ReuseReview, BeginReview,
       ReviewerEnds, FinishReview, SaveReview, JudgeReview, TransitionTrustedReviewFeedback,
       AuthorizeReview, PersistFreshReviewFindings, ValidateApproval, BeginAttempt, Finish,
       SetAttempt, Transition, Refuse, KeepStore, runVars
  <2> QED
    BY <2>1
<1>7. CASE RepairStep
  BY <1>7 DEF RepairStep, RepairOverdue, RepairsExhausted, BeginRepair
<1>8. CASE FrameStep
  <2>1. st' = st \/ st' = "manual_intervention"
    BY <1>8 DEF FrameStep, DeadlineCancels, PolicyStops, ReturnError, Refuse, KeepStore, runVars
  <2> QED
    BY <2>1
<1>9. CASE Continue \/ Dispatch \/ OperatorDecides
  BY <1>9 DEF Continue, Dispatch, OperatorDecides, KeepStore, runVars
<1>10. CASE Admit
  BY <1>10 DEF Admit
<1>11. CASE ReconcileInterruptedRun
  BY <1>11 DEF ReconcileInterruptedRun, Finish, SetAttempt, KeepStore, runVars
<1>12. CASE DeliveryStep
  BY <1>12 DEF DeliveryStep, RequestRepair, FeedbackDrift
<1>13. CASE Crash \/ CallFails \/ FailAttempt \/ ForeignDirectory \/ DeadlinePasses
  BY <1>13 DEF Crash, CallFails, FailAttempt, ForeignDirectory, DeadlinePasses, Finish, SetAttempt,
     KeepStore, runVars
<1>14. CASE ApprovalUnread
  BY <1>14 DEF ApprovalUnread
<1> QED
  BY <1>1, <1>2, <1>3, <1>4, <1>5, <1>6, <1>7, <1>8, <1>9, <1>10, <1>11, <1>12, <1>13, <1>14
  DEF Next, ControllerStep

\* execute: an implementation is taken for complete only on the outcome of an attempt
\* of the present round, also when the outcome is one found after a crash.
THEOREM OutcomesHonoured == Spec => OutcomeHonoured
<1> DEFINE Honoured ==
      st = "executing" /\ st' = "verifying" =>
        \E i \in DOMAIN attempts :
          /\ attempts[i].kind \in Implementation /\ attempts[i].status = "succeeded"
          /\ attempts[i].result = "completed" /\ attempts[i].round = Round
<1>1. LocalInv /\ [Next]_vars => Honoured
  <2> SUFFICES ASSUME LocalInv, [Next]_vars, st = "executing", st' = "verifying"
               PROVE  \E i \in DOMAIN attempts :
                        /\ attempts[i].kind \in Implementation /\ attempts[i].status = "succeeded"
                        /\ attempts[i].result = "completed" /\ attempts[i].round = Round
    OBVIOUS
  <2>1. Next
    BY DEF vars, runVars
  <2>2. ctl.at = "apply" /\ ctl.result = "completed"
    BY <2>1, OutcomeApplied DEF ApplyImplementationOutcome, Do, At
  <2> QED
    BY <2>2 DEF LocalInv, Working, Executing, ExecuteAt, InRound
<1>2. LocalInv /\ [Next]_vars => [Honoured]_vars
  BY <1>1
<1> QED
  BY <1>2, Invariance, PTL DEF Spec, OutcomeHonoured
-----------------------------------------------------------------------------
(***************************************************************************)
(* Feedback: the heads it was given on, and the candidates that answer it.  *)
(***************************************************************************)

\* A candidate under review is another commit than the head it repairs.
Repaired == Repairing => cand # RepairBase

Vouched(g) == review.head = g /\ review.verdict \in {"pass", "findings"}

\* Feedback given on h is answered by a commit made from h; that commit is the
\* candidate or was repaired since, and as long as no other candidate followed
\* it the review the store shows is its own.
Answered(h) ==
  fb[h].life = "repair_verified" =>
    LET g == fb[h].bound IN
    /\ g \in DOMAIN commits /\ commits[g].parent = h
    /\ g = cand \/ \E i \in DOMAIN log.repairs : log.repairs[i] = g
    /\ g = cand \/ (Repairing /\ cand = NoHead /\ g = RepairBase) => Vouched(g)
    /\ g = cand /\ Repaired => review.repairs = Repairs

\* Commits follow their parents, and repairs begin from ever later heads.
Chronological ==
  /\ \A g \in DOMAIN commits : commits[g].parent < g
  /\ \A i \in DOMAIN log.repairs : log.repairs[i] <= RepairBase

AwaitsHead == {"precommit", "commit", "set_candidate"}
BeforeReview   == {"review_launch", "review_child", "review_finish", "review_save"}
AfterReview   == {"judge", "bind", "handoff"}

\* A candidate is set once, and reviewed again only if its last review says
\* nothing that could be reused.
Placed ==
  /\ ctl.at \in AwaitsHead => cand = NoHead
  /\ ctl.at \in BeforeReview \cup AfterReview => Repaired
  /\ ctl.at \in BeforeReview => ~Judged

FeedbackInv == Chronological /\ Placed /\ \A h \in Heads : Answered(h)
-----------------------------------------------------------------------------
\* No statement on candidates, reviews, feedback, commits or repairs, and no step
\* towards one.
Aside ==
  /\ UNCHANGED <<cand, review, fb, commits>> /\ log'.repairs = log.repairs
  /\ \/ ctl'.at \notin AwaitsHead \cup BeforeReview \cup AfterReview
     \/ ctl'.at = ctl.at

\* What the feedback rests on, where only the handler has moved.
LEMMA Framed ==
  ASSUME FeedbackInv, UNCHANGED <<cand, review, fb, commits>>, log'.repairs = log.repairs, Placed'
  PROVE  FeedbackInv'
<1>1. Chronological'
  BY DEF FeedbackInv, Chronological, RepairBase
<1>2. ASSUME NEW h \in Heads PROVE Answered(h)'
  BY DEF FeedbackInv, Answered, Vouched, Repaired, Repairing, RepairBase, Repairs
<1> QED
  BY <1>1, <1>2 DEF FeedbackInv

\* A step aside keeps it.
LEMMA AsideKept ==
  ASSUME FeedbackInv, Aside
  PROVE  FeedbackInv'
<1>1. Placed'
  BY DEF FeedbackInv, Aside, Placed, Repaired, Repairing, RepairBase, Judged, Reviewed, Repairs
<1> QED
  BY <1>1, Framed DEF Aside

\* The positions aside.
LEMMA Away ==
  /\ {"root", "root_reserve", "root_make", "root_write", "loop", "error", "retry", "idle", "parked", "add"} \subseteq Step \ (AwaitsHead \cup BeforeReview \cup AfterReview)
  /\ {"reserve_worktree", "make", "set_workspace", "own_branch", "own_worktree", "provisioned",
      "recover", "recovered", "lost", "execute", "launch", "child", "save_session", "finish", "apply",
      "accept", "accepted", "verify", "check", "verified", "review", "approve", "provision"}
       \subseteq Step \ (AwaitsHead \cup BeforeReview \cup AfterReview)
BY DEF Step, AwaitsHead, BeforeReview, AfterReview

\* The directories.
LEMMA WorkspaceAside ==
  ASSUME LocalInv, FeedbackInv, RootStep \/ ProvisionStep
  PROVE  FeedbackInv'
<1>1. TypeOK
  BY DEF LocalInv
<1>2. /\ UNCHANGED <<cand, review, fb, commits>> /\ log' = log
      /\ \/ \E step \in {"root", "root_reserve", "root_make", "root_write", "loop", "error",
                         "reserve_worktree", "make", "add",
                         "set_workspace", "own_branch", "own_worktree", "provisioned"} : Go(step)
         \/ Return
         \/ ctl' = [Idle EXCEPT !.at = "loop"]
  <2>1. CASE RootStep
    BY <2>1
    DEF RootStep, Enter, LookAtRoot, ReserveRoot, MakeRoot, CreateMarker, WriteMarker, OwnRoot, RefuseRoot,
        Refuse, Own, KeepStore, KeepWorld, runVars, logVars, proofVars
  <2>2. CASE ProvisionStep
    BY <2>2
    DEF ProvisionStep, ReserveBranch, ReserveWorktree, ReuseWorkspace, RecoverWorktree,
        RefuseWorktree, Provision, AddWorktree, SetWorkspace, OwnBranch, OwnWorktree, Provisioned, Refuse, Own,
        KeepStore, KeepWorld, runVars, logVars, proofVars, Transition, OnlyState
  <2> QED
    BY <2>1, <2>2
<1>3. ctl'.at \notin AwaitsHead \cup BeforeReview \cup AfterReview
  BY <1>1, <1>2, Moves, Away DEF AwaitsHead, BeforeReview, AfterReview
<1> QED
  BY <1>2, <1>3, AsideKept DEF Aside

\* The controller's handlers that only move, and what ends them early.
LEMMA FrameAside ==
  ASSUME LocalInv, FeedbackInv,
         \/ Continue \/ Admit \/ Dispatch \/ FrameStep \/ Crash \/ CallFails \/ ApprovalUnread
         \/ OperatorDecides \/ ForeignDirectory \/ DeadlinePasses \/ FeedbackDrift
         \/ RepairOverdue \/ RepairsExhausted \/ DecisionStep \/ FailAttempt
         \/ ReconcileInterruptedRun \/ UNCHANGED vars
  PROVE  FeedbackInv'
<1>1. TypeOK
  BY DEF LocalInv
<1>2. Aside
  <2>1. CASE Continue \/ FrameStep \/ CallFails
    <3>1. UNCHANGED <<cand, review, fb, commits>> /\ log' = log
      BY <2>1 DEF Continue, FrameStep, CallFails, DeadlineCancels, PolicyStops, ReturnError,
                  Refuse, KeepStore, KeepWorld, OnlyState, runVars, logVars, proofVars
    <3>2. \/ \E step \in {"loop", "error", "retry"} : Go(step)
          \/ Return \/ ctl' = [Idle EXCEPT !.at = "parked"]
      BY <2>1 DEF Continue, FrameStep, CallFails, DeadlineCancels, PolicyStops, ReturnError, Refuse
    <3> QED
      BY <1>1, <3>1, <3>2, Moves, Away DEF Aside, AwaitsHead, BeforeReview, AfterReview
  <2>2. CASE Crash \/ ApprovalUnread \/ DecisionStep
    <3>1. UNCHANGED <<cand, review, fb, commits>> /\ log'.repairs = log.repairs
      BY <1>1, <2>2 DEF Crash, ApprovalUnread, DecisionStep, WriteDecision, AcceptDecision, TypeOK,
                  Refuse, KeepStore, KeepWorld, OnlyState, runVars, logVars, proofVars
    <3>2. Go("accepted") \/ Go("error") \/ Return
      BY <2>2 DEF Crash, ApprovalUnread, DecisionStep, WriteDecision, AcceptDecision, Refuse
    <3> QED
      BY <1>1, <3>1, <3>2, Moves, Away DEF Aside, AwaitsHead, BeforeReview, AfterReview
  <2>3. CASE ForeignDirectory \/ DeadlinePasses \/ FeedbackDrift \/ RepairOverdue \/ RepairsExhausted
             \/ UNCHANGED vars
    BY <2>3 DEF ForeignDirectory, DeadlinePasses, FeedbackDrift, RepairOverdue, RepairsExhausted,
                vars, KeepStore, KeepWorld, OnlyState, runVars, logVars, proofVars, Aside
  <2>4. CASE FailAttempt
    <3>1. UNCHANGED <<cand, review, fb, commits>> /\ log' = log
      BY <2>4 DEF FailAttempt, Finish, SetAttempt, KeepWorld, runVars, proofVars
    <3>2. PICK how \in {"error", "retry"} : Go(how)
      BY <2>4 DEF FailAttempt
    <3>3. how \in Step /\ how \notin AwaitsHead \cup BeforeReview \cup AfterReview
      BY <3>2 DEF Step, AwaitsHead, BeforeReview, AfterReview
    <3>4. ctl'.at = how
      BY <1>1, <3>2, <3>3, Moves
    <3> QED
      BY <3>1, <3>3, <3>4 DEF Aside
  <2>5. CASE Admit \/ OperatorDecides
    <3>1. UNCHANGED <<cand, review, fb, commits>> /\ log' = log
      BY <2>5 DEF Admit, OperatorDecides, Transition, KeepStore, KeepWorld, OnlyState, runVars, logVars, proofVars
    <3>2. ctl'.at = "loop"
      BY <2>5 DEF Admit, OperatorDecides, Transition, Idle
    <3> QED
      BY <3>1, <3>2 DEF Aside, AwaitsHead, BeforeReview, AfterReview
  <2>6. CASE Dispatch
    <3>1. UNCHANGED <<cand, review, fb, commits>> /\ log' = log
      BY <2>6 DEF Dispatch, KeepStore, KeepWorld, runVars, logVars, proofVars
    <3>2. Handler \in {"provision", "execute", "verify", "review", "approve", "accept", "idle"}
      BY DEF Handler
    <3>3. ctl'.at \in {"provision", "execute", "verify", "review", "approve", "accept", "idle"}
      BY <1>1, <2>6, <3>2, Moves DEF Dispatch, Control, Idle
    <3> QED
      BY <3>1, <3>3 DEF Aside, AwaitsHead, BeforeReview, AfterReview
  <2>7. CASE ReconcileInterruptedRun
    <3>1. UNCHANGED <<cand, review, fb, commits>> /\ log' = log
      BY <2>7 DEF ReconcileInterruptedRun, Finish, SetAttempt, KeepStore, KeepWorld, runVars, logVars, proofVars
    <3>2. ctl' = ctl \/ ctl'.at \in {"recover", "lost"}
      BY <2>7 DEF ReconcileInterruptedRun, Idle
    <3> QED
      BY <3>1, <3>2 DEF Aside, AwaitsHead, BeforeReview, AfterReview
  <2> QED
    BY <2>1, <2>2, <2>3, <2>4, <2>5, <2>6, <2>7
<1> QED
  BY <1>2, AsideKept

\* A commit, by whomever, follows the head it was made on.
LEMMA CommitKept ==
  ASSUME LocalInv, FeedbackInv, NEW subject,
         commits' = Append(commits, [parent |-> disk.head, subject |-> subject]),
         UNCHANGED <<cand, review, fb, log>>, Placed'
  PROVE  FeedbackInv'
<1>1. commits \in Seq(CommitMetadata) /\ disk.head \in Nat /\ disk.head <= Len(commits)
  BY LocalBounds DEF LocalInv, TypeOK, Records
<1>2. /\ DOMAIN commits = 1..Len(commits) /\ Len(commits) \in Nat
      /\ DOMAIN commits' = 1..(Len(commits) + 1)
      /\ \A g \in DOMAIN commits : commits'[g] = commits[g]
      /\ commits'[Len(commits) + 1].parent = disk.head
  BY <1>1
<1>3. Chronological'
  <2>1. \A g \in DOMAIN commits' : commits'[g].parent < g
    BY <1>1, <1>2 DEF FeedbackInv, Chronological
  <2> QED
    BY <2>1 DEF FeedbackInv, Chronological, RepairBase
<1>4. ASSUME NEW h \in Heads PROVE Answered(h)'
  BY <1>2, SMTT(30) DEF FeedbackInv, Answered, Vouched, Repaired, Repairing, RepairBase, Repairs
<1> QED
  BY <1>3, <1>4 DEF FeedbackInv

\* Attempts.
LEMMA ExecuteAside ==
  ASSUME LocalInv, FeedbackInv, ExecuteStep
  PROVE  FeedbackInv'
<1>1. TypeOK
  BY DEF LocalInv
<1>2. CASE \/ FailUnlaunched \/ FindInterrupted \/ ReuseOutcome \/ RefuseResume
           \/ BeginImplementation \/ SetImplementationSession \/ FinishAttempt \/ FinishRecovered
           \/ SessionLost \/ ApplyImplementationOutcome
  <2>1. UNCHANGED <<cand, review, fb, commits>> /\ log' = log
    BY <1>2
    DEF FailUnlaunched, FindInterrupted, ReuseOutcome, RefuseResume, BeginImplementation,
        SetImplementationSession, FinishAttempt, FinishRecovered, SessionLost,
        ApplyImplementationOutcome, Finish, SetAttempt, BeginAttempt, Refuse, Transition,
        KeepStore, KeepWorld, OnlyState, runVars, logVars, proofVars
  <2>2. ctl'.at \in {"execute", "recover", "lost", "apply", "error", "launch", "finish", "recovered",
                     "idle", "loop"}
    <3>1. CASE FailUnlaunched \/ FindInterrupted \/ ReuseOutcome
      BY <1>1, <3>1, Moves DEF FailUnlaunched, FindInterrupted, ReuseOutcome, Do, At, Control
    <3>2. CASE \/ RefuseResume \/ BeginImplementation \/ SetImplementationSession \/ FinishAttempt
               \/ FinishRecovered \/ SessionLost
      <4>1. \/ \E step \in {"error", "launch", "finish", "recovered", "apply", "execute"} : Go(step)
            \/ Return
        BY <3>2 DEF RefuseResume, BeginImplementation, SetImplementationSession, FinishAttempt,
                    FinishRecovered, SessionLost, Refuse
      <4> QED
        BY <1>1, <4>1, Moves, Away
    <3>3. CASE ApplyImplementationOutcome
      BY <3>3 DEF ApplyImplementationOutcome, Transition, Idle
    <3> QED
      BY <1>2, <3>1, <3>2, <3>3
  <2> QED
    BY <2>1, <2>2, AsideKept DEF Aside, AwaitsHead, BeforeReview, AfterReview
<1>3. CASE CommitAttemptProcessLaunch
  <2>1. UNCHANGED <<cand, review, fb, commits>> /\ log' = log
    BY <1>3 DEF CommitAttemptProcessLaunch, Finish, SetAttempt, KeepWorld, runVars, proofVars
  <2>2. ctl'.at = "child" \/ (ctl.at = "review_launch" /\ ctl'.at = "review_child")
    BY <1>1, <1>3, Moves DEF CommitAttemptProcessLaunch, Do, At, Step
  <2>3. Placed'
    BY <2>1, <2>2 DEF FeedbackInv, Placed, Repaired, Repairing, RepairBase, Judged, Reviewed, Repairs,
                      AwaitsHead, BeforeReview, AfterReview
  <2> QED
    BY <2>1, <2>3, Framed
<1>4. CASE CodexEnds
  <2>1. UNCHANGED <<cand, review, fb, log>> /\ ctl'.at = "save_session"
    BY <1>1, <1>4, Moves DEF CodexEnds, Control, KeepStore, runVars, logVars, proofVars
  <2>2. Placed'
    BY <2>1 DEF Placed, AwaitsHead, BeforeReview, AfterReview
  <2>3. \/ commits' = commits
        \/ \E subject \in {"candidate", "other"} :
             commits' = Append(commits, [parent |-> disk.head, subject |-> subject])
    BY <1>4 DEF CodexEnds
  <2> QED
    BY <2>1, <2>2, <2>3, Framed, CommitKept
<1> QED
  BY <1>2, <1>3, <1>4 DEF ExecuteStep

\* From an implementation to a candidate.
LEMMA VerifyAside ==
  ASSUME LocalInv, FeedbackInv, VerifyStep
  PROVE  FeedbackInv'
<1>1. TypeOK
  BY DEF LocalInv
<1>2. CASE RecoverCandidate \/ KeepRepairBase \/ StartPrecommit
  <2>1. cand = NoHead /\ UNCHANGED <<cand, review, fb, commits>> /\ log' = log
    BY <1>2 DEF RecoverCandidate, KeepRepairBase, StartPrecommit, Candidate, KeepStore, KeepWorld,
                runVars, logVars, proofVars
  <2>2. ctl'.at \in {"set_candidate", "precommit"}
    BY <1>1, <1>2, Moves DEF RecoverCandidate, KeepRepairBase, StartPrecommit, Candidate, Control
  <2>3. Placed'
    BY <2>1, <2>2 DEF Placed, AwaitsHead, BeforeReview, AfterReview, NoHead
  <2> QED
    BY <2>1, <2>3, Framed
<1>3. CASE PrecommitVerification
  <2>1. /\ cand = NoHead /\ UNCHANGED <<cand, review, fb, commits>> /\ log' = log
        /\ Go("commit") \/ Go("error")
    BY <1>3 DEF PrecommitVerification, Mutated, KeepStore, KeepWorld, runVars, logVars, proofVars,
                Do, At, FeedbackInv, Placed, AwaitsHead
  <2>2. ctl'.at \in {"commit", "error"}
    BY <1>1, <2>1, Moves DEF Step
  <2>3. Placed'
    BY <2>1, <2>2 DEF Placed, AwaitsHead, BeforeReview, AfterReview, NoHead
  <2> QED
    BY <2>1, <2>3, Framed
<1>4. CASE CommitCandidate
  <2>1. cand = NoHead /\ UNCHANGED <<cand, review, fb, log>>
    BY <1>4 DEF CommitCandidate, KeepStore, runVars, logVars, proofVars, Do, At, FeedbackInv, Placed,
                AwaitsHead
  <2>2. ctl'.at = "set_candidate"
    BY <1>1, <1>4, Moves DEF CommitCandidate, Control
  <2>3. Placed'
    BY <2>1, <2>2 DEF Placed, AwaitsHead, BeforeReview, AfterReview, NoHead
  <2> QED
    BY <1>4, <2>1, <2>3, CommitKept DEF CommitCandidate
<1>5. CASE SetCandidateHead
  <2>1. /\ cand = NoHead /\ cand' = ctl.head /\ Acceptable(cand')
        /\ UNCHANGED <<review, fb, log, commits>> /\ Go("check")
    BY <1>5 DEF SetCandidateHead, Do, At, FeedbackInv, Placed, AwaitsHead, LocalInv, Working, Verifying,
                VerifyAt, KeepWorld, logVars, proofVars
  <2>2. Placed'
    BY <1>1, <2>1, Moves, Away DEF Placed, AwaitsHead, BeforeReview, AfterReview
  <2>3. ASSUME NEW h \in Heads, fb[h].life = "repair_verified", fb[h].bound = cand'
        PROVE  Repairing /\ cand' = RepairBase /\ Vouched(cand')
    <3>1. cand' \in DOMAIN commits /\ cand' # NoHead
      BY <2>1, <2>3, LocalBounds DEF FeedbackInv, Answered, LocalInv, TypeOK, Records, NoHead
    <3>2. PICK i \in DOMAIN log.repairs : log.repairs[i] = cand'
      BY <2>1, <2>3, <3>1 DEF FeedbackInv, Answered
    <3>3. Repairing /\ log.repairs[i] <= RepairBase
      BY <1>1, <3>2 DEF FeedbackInv, Chronological, Repairing, TypeOK
    <3>4. cand' = RepairBase
      <4>1. CASE commits[cand'] = [parent |-> Expected, subject |-> "candidate"]
        <5>1. commits[cand'].parent = RepairBase /\ commits[cand'].parent < cand'
          BY <3>1, <3>3, <4>1 DEF Expected, FeedbackInv, Chronological
        <5>2. RepairBase \in Nat /\ cand' \in Nat
          BY <1>1, <3>1, <3>3, BaseOfRepair DEF Heads, TypeOK
        <5> QED
          BY <3>2, <3>3, <5>1, <5>2
      <4> QED
        BY <2>1, <4>1 DEF Acceptable
    <3> QED
      BY <2>1, <2>3, <3>3, <3>4 DEF FeedbackInv, Answered
  <2>4. ASSUME NEW h \in Heads PROVE Answered(h)'
    <3> SUFFICES ASSUME fb[h].life = "repair_verified" PROVE Answered(h)'
      BY <2>1 DEF Answered
    <3>1. fb[h].bound \in DOMAIN commits /\ fb[h].bound # NoHead /\ cand' # NoHead
      BY <1>1, <1>5, <2>1, LocalBounds
      DEF FeedbackInv, Answered, LocalInv, TypeOK, Records, NoHead, Working, Verifying, VerifyAt,
          Heads, SetCandidateHead, Do, At
    <3>2. /\ commits[fb[h].bound].parent = h
          /\ \E i \in DOMAIN log.repairs : log.repairs[i] = fb[h].bound
      BY <2>1, <3>1 DEF FeedbackInv, Answered
    <3> QED
      BY <2>1, <2>3, <3>1, <3>2 DEF Answered, Vouched, Repaired, Repairing, RepairBase
  <2>5. Chronological'
    BY <2>1 DEF FeedbackInv, Chronological, RepairBase
  <2> QED
    BY <2>2, <2>4, <2>5 DEF FeedbackInv
<1>6. CASE \/ RefuseCandidate \/ SkipToCheck \/ RefuseCheck \/ ReuseVerification \/ RunVerification
           \/ Verified
  <2>1. UNCHANGED <<cand, review, fb, commits>> /\ log' = log
    BY <1>6
    DEF RefuseCandidate, SkipToCheck, RefuseCheck, ReuseVerification, RunVerification, Verified,
        Refuse, Save, Mutated, Transition, KeepStore, KeepWorld, OnlyState, runVars, logVars, proofVars
  <2>2. \/ \E step \in {"error", "check", "verified"} : Go(step)
        \/ Return
        \/ ctl' = [Idle EXCEPT !.at = "loop"]
    BY <1>6
    DEF RefuseCandidate, SkipToCheck, RefuseCheck, ReuseVerification, RunVerification, Verified,
        Refuse, Transition
  <2>3. ctl'.at \in {"error", "check", "verified", "idle", "loop"}
    BY <1>1, <2>2, Moves, Away
  <2> QED
    BY <2>1, <2>3, AsideKept DEF Aside, AwaitsHead, BeforeReview, AfterReview
<1> QED
  BY <1>2, <1>3, <1>4, <1>5, <1>6 DEF VerifyStep

\* The review, and the feedback its candidate answers.
LEMMA ReviewAside ==
  ASSUME LocalInv, FeedbackInv, ReviewStep
  PROVE  FeedbackInv'
<1>1. TypeOK
  BY DEF LocalInv
<1>2. CASE RefuseReview \/ FailUnlaunchedReview \/ AuthorizeReview \/ PersistFreshReviewFindings
           \/ ValidateApproval
  <2>1. UNCHANGED <<cand, review, fb, commits>> /\ log' = log
    BY <1>2
    DEF RefuseReview, FailUnlaunchedReview, AuthorizeReview, PersistFreshReviewFindings,
        ValidateApproval, Refuse, Finish, SetAttempt, Transition, KeepStore, KeepWorld, OnlyState,
        runVars, logVars, proofVars
  <2>2. ctl' = ctl \/ Go("error") \/ Return \/ ctl' = [Idle EXCEPT !.at = "loop"]
    BY <1>2
    DEF RefuseReview, FailUnlaunchedReview, AuthorizeReview, PersistFreshReviewFindings,
        ValidateApproval, Refuse, Transition
  <2>3. ctl'.at = ctl.at \/ ctl'.at \in {"error", "idle", "loop"}
    BY <1>1, <2>2, Moves, Away
  <2> QED
    BY <2>1, <2>3, AsideKept DEF Aside, AwaitsHead, BeforeReview, AfterReview
<1>3. CASE ReuseReview \/ BeginReview \/ ReviewerEnds \/ FinishReview \/ JudgeReview
  <2>1. UNCHANGED <<cand, review, fb, commits>> /\ log' = log
    BY <1>3
    DEF ReuseReview, BeginReview, ReviewerEnds, FinishReview, JudgeReview, BeginAttempt, SetAttempt,
        KeepStore, KeepWorld, runVars, logVars, proofVars
  <2>2. \/ ctl'.at = "error"
        \/ Repaired /\ ctl'.at \in AfterReview
        \/ Repaired /\ ~Judged /\ ctl'.at \in BeforeReview
    <3>1. CASE ReuseReview \/ BeginReview
      <4>1. \/ Repaired /\ Go("judge")
            \/ Repaired /\ ~Judged /\ Go("review_launch")
        BY <3>1 DEF ReuseReview, BeginReview, ReviewReady, RepairReviewable, Repaired
      <4> QED
        BY <1>1, <4>1, Moves DEF Step, BeforeReview, AfterReview
    <3>2. CASE ReviewerEnds
      BY <1>1, <3>2, Moves DEF ReviewerEnds, Control, Do, At, FeedbackInv, Placed, BeforeReview
    <3>3. CASE FinishReview \/ JudgeReview
      <4>1. \/ Repaired /\ ~Judged /\ Go("review_save")
            \/ Repaired /\ (Go("bind") \/ Go("handoff"))
            \/ Go("error")
        BY <3>3 DEF FinishReview, JudgeReview, Do, At, FeedbackInv, Placed, BeforeReview, AfterReview
      <4> QED
        BY <1>1, <4>1, Moves DEF Step, BeforeReview, AfterReview
    <3> QED
      BY <1>3, <3>1, <3>2, <3>3
  <2>3. Placed'
    BY <2>1, <2>2 DEF Placed, Repaired, Repairing, RepairBase, Judged, Reviewed, Repairs,
                      AwaitsHead, BeforeReview, AfterReview
  <2> QED
    BY <2>1, <2>3, Framed
<1>4. CASE SaveReview
  <2>1. /\ UNCHANGED <<cand, fb, commits, log>> /\ Go("judge")
        /\ review' = [head |-> ctl.head, repairs |-> Repairs, verdict |-> ctl.result]
        /\ Repaired /\ ~Judged /\ cand \in Heads
    BY <1>4 DEF SaveReview, KeepWorld, runVars, logVars, Do, At, FeedbackInv, Placed, BeforeReview,
                LocalInv, Working, Reviewing, ReviewAt, Backed
  <2>2. Placed'
    <3>1. ctl'.at = "judge"
      BY <1>1, <2>1, Moves DEF Step
    <3> QED
      BY <2>1, <3>1 DEF Placed, Repaired, Repairing, RepairBase, AwaitsHead, BeforeReview, AfterReview
  <2>3. ASSUME NEW h \in Heads, fb[h].life = "repair_verified" PROVE fb[h].bound # cand
    BY <2>1, <2>3 DEF FeedbackInv, Answered, Vouched, Judged, Reviewed
  <2>4. cand # NoHead
    BY <2>1, LocalBounds DEF Heads, NoHead
  <2>5. ASSUME NEW h \in Heads PROVE Answered(h)'
    BY <2>1, <2>3, <2>4 DEF FeedbackInv, Answered, Repaired, Repairing, RepairBase
  <2>6. Chronological'
    BY <2>1 DEF FeedbackInv, Chronological, RepairBase
  <2> QED
    BY <2>2, <2>5, <2>6 DEF FeedbackInv
<1>5. CASE TransitionTrustedReviewFeedback
  <2>1. /\ UNCHANGED <<cand, review, commits, ctl>> /\ log' = log
        /\ Repaired /\ cand \in Heads /\ Reviewed /\ review.verdict = "pass"
    BY <1>5 DEF TransitionTrustedReviewFeedback, KeepWorld, runVars, logVars, Do, At, FeedbackInv, Placed,
                AfterReview, LocalInv, Working, Reviewing, ReviewAt, Backed
  <2>2. PICK b \in Heads :
          /\ Bound(b)
          /\ fb' = [fb EXCEPT ![b] = [life |-> "repair_verified", bound |-> cand]]
    BY <1>5 DEF TransitionTrustedReviewFeedback
  <2>3. cand \in DOMAIN commits /\ commits[cand].parent = b
    <3>1. Repairing /\ b = RepairBase /\ cand # RepairBase /\ cand # NoHead
      BY <2>1, <2>2, LocalBounds DEF Bound, Repaired, Heads, NoHead
    <3> QED
      BY <3>1 DEF LocalInv, Records, Acceptable, Expected
  <2>4. fb'[b] = [life |-> "repair_verified", bound |-> cand] /\ \A h \in Heads \ {b} : fb'[h] = fb[h]
    BY <1>1, <2>2 DEF TypeOK
  <2>5. Answered(b)'
    BY <2>1, <2>3, <2>4 DEF Answered, Vouched, Reviewed, Repairs
  <2>6. ASSUME NEW h \in Heads \ {b} PROVE Answered(h)'
    BY <2>1, <2>4 DEF FeedbackInv, Answered, Vouched, Repaired, Repairing, RepairBase, Repairs
  <2>7. Placed' /\ Chronological'
    BY <2>1 DEF FeedbackInv, Placed, Chronological, Repaired, Repairing, RepairBase, Judged, Reviewed,
                Repairs
  <2> QED
    BY <2>5, <2>6, <2>7 DEF FeedbackInv
<1> QED
  BY <1>2, <1>3, <1>4, <1>5 DEF ReviewStep

\* Delivery sends a candidate back, and the repair begins from it.
LEMMA RepairAside ==
  ASSUME LocalInv, FeedbackInv, RequestRepair \/ BeginRepair
  PROVE  FeedbackInv'
<1>1. TypeOK
  BY DEF LocalInv
<1>2. CASE RequestRepair
  <2>1. UNCHANGED <<cand, review, commits, ctl>> /\ log' = log
    BY <1>2 DEF RequestRepair, KeepWorld, logVars
  <2>2. \A h \in Heads : fb'[h] = fb[h] \/ fb'[h].life # "repair_verified"
    BY <1>1, <1>2 DEF RequestRepair, TypeOK
  <2>3. Placed' /\ Chronological'
    BY <2>1 DEF FeedbackInv, Placed, Chronological, Repaired, Repairing, RepairBase, Judged, Reviewed,
                Repairs
  <2>4. ASSUME NEW h \in Heads PROVE Answered(h)'
    BY <2>1, <2>2 DEF FeedbackInv, Answered, Vouched, Repaired, Repairing, RepairBase, Repairs
  <2> QED
    BY <2>3, <2>4 DEF FeedbackInv
<1>3. CASE BeginRepair
  <2>1. /\ UNCHANGED <<review, commits, fb>> /\ cand' = NoHead /\ cand \in Heads
        /\ log' = [log EXCEPT !.repairs = Append(@, cand)] /\ ctl'.at = "loop"
    BY <1>3 DEF BeginRepair, StartsRepair, KeepWorld, proofVars, Idle, LocalInv, Backed
  <2>2. /\ log'.repairs = Append(log.repairs, cand) /\ log.repairs \in Seq(Heads)
    BY <1>1, <2>1 DEF TypeOK
  <2>3. /\ DOMAIN log.repairs = 1..Repairs /\ Repairs \in Nat
        /\ DOMAIN log'.repairs = 1..(Repairs + 1)
        /\ \A i \in DOMAIN log.repairs : log'.repairs[i] = log.repairs[i]
        /\ log'.repairs[Repairs + 1] = cand
    BY <2>1, <2>2 DEF Repairs
  <2>4. Repairing' /\ RepairBase' = cand
    BY <2>1, <2>2, <2>3 DEF Repairing, RepairBase, Repairs
  <2>5. \A i \in DOMAIN log.repairs : log.repairs[i] <= cand
    <3> SUFFICES ASSUME NEW i \in DOMAIN log.repairs PROVE log.repairs[i] <= cand
      OBVIOUS
    <3>1. Repairing /\ log.repairs[i] \in Heads /\ log.repairs[i] <= RepairBase
      <4>1. log.repairs[i] \in Heads /\ log.repairs # <<>>
        BY <2>2
      <4>2. log.repairs[i] <= RepairBase
        BY DEF FeedbackInv, Chronological
      <4> QED
        BY <4>1, <4>2 DEF Repairing
    <3>2. RepairBase \in Nat /\ cand \in Nat /\ cand # NoHead
      BY <1>1, <2>1, <3>1, BaseOfRepair, LocalBounds DEF Heads, NoHead
    <3>3. cand = RepairBase \/ (cand \in DOMAIN commits /\ commits[cand].parent = RepairBase)
      BY <3>1, <3>2 DEF LocalInv, Records, Acceptable, Expected
    <3>4. RepairBase <= cand
      BY <3>2, <3>3 DEF FeedbackInv, Chronological
    <3> QED
      BY <3>1, <3>2, <3>4 DEF Heads
  <2>6. Chronological'
    BY <2>1, <2>3, <2>4, <2>5 DEF FeedbackInv, Chronological, Heads
  <2>7. ASSUME NEW h \in Heads, fb[h].life = "repair_verified" PROVE Answered(h)'
    <3>1. /\ fb[h].bound \in DOMAIN commits /\ commits[fb[h].bound].parent = h
          /\ fb[h].bound # NoHead
      BY <1>1, <2>7, LocalBounds DEF FeedbackInv, Answered, LocalInv, Records, TypeOK, NoHead
    <3>2. \E i \in DOMAIN log'.repairs : log'.repairs[i] = fb[h].bound
      BY <2>3, <2>7 DEF FeedbackInv, Answered
    <3>3. fb[h].bound = cand => Vouched(fb[h].bound)
      BY <2>7 DEF FeedbackInv, Answered
    <3> QED
      BY <2>1, <2>4, <3>1, <3>2, <3>3 DEF Answered, Vouched
  <2>8. Placed'
    BY <2>1 DEF Placed, AwaitsHead, BeforeReview, AfterReview
  <2> QED
    BY <2>1, <2>6, <2>7, <2>8 DEF FeedbackInv, Answered
<1> QED
  BY <1>2, <1>3

\* Initially no feedback is given and nothing is committed.
LEMMA FeedbackStarts == Init => FeedbackInv
BY DEF Init, FeedbackInv, Chronological, Placed, Answered, Idle, AwaitsHead, BeforeReview, AfterReview

\* Every step keeps what the feedback rests on.
LEMMA FeedbackKept == LocalInv /\ FeedbackInv /\ [Next]_vars => FeedbackInv'
BY WorkspaceAside, FrameAside, ExecuteAside, VerifyAside, ReviewAside, RepairAside
DEF Next, ControllerStep, RepairStep, DeliveryStep

\* TransitionTrustedReviewFeedback: feedback is reported repaired only by a
\* candidate made from the head it was given on and passed by its own review,
\* in every instance.
THEOREM FeedbackAnswered == Spec => []FeedbackRepaired
<1>1. LocalInv /\ FeedbackInv => FeedbackRepaired
  <2> SUFFICES ASSUME LocalInv, FeedbackInv, NEW h \in Heads, fb[h].life = "repair_verified"
               PROVE  /\ fb[h].bound \in Heads /\ commits[fb[h].bound].parent = h
                      /\ fb[h].bound = cand => review.head = cand /\ review.verdict \in {"pass", "findings"}
    BY DEF FeedbackRepaired
  <2>1. fb[h].bound \in DOMAIN commits
    BY DEF FeedbackInv, Answered
  <2>2. fb[h].bound \in Heads
    BY <2>1, LocalBounds DEF LocalInv, TypeOK, Records, Heads
  <2> QED
    BY <2>2 DEF FeedbackInv, Answered, Vouched
<1> QED
  BY <1>1, Invariance, FeedbackStarts, FeedbackKept, PTL DEF Spec
=============================================================================
