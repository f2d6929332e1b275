----------------------------- MODULE ConfigApply -----------------------------
(***************************************************************************)
(* ConfigurationService: the baseline, the reconciliation of an intent left *)
(* behind, an apply with its exchange of the live file, and the pruning of  *)
(* raw files.  Everything that changes a file is done under the mutation    *)
(* lock, which is never waited for and is free again when its holder dies.  *)
(***************************************************************************)
EXTENDS ConfigState

Leave(p)   == lock' = Absent /\ Rest(p)
Acquire(p) == lock = Absent /\ lock' = p
Busy       == lock # Absent /\ UNCHANGED lock

(* ------------------------------ commands ------------------------------- *)

\* A command that loads the managed configuration: Initialize, then Reconcile.
StartCommand(p) ==
  /\ At(p, "idle")
  /\ actor' = [actor EXCEPT ![p].pc = "read", ![p].job = "load"]
  /\ UNCHANGED <<storeVars, fileVars, lock, loaded, edits, troubles>>

\* The operation <<e, d>> has a generation and a receipt.
Known(e, d) == {g \in DOMAIN generations : generations[g].parent = e /\ DigestOf(g) = d}

\* An operation already settled is answered from its receipt, and an apply of
\* what is desired only records a receipt: neither is started here.
StartApply(p) ==
  /\ At(p, "idle")
  /\ Desired # 0
  /\ Len(generations) + Cardinality({q \in Procs : actor[q].job = "apply"}) < MaxGenerations
  /\ \E d \in Digests \ {DigestOf(Desired)} :
       /\ Known(Desired, d) \subseteq Incomplete
       /\ actor' = [actor EXCEPT ![p].pc = "read", ![p].job = "apply",
                                 ![p].parent = Desired, ![p].target = d]
  /\ UNCHANGED <<storeVars, fileVars, lock, loaded, edits, troubles>>

\* pruneLocked, and what is left of the job after it.
Prune(p, job) == actor' = [actor EXCEPT ![p].pc = "prune", ![p].job = job,
                                        ![p].seen = NoSnapshot, ![p].content = Absent]

(* ------------------------------ Reconcile ------------------------------ *)

\* The apply in progress has become the desired generation.
Committed(p) == Desired \in Known(actor[p].parent, actor[p].target)

\* Where a caller of Reconcile goes when nothing is left to settle.
AfterReconcile(p) ==
  CASE actor[p].job = "load"    -> Step(p, "prune_lock")
    [] actor[p].job = "loaded"  -> Step(p, "compose")
    [] actor[p].job = "replace" -> IF Committed(p) THEN Step(p, "look") ELSE Rest(p)
    [] OTHER                    -> Step(p, "look")

\* loadManagedConfiguration composes over an ambiguous apply, nothing else does.
AfterAmbiguous(p) ==
  IF actor[p].job = "load"
  THEN actor' = [actor EXCEPT ![p] = [Resting EXCEPT !.pc = "compose", !.job = "load"]]
  ELSE Rest(p)

ReadAuthority(p) ==
  /\ At(p, "read")
  /\ IF Desired = 0 THEN Step(p, "bind")
     ELSE IF DigestOf(Desired) \notin rawFiles THEN Rest(p)
     ELSE IF Intent = 0 THEN AfterReconcile(p)
     ELSE IF generations[Intent].life = "ambiguous" THEN AfterAmbiguous(p)
     ELSE actor' = [actor EXCEPT ![p].pc = "reconcile", ![p].seen = Snapshot(p)]
  /\ UNCHANGED <<storeVars, fileVars, lock, loaded, edits, troubles>>

TargetOf(p) == DigestOf(actor[p].seen.intent)
ParentOf(p) == DigestOf(actor[p].seen.desired)

\* A bug: an apply that died before its settlement counts as one that did not replace.
FaultyVerdict(p) ==
  IF generations[actor[p].seen.intent].parent = actor[p].seen.desired THEN "failed" ELSE "ambiguous"

\* What the reconciliation settles, from the live content it read; Absent
\* stands for evidence that could not be read or proved.
Verdict(p) ==
  IF actor[p].content = TargetOf(p) THEN "committed"
  ELSE IF /\ actor[p].content = ParentOf(p)
          /\ generations[actor[p].seen.intent].parent = actor[p].seen.desired THEN "failed"
  ELSE "ambiguous"

Found(p, c, s) == actor' = [actor EXCEPT ![p].pc = s, ![p].content = c]

ReconcileReplacement(p) ==
  LET target == TargetOf(p)
      parent == ParentOf(p)
      staged == Staged(actor[p].seen.intent)
  IN
  /\ At(p, "reconcile")
  /\ \/ Busy /\ Rest(p) /\ NoTrouble
     \/ /\ Acquire(p) /\ NoTrouble
        /\ \/ ~({target, parent} \subseteq rawFiles) /\ Found(p, Absent, "rec_settle")
           \/ /\ {target, parent} \subseteq rawFiles
              /\ \/ staged = Absent /\ Found(p, live, "rec_settle")
                 \/ staged = parent /\ live = target /\ Found(p, live, "rec_remove")
                 \/ staged \notin {Absent, parent} /\ live = target /\ Found(p, live, "rec_swap")
                 \/ staged = target /\ live \notin {target} \cup Foreign /\ Found(p, live, "rec_remove")
                 \/ staged = target /\ live \in Foreign /\ Found(p, Absent, "rec_settle")
                 \/ staged \notin {Absent, target} /\ live # target /\ Found(p, Absent, "rec_settle")
     \/ /\ Acquire(p) /\ Trouble      \* the directory does not synchronize
        /\ staged = Absent \/ <<staged, live>> = <<parent, target>>
        /\ Found(p, Absent, "rec_settle")
  /\ UNCHANGED <<storeVars, fileVars, loaded, edits>>

Exchange(g) == /\ live' = stage.content
               /\ stage' = [gen |-> g, content |-> live]

\* A bug: what the exchange captured is dropped with the swap file.
FaultyRestoreCaptured(p) ==
  /\ At(p, "rec_swap") /\ Step(p, "rec_reread") /\ NoTrouble
  /\ UNCHANGED <<storeVars, fileVars, lock, loaded, edits>>

\* A crash after the exchange had captured a third party's edit: put it back.
RestoreCaptured(p) ==
  /\ At(p, "rec_swap")
  /\ \/ Exchange(stage.gen) /\ Step(p, "rec_reread") /\ NoTrouble
     \/ Exchange(stage.gen) /\ Found(p, Absent, "rec_settle") /\ Trouble
     \/ UNCHANGED <<live, stage>> /\ Found(p, Absent, "rec_settle") /\ Trouble
  /\ UNCHANGED <<storeVars, binding, rawFiles, lock, loaded, edits>>

RereadLive(p) ==
  /\ At(p, "rec_reread")
  /\ IF live \in Foreign THEN Found(p, Absent, "rec_settle") ELSE Found(p, live, "rec_remove")
  /\ UNCHANGED <<storeVars, fileVars, lock, loaded, edits, troubles>>

RemoveStage(p) ==
  /\ At(p, "rec_remove")
  /\ \/ stage' = NoStage /\ Step(p, "rec_settle") /\ NoTrouble
     \/ stage' \in {stage, NoStage} /\ Found(p, Absent, "rec_settle") /\ Trouble
  /\ UNCHANGED <<storeVars, binding, rawFiles, live, lock, loaded, edits>>

(* ------------------------- the store's settlement ----------------------- *)

Status(g) == IF generations[g].life \in {"accepted", "failed", "ambiguous"}
             THEN generations[g].life ELSE "committed"

\* A bug: an intent already settled is settled again.
FaultyMaySettle(g, outcome) == generations[g].parent = Desired

MaySettle(g, outcome) ==
  \/ Status(g) = outcome
  \/ Status(g) = "accepted" /\ generations[g].parent = Desired

Settle(g, outcome) ==
  /\ IF Status(g) = outcome THEN UNCHANGED <<authority, generations>>
     ELSE IF outcome = "committed"
     THEN /\ generations' = [generations EXCEPT ![g].life = "pending_restart",
                                                ![Desired].life = "superseded"]
          /\ authority' = [desired |-> g, version |-> authority.version + 1, drifted |-> FALSE]
     ELSE /\ generations' = [generations EXCEPT ![g].life = outcome]
          /\ UNCHANGED authority
  /\ UNCHANGED <<claims, active>>

SettleReconciled(p) ==
  LET g == actor[p].seen.intent IN
  /\ At(p, "rec_settle")
  /\ IF MaySettle(g, Verdict(p))
     THEN /\ Settle(g, Verdict(p))
          /\ IF Verdict(p) = "ambiguous"
             THEN lock' = Absent /\ AfterAmbiguous(p)
             ELSE Prune(p, actor[p].job) /\ UNCHANGED lock
     ELSE Leave(p) /\ UNCHANGED storeVars
  /\ UNCHANGED <<fileVars, loaded, edits, troubles>>

(* -------------------------------- Apply -------------------------------- *)

CheckApply(p) ==
  LET e == actor[p].parent
      d == actor[p].target
  IN /\ At(p, "check")
     /\ IF /\ Intent = 0 /\ Known(e, d) = {}
           /\ e = Desired /\ live = DigestOf(e) /\ DigestOf(e) \in rawFiles
           /\ Supported(d)
        THEN Step(p, "apply_lock") ELSE Rest(p)
     /\ UNCHANGED <<storeVars, fileVars, lock, loaded, edits, troubles>>

RetainTarget(p) ==
  /\ At(p, "apply_lock")
  /\ \/ Busy /\ Rest(p) /\ NoTrouble /\ UNCHANGED rawFiles
     \/ /\ Acquire(p) /\ Step(p, "begin") /\ NoTrouble
        /\ rawFiles' = (rawFiles \cap Referenced) \cup {actor[p].target}
     \/ /\ lock = Absent /\ Leave(p) /\ Trouble
        /\ rawFiles' = rawFiles \cap Referenced
  /\ UNCHANGED <<storeVars, binding, live, stage, loaded, edits>>

\* A bug: the raw file of the target may be half way through a prune.
FaultyMayBegin(e, d) ==
  Incomplete = {} /\ Desired = e /\ Supported(d)

MayBegin(e, d) ==
  Incomplete = {} /\ Desired = e /\ d \notin claims /\ Supported(d)

\* removeUnreferencedRaw, on the way out of a refused apply.
Unreferenced(d) == rawFiles \ ({d} \ Referenced)

BeginApply(p) ==
  LET e == actor[p].parent
      d == actor[p].target
  IN /\ At(p, "begin")
     /\ IF Known(e, d) # {}     \* another caller's: its receipt is the answer
        THEN Leave(p) /\ UNCHANGED <<generations, rawFiles>>
        ELSE IF MayBegin(e, d)
        THEN /\ generations' = Append(generations,
                  [digest |-> d, parent |-> e, life |-> "accepted", raw |-> TRUE])
             /\ Step(p, "stage") /\ UNCHANGED <<rawFiles, lock>>
        ELSE /\ rawFiles' = Unreferenced(d)
             /\ Leave(p) /\ UNCHANGED generations
     /\ UNCHANGED <<authority, claims, active, binding, live, stage, loaded, edits, troubles>>

\* The replacement failed: give the lock back and reconcile what was left.
Fail(p) == /\ lock' = Absent
           /\ actor' = [actor EXCEPT ![p].pc = "read", ![p].job = "replace"]

\* The generation of the apply in progress.
Own(p) == CHOOSE g \in Known(actor[p].parent, actor[p].target) : TRUE

StageTarget(p) ==
  /\ At(p, "stage")
  /\ \/ /\ live = DigestOf(actor[p].parent)
        /\ stage' = [gen |-> Own(p), content |-> actor[p].target]
        /\ Step(p, "swap") /\ NoTrouble /\ UNCHANGED lock
     \/ live # DigestOf(actor[p].parent) /\ Fail(p) /\ NoTrouble /\ UNCHANGED stage
     \/ Fail(p) /\ Trouble /\ UNCHANGED stage
  /\ UNCHANGED <<storeVars, binding, rawFiles, live, loaded, edits>>

SwapLive(p) ==
  /\ At(p, "swap")
  /\ \/ Exchange(Own(p)) /\ Step(p, "captured") /\ NoTrouble /\ UNCHANGED lock
     \/ stage' \in {stage, NoStage} /\ UNCHANGED live /\ Fail(p) /\ Trouble
  /\ UNCHANGED <<storeVars, binding, rawFiles, loaded, edits>>

\* What was replaced is compared with what was to be replaced.
CheckCaptured(p) ==
  LET expected == stage.content = DigestOf(actor[p].parent) IN
  /\ At(p, "captured")
  /\ \/ /\ expected /\ stage' = NoStage /\ UNCHANGED live
        /\ Step(p, "verify") /\ NoTrouble /\ UNCHANGED lock
     \/ /\ expected /\ stage' \in {stage, NoStage} /\ UNCHANGED live
        /\ Fail(p) /\ Trouble
     \/ /\ ~expected /\ live' = stage.content /\ stage' = NoStage
        /\ Fail(p) /\ NoTrouble
     \/ ~expected /\ Exchange(stage.gen) /\ Fail(p) /\ Trouble
     \/ ~expected /\ UNCHANGED <<live, stage>> /\ Fail(p) /\ Trouble
  /\ UNCHANGED <<storeVars, binding, rawFiles, loaded, edits>>

VerifyLive(p) ==
  /\ At(p, "verify")
  /\ IF live = actor[p].target THEN Step(p, "settle") /\ UNCHANGED lock ELSE Fail(p)
  /\ UNCHANGED <<storeVars, fileVars, loaded, edits, troubles>>

SettleApply(p) ==
  /\ At(p, "settle")
  /\ IF MaySettle(Own(p), "committed")
     THEN /\ Settle(Own(p), "committed")
          /\ actor' = [actor EXCEPT ![p] = [Resting EXCEPT !.pc = "look", !.job = "settled"]]
          /\ UNCHANGED lock
     ELSE Leave(p) /\ UNCHANGED storeVars
  /\ UNCHANGED <<fileVars, loaded, edits, troubles>>

(* ------------------------------- baseline ------------------------------- *)

\* The authority is read again under the lock, and the first binding ever
\* published decides which configuration may be adopted.
BindBaseline(p) ==
  /\ At(p, "bind")
  /\ \/ Busy /\ Rest(p) /\ NoTrouble /\ UNCHANGED <<rawFiles, binding>>
     \/ /\ lock = Absent /\ Desired # 0
        /\ Step(p, "read") /\ NoTrouble /\ UNCHANGED <<lock, rawFiles, binding>>
     \/ /\ lock = Absent /\ Desired = 0 /\ live \in Digests /\ binding \in {Absent, live}
        /\ rawFiles' = (rawFiles \cap Referenced) \cup {live}
        /\ binding' = live /\ lock' = p /\ Found(p, live, "adopt") /\ NoTrouble
     \/ /\ lock = Absent /\ Desired = 0 /\ live \in Digests
        /\ rawFiles' = rawFiles \cap Referenced /\ UNCHANGED binding /\ Leave(p)
        /\ IF binding \in {Absent, live} THEN Trouble ELSE NoTrouble
     \/ /\ lock = Absent /\ Desired = 0 /\ live \in Foreign
        /\ Leave(p) /\ NoTrouble /\ UNCHANGED <<rawFiles, binding>>
  /\ UNCHANGED <<storeVars, live, stage, loaded, edits>>

AdoptBaseline(p) ==
  /\ At(p, "adopt")
  /\ IF live = actor[p].content /\ Desired = 0
     THEN /\ generations' = <<[digest |-> live, parent |-> 0,
                               life |-> "pending_restart", raw |-> TRUE]>>
          /\ authority' = [desired |-> 1, version |-> 1, drifted |-> FALSE]
          /\ Prune(p, "loaded") /\ UNCHANGED lock
     ELSE Leave(p) /\ UNCHANGED <<generations, authority>>
  /\ UNCHANGED <<claims, active, fileVars, loaded, edits, troubles>>

(* ------------------------------- raw files ------------------------------ *)

\* The newest KeepRaw - 1 generations of the settled history keep their files.
History == {g \in DOMAIN generations :
              g # Desired /\ generations[g].life \in {"superseded", "effective", "failed"}}
Recent  == {g \in History : Cardinality({h \in History : h > g}) < KeepRaw - 1}
Older   == History \ Recent
PruneCandidates == {DigestOf(g) : g \in {h \in Older : generations[h].raw}}
                     \ {DigestOf(g) : g \in DOMAIN generations \ Older}

Protected(d) ==
  \/ d = DigestOf(Desired)
  \/ \E g \in Incomplete : d \in {DigestOf(g), DigestOf(generations[g].parent)}
  \/ \E g \in DOMAIN generations :
       DigestOf(g) = d /\ generations[g].life \notin {"superseded", "failed"}

\* The claims left behind first; then what the history no longer keeps.
List(p, job) == actor' = [actor EXCEPT ![p].job = job,
                  ![p].pc = IF claims = {} THEN "prune_more" ELSE "prune_claims",
                  ![p].todo = IF claims = {} THEN PruneCandidates ELSE claims]

ListPrune(p) ==
  /\ \/ At(p, "prune") /\ List(p, actor[p].job) /\ UNCHANGED lock
     \/ /\ At(p, "prune_lock") /\ Acquire(p)
        /\ List(p, "loaded")
     \/ At(p, "prune_lock") /\ Busy /\ Step(p, "compose")
     \/ /\ At(p, "prune_claims") /\ actor[p].todo = {} /\ actor[p].content = Absent
        /\ actor' = [actor EXCEPT ![p].pc = "prune_more", ![p].todo = PruneCandidates]
        /\ UNCHANGED lock
  /\ UNCHANGED <<storeVars, fileVars, loaded, edits, troubles>>

\* A claim left behind is completed as it stands; a new one is made first.
ClaimPrune(p) ==
  /\ actor[p].content = Absent
  /\ \E d \in actor[p].todo :
       LET taken == At(p, "prune_claims") \/ ~Protected(d) IN
       /\ actor[p].pc \in {"prune_claims", "prune_more"}
       /\ claims' = IF taken THEN claims \cup {d} ELSE claims
       /\ actor' = [actor EXCEPT ![p].todo = @ \ {d}, ![p].content = IF taken THEN d ELSE Absent]
  /\ UNCHANGED <<authority, generations, active, fileVars, lock, loaded, edits, troubles>>

\* A removal that is not proved gives the claim up.
RemoveRaw(p) ==
  LET d == actor[p].content IN
  /\ actor[p].pc \in {"prune_claims", "prune_more"} /\ d \in rawFiles
  /\ \/ /\ rawFiles' = rawFiles \ {d}
        /\ NoTrouble /\ UNCHANGED <<claims, actor>>
     \/ /\ rawFiles' \in {rawFiles, rawFiles \ {d}} /\ claims' = claims \ {d}
        /\ actor' = [actor EXCEPT ![p].content = Absent] /\ Trouble
  /\ UNCHANGED <<authority, generations, active, binding, live, stage, lock, loaded, edits>>

CompletePrune(p) ==
  LET d == actor[p].content IN
  /\ actor[p].pc \in {"prune_claims", "prune_more"} /\ d \in Digests \ rawFiles
  /\ IF Protected(d) \/ d \notin claims THEN UNCHANGED <<generations, claims>>
     ELSE /\ claims' = claims \ {d}
          /\ generations' = [g \in DOMAIN generations |->
               IF DigestOf(g) = d /\ generations[g].life \in {"superseded", "failed"}
               THEN [generations[g] EXCEPT !.raw = FALSE] ELSE generations[g]]
  /\ actor' = [actor EXCEPT ![p].content = Absent]
  /\ UNCHANGED <<authority, active, fileVars, lock, loaded, edits, troubles>>

EndPrune(p) ==
  /\ At(p, "prune_more") /\ actor[p].todo = {} /\ actor[p].content = Absent
  /\ rawFiles' = rawFiles \cap Referenced
  /\ lock' = Absent
  /\ IF actor[p].job = "settled" THEN Rest(p) ELSE AfterReconcile(p)
  /\ UNCHANGED <<storeVars, binding, live, stage, loaded, edits, troubles>>

ConfigStep(p) ==
  \/ ReadAuthority(p) \/ ReconcileReplacement(p)
  \/ RestoreCaptured(p) \/ RereadLive(p) \/ RemoveStage(p) \/ SettleReconciled(p)
  \/ CheckApply(p) \/ RetainTarget(p) \/ BeginApply(p)
  \/ StageTarget(p) \/ SwapLive(p) \/ CheckCaptured(p) \/ VerifyLive(p) \/ SettleApply(p)
  \/ BindBaseline(p) \/ AdoptBaseline(p)
  \/ ListPrune(p) \/ ClaimPrune(p) \/ RemoveRaw(p) \/ CompletePrune(p)
  \/ EndPrune(p)
==============================================================================
