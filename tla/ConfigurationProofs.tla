------------------------- MODULE ConfigurationProofs -------------------------
(***************************************************************************)
(* The gate of new runs and the acceptance of an apply exclude each other,  *)
(* and a recorded outcome stands, for any number of processes, digests,     *)
(* generations, runs and troubles and for any relation of compatibility.    *)
(***************************************************************************)
EXTENDS Configuration, SequenceTheorems, TLAPS

Content    == Contents \cup {Absent}
Generation == [digest : Digests, parent : Nat, life : Life, raw : BOOLEAN]
Activity   == [pc : PCs, job : Jobs, parent : Nat, target : Content,
               seen : Read, content : Content, todo : SUBSET Digests]

(* The inductive invariant.  What protects a run is spread over the store   *)
(* and the processes: the store admits one unsettled intent at a time, and  *)
(* whoever acts on an earlier read acts on generations that still exist and *)
(* still have the digest they had.                                          *)

StoreTyped == /\ authority \in [desired : Nat, version : Nat, drifted : BOOLEAN]
              /\ generations \in Seq(Generation)
              /\ claims \subseteq Digests

\* One generation is desired, and at most one is unsettled beside it.
Lineage ==
  /\ Desired = 0 => generations = <<>> /\ active = {}
  /\ Desired # 0 => /\ Desired \in DOMAIN generations
                    /\ generations[Desired].life \in {"pending_restart", "effective"}
  /\ \A g, h \in Incomplete : g = h

ActorTyped == /\ live \in Content /\ stage.content \in Content
              /\ loaded \in Content
              /\ actor \in [Actors -> Activity]

Reconciling == {"reconcile", "rec_swap", "rec_reread", "rec_remove", "rec_settle"}
Observing   == {"live", "relive", "drift", "redrift", "effective", "reserve"}
Replacing   == {"stage", "swap", "captured", "verify", "settle"}
Asking      == {"check", "apply_lock", "begin"}
Unfounded   == {"idle", "down", "read", "bind", "adopt"}

\* What a process in state s has read is still there, in a store that keeps
\* gens and desires des.
Stands(s, gens, des) ==
  /\ s.pc \notin Unfounded => des # 0
  /\ s.pc \in Reconciling => s.seen.intent \in DOMAIN gens /\ s.seen.desired \in DOMAIN gens
  /\ s.pc \in Observing => s.seen.desired \in DOMAIN gens
  /\ s.pc \in Replacing => \E g \in DOMAIN gens : gens[g].parent = s.parent /\ gens[g].digest = s.target
  /\ s.pc \in Asking => s.job = "apply"
  /\ s.job = "apply" => s.target \in Digests
  /\ s.pc = "adopt" => s.content \in Digests

ReadsStand == \A p \in Actors : Stands(actor[p], generations, Desired)

\* The worker asks for a run under the configuration it was started with.
WorkerReads ==
  /\ ~At(Worker, "down") => Desired # 0
  /\ At(Worker, "reserve") => loaded = DigestOf(actor[Worker].seen.desired)

\* One process at a time becomes the worker, and only when there is none.
OneLaunch ==
  \A p \in Procs : At(p, "launch") =>
    At(Worker, "down") /\ \A q \in Procs : At(q, "launch") => q = p

StoreInv == StoreTyped /\ Lineage /\ ActiveRunSupported
ActorInv == ActorTyped /\ ReadsStand /\ WorkerReads /\ OneLaunch
IInv == StoreInv /\ ActorInv

-----------------------------------------------------------------------------
(* What a step does to the store, and what it does to a process. *)

\* Generations are added and never change what they are.
Kept(old, new) ==
  /\ DOMAIN old \subseteq DOMAIN new
  /\ \A g \in DOMAIN old : new[g].digest = old[g].digest /\ new[g].parent = old[g].parent

Outcomes == \A g \in DOMAIN generations : Status(g) # "accepted" => Status(g)' = Status(g)

StoreStep == /\ StoreInv' /\ Outcomes
             /\ Kept(generations, generations') /\ (Desired # 0 => Desired' # 0)

\* Process p moves to state s, and the others stay.
Moves(p, s) == /\ actor' \in [Actors -> Activity]
               /\ \A q \in Actors \ {p} : actor'[q] = actor[q]
               /\ actor'[p] = s

FilesTyped == live \in Content /\ stage.content \in Content

\* A read outlives every change of the store that keeps the generations.
LEMMA StandsKept ==
  ASSUME NEW s, NEW old, NEW new, NEW d, NEW e,
         Kept(old, new), d # 0 => e # 0, Stands(s, old, d)
  PROVE  Stands(s, new, e)
<1>1. \A g \in DOMAIN old : /\ g \in DOMAIN new
                            /\ new[g].digest = old[g].digest /\ new[g].parent = old[g].parent
  BY DEF Kept
<1> QED
  BY <1>1 DEF Stands

\* A step that leaves the generations and what is desired alone, and ends runs
\* at most, keeps everything the store promises.
LEMMA StoreUnchanged ==
  ASSUME StoreInv, UNCHANGED generations, active' \subseteq active, claims' \subseteq Digests,
         authority' \in [desired : Nat, version : Nat, drifted : BOOLEAN], Desired' = Desired
  PROVE  StoreStep
BY DEF StoreInv, StoreStep, StoreTyped, Lineage, ActiveRunSupported, Outcomes, Kept, Status,
       Incomplete, DigestOf, Desired

\* A command's step that does not become the worker keeps what all the
\* processes rely on, once its own next state has what it relies on.
LEMMA CommandInv ==
  ASSUME IInv, StoreStep, NEW p \in Procs, NEW s, Moves(p, s), s.pc # "launch",
         Stands(s, generations', Desired'), FilesTyped', loaded' = loaded
  PROVE  StoreStep /\ ActorInv'
<1>1. \A q \in Actors \ {p} : Stands(actor[q], generations', Desired')
  BY StandsKept DEF IInv, ActorInv, ReadsStand, StoreStep
<1>2. ReadsStand'
  BY <1>1 DEF ReadsStand, Moves
<1>3. p # Worker /\ Worker \in Actors /\ actor'[Worker] = actor[Worker]
  BY ConfigConstants DEF Actors, Moves
<1>4. ActorTyped'
  BY DEF IInv, ActorInv, ActorTyped, FilesTyped, Moves
<1>5. WorkerReads'
  <2>1. At(Worker, "reserve") => actor[Worker].seen.desired \in DOMAIN generations
    BY <1>3 DEF IInv, ActorInv, ReadsStand, Stands, Observing, At
  <2> QED
    BY <1>3, <2>1 DEF IInv, ActorInv, WorkerReads, StoreStep, Kept, At, DigestOf
<1>6. OneLaunch'
  BY <1>3 DEF IInv, ActorInv, OneLaunch, Moves, At, Actors
<1> QED
  BY <1>2, <1>4, <1>5, <1>6 DEF ActorInv

\* The intent that ConfigurationAuthority reads is the unsettled generation.
LEMMA IntentUnsettled ==
  ASSUME StoreInv
  PROVE  /\ Intent = 0 => Incomplete = {}
         /\ Intent # 0 => Intent \in Incomplete
         /\ Intent \in Nat /\ Incomplete \subseteq DOMAIN generations
<1>1. Incomplete \subseteq DOMAIN generations /\ DOMAIN generations \subseteq Nat \ {0}
  BY DEF StoreInv, StoreTyped, Incomplete
<1>2. CASE Incomplete = {}
  BY <1>1, <1>2 DEF Intent
<1>3. CASE Incomplete # {}
  <2>1. PICK g \in Incomplete : \A h \in Incomplete : h = g
    BY <1>3 DEF StoreInv, Lineage
  <2>2. \A h \in Incomplete : h <= g
    BY <1>1, <2>1
  <2> QED
    BY <1>1, <1>3, <2>1, <2>2 DEF Intent
<1> QED
  BY <1>2, <1>3

\* What ConfigurationAuthority returns.
LEMMA SnapshotStands ==
  ASSUME StoreInv, NEW p \in Actors
  PROVE  /\ Snapshot(p) \in Read
         /\ Snapshot(p).desired = Desired /\ Snapshot(p).intent = Intent
<1>1. Desired \in Nat /\ Effective \in BOOLEAN /\ authority.version \in Nat
  BY DEF StoreInv, StoreTyped, Effective, Desired
<1>2. Intent \in Nat
  BY IntentUnsettled
<1> QED
  BY <1>1, <1>2 DEF Snapshot, Read

\* Process p goes to a state that has what it relies on.
Lands(p) == \E s \in Activity : Moves(p, s) /\ s.pc # "launch" /\ Stands(s, generations, Desired)

\* A command's step to a state that had what it relies on before the step.
LEMMA LandingInv ==
  ASSUME IInv, NEW p \in Procs, StoreStep, FilesTyped', loaded' = loaded, Lands(p)
  PROVE  StoreStep /\ ActorInv'
<1>1. PICK s \in Activity : Moves(p, s) /\ s.pc # "launch" /\ Stands(s, generations, Desired)
  BY DEF Lands
<1>2. Stands(s, generations', Desired')
  BY <1>1, StandsKept DEF StoreStep
<1> QED
  BY <1>1, <1>2, CommandInv

\* A command's step that leaves the store alone.
LEMMA LocalInv ==
  ASSUME IInv, NEW p \in Procs, UNCHANGED storeVars, FilesTyped', loaded' = loaded, Lands(p)
  PROVE  StoreStep /\ ActorInv'
<1>1. UNCHANGED <<generations, active, claims, authority>> /\ Desired' = Desired
  BY DEF storeVars, Desired
<1>2. StoreStep
  BY <1>1, StoreUnchanged DEF IInv, StoreInv, StoreTyped
<1> QED
  BY <1>2, LandingInv

\* A process at rest relies on nothing.
LEMMA RestLands ==
  ASSUME IInv, NEW p \in Actors, Rest(p)
  PROVE  Lands(p)
<1>1. Resting \in Activity
  BY DEF Resting, NoSnapshot, Activity, Content, Read, PCs, Jobs
<1>2. Moves(p, Resting)
  BY <1>1 DEF IInv, ActorInv, ActorTyped, Rest, Moves
<1>3. Stands(Resting, generations, Desired) /\ Resting.pc # "launch"
  BY DEF Stands, Resting, Unfounded, Reconciling, Observing, Replacing, Asking
<1> QED
  BY <1>1, <1>2, <1>3 DEF Lands

\* A process that goes on relies on nothing that it did not rely on before.
LEMMA OnwardLands ==
  ASSUME IInv, NEW p \in Actors, NEW c \in PCs \ {"launch"}, NEW x \in Content,
         Step(p, c) \/ Found(p, x, c),
         c \notin Unfounded => Desired # 0,
         c \in Reconciling => actor[p].pc \in Reconciling,
         c \in Observing => actor[p].pc \in Observing,
         c \in Replacing => actor[p].pc \in Replacing,
         c \in Asking => actor[p].pc \in Asking,
         c = "adopt" => Found(p, x, c) /\ x \in Digests
  PROVE  Lands(p)
<1>1. actor \in [Actors -> Activity] /\ Stands(actor[p], generations, Desired)
  BY DEF IInv, ActorInv, ActorTyped, ReadsStand
<1>2. CASE Found(p, x, c)
  <2>. DEFINE s == [actor[p] EXCEPT !.pc = c, !.content = x]
  <2>1. s \in Activity /\ Moves(p, s)
    BY <1>1, <1>2 DEF Found, Moves, Activity
  <2>2. Stands(s, generations, Desired)
    BY <1>1 DEF Stands, Activity, Unfounded, Reconciling, Observing, Replacing, Asking
  <2> QED
    BY <1>1, <2>1, <2>2 DEF Lands, Activity
<1>3. CASE Step(p, c) /\ c # "adopt"
  <2>. DEFINE s == [actor[p] EXCEPT !.pc = c]
  <2>1. s \in Activity /\ Moves(p, s)
    BY <1>1, <1>3 DEF Step, Moves, Activity
  <2>2. Stands(s, generations, Desired)
    BY <1>1, <1>3 DEF Stands, Activity, Unfounded, Reconciling, Observing, Replacing, Asking
  <2> QED
    BY <1>1, <2>1, <2>2 DEF Lands, Activity
<1> QED
  BY <1>2, <1>3

-----------------------------------------------------------------------------
(* Commands: what loads, reconciles and replaces, up to the settlement. *)

\* A new job of a command, or a replacement that failed.
LEMMA JobLands ==
  ASSUME IInv, NEW p \in Procs,
         \/ actor' = [actor EXCEPT ![p].pc = "read", ![p].job = "load"]
         \/ Fail(p)
         \/ \E d \in Digests : actor' = [actor EXCEPT ![p].pc = "read", ![p].job = "apply",
                                                  ![p].parent = Desired, ![p].target = d]
  PROVE  Lands(p)
<1>0. "read" \in PCs /\ {"load", "apply", "replace"} \subseteq Jobs /\ Digests \subseteq Content
  BY DEF PCs, Jobs, Content, Contents
<1>1. /\ p \in Actors /\ actor \in [Actors -> Activity]
      /\ Stands(actor[p], generations, Desired) /\ Desired \in Nat
  BY DEF Actors, IInv, ActorInv, ActorTyped, ReadsStand, StoreInv, StoreTyped, Desired
<1>2. ASSUME NEW j \in Jobs, j # "apply", actor' = [actor EXCEPT ![p].pc = "read", ![p].job = j]
      PROVE  Lands(p)
  <2>. DEFINE s == [actor[p] EXCEPT !.pc = "read", !.job = j]
  <2>1. s \in Activity /\ actor' = [actor EXCEPT ![p] = s]
    BY <1>0, <1>1, <1>2, ZenonT(60) DEF Activity
  <2>2. Moves(p, s)
    BY <1>1, <2>1 DEF Moves
  <2>3. Stands(s, generations, Desired) /\ s.pc # "launch"
    BY <1>1, <1>2, ZenonT(60) DEF Stands, Activity, Unfounded, Reconciling, Observing, Replacing, Asking
  <2> QED
    BY <2>1, <2>2, <2>3 DEF Lands
<1>3. ASSUME NEW d \in Digests,
             actor' = [actor EXCEPT ![p].pc = "read", ![p].job = "apply",
                                    ![p].parent = Desired, ![p].target = d]
      PROVE  Lands(p)
  <2>. DEFINE s == [actor[p] EXCEPT !.pc = "read", !.job = "apply",
                                    !.parent = Desired, !.target = d]
  <2>1. s \in Activity
    <3>1. actor[p] \in Activity /\ d \in Content /\ "apply" \in Jobs
      BY <1>0, <1>1, <1>3
    <3>2. [actor[p] EXCEPT !.pc = "read", !.job = "apply"] \in Activity
      BY <1>0, <3>1 DEF Activity
    <3> QED
      BY <1>1, <3>1, <3>2 DEF Activity
  <2>2. Moves(p, s)
    <3>1. actor' = [actor EXCEPT ![p] = s]
      BY <1>0, <1>1, <1>3 DEF Activity
    <3> QED
      BY <1>1, <2>1, <3>1 DEF Moves
  <2>3. Stands(s, generations, Desired) /\ s.pc # "launch"
    BY <1>1 DEF Stands, Activity, Unfounded, Reconciling, Observing, Replacing, Asking
  <2> QED
    BY <2>1, <2>2, <2>3 DEF Lands
<1> QED
  BY <1>2, <1>3 DEF Fail, Jobs

\* Whatever Reconcile was called for, its caller needs no more than an authority.
LEMMA AfterReconcileLands ==
  ASSUME IInv, NEW p \in Actors, Desired # 0, AfterReconcile(p) \/ AfterAmbiguous(p)
  PROVE  Lands(p)
<1>1. AfterReconcile(p) => Rest(p) \/ \E c \in {"prune_lock", "compose", "look"} : Step(p, c)
  BY DEF AfterReconcile
<1>2. ASSUME actor' = [actor EXCEPT ![p] = [Resting EXCEPT !.pc = "compose", !.job = "load"]]
      PROVE  Lands(p)
  <2>. DEFINE s == [Resting EXCEPT !.pc = "compose", !.job = "load"]
  <2>1. s \in Activity
    BY DEF Resting, NoSnapshot, Activity, Content, Read, PCs, Jobs
  <2>2. Moves(p, s)
    BY <1>2, <2>1 DEF IInv, ActorInv, ActorTyped, Moves
  <2>3. Stands(s, generations, Desired) /\ s.pc # "launch"
    BY DEF Resting, Stands, Unfounded, Reconciling, Observing, Replacing, Asking
  <2> QED
    BY <2>1, <2>2, <2>3 DEF Lands
<1>3. ASSUME NEW c \in {"prune_lock", "compose", "look"}, Step(p, c)
      PROVE  Lands(p)
  BY <1>3, OnwardLands DEF PCs, Content, Unfounded, Reconciling, Observing, Replacing, Asking
<1> QED
  BY <1>1, <1>2, <1>3, RestLands DEF AfterAmbiguous

\* A command is started.
LEMMA StartInv ==
  ASSUME IInv, NEW p \in Procs, StartCommand(p) \/ StartApply(p)
  PROVE  StoreStep /\ ActorInv'
<1>1. Lands(p)
  BY JobLands DEF StartCommand, StartApply
<1>2. UNCHANGED storeVars /\ FilesTyped' /\ loaded' = loaded
  BY DEF StartCommand, StartApply, fileVars, FilesTyped, IInv, ActorInv, ActorTyped
<1> QED
  BY <1>1, <1>2, LocalInv, SMTT(30)

\* Reconcile reads an authority, and with an intent that is still accepted
\* what it read is there for the rest of the reconciliation.
LEMMA ReadAuthorityInv ==
  ASSUME IInv, NEW p \in Procs, ReadAuthority(p)
  PROVE  StoreStep /\ ActorInv'
<1>1. /\ p \in Actors /\ actor \in [Actors -> Activity]
      /\ Stands(actor[p], generations, Desired)
  BY DEF Actors, IInv, ActorInv, ActorTyped, ReadsStand
<1>2. UNCHANGED storeVars /\ FilesTyped' /\ loaded' = loaded
  BY DEF ReadAuthority, fileVars, FilesTyped, IInv, ActorInv, ActorTyped
<1>3. Lands(p)
  <2>1. CASE Step(p, "bind")
    BY <1>1, <2>1, OnwardLands DEF PCs, Content, Unfounded, Reconciling, Observing, Replacing, Asking
  <2>2. CASE Desired # 0 /\ (Rest(p) \/ AfterReconcile(p) \/ AfterAmbiguous(p))
    BY <1>1, <2>2, RestLands, AfterReconcileLands
  <2>3. CASE /\ Desired # 0 /\ Intent # 0
             /\ actor' = [actor EXCEPT ![p].pc = "reconcile", ![p].seen = Snapshot(p)]
    <3>. DEFINE s == [actor[p] EXCEPT !.pc = "reconcile", !.seen = Snapshot(p)]
    <3>1. /\ Snapshot(p) \in Read
          /\ Snapshot(p).desired \in DOMAIN generations /\ Snapshot(p).intent \in DOMAIN generations
      BY <1>1, <2>3, SnapshotStands, IntentUnsettled DEF IInv, StoreInv, Lineage
    <3>2. s \in Activity /\ Moves(p, s)
      <4>1. "reconcile" \in PCs
        BY DEF PCs
      <4> QED
        BY <1>1, <2>3, <3>1, <4>1 DEF Moves, Activity
    <3>3. Stands(s, generations, Desired) /\ s.pc # "launch"
      BY <1>1, <2>3, <3>1 DEF Stands, Activity, Unfounded, Reconciling, Observing, Replacing, Asking
    <3> QED
      BY <3>2, <3>3 DEF Lands
  <2> QED
    BY <2>1, <2>2, <2>3 DEF ReadAuthority
<1> QED
  BY <1>2, <1>3, LocalInv

\* A reconciliation between its read and its settlement.
LEMMA ReconcileInv ==
  ASSUME IInv, NEW p \in Procs,
         ReconcileReplacement(p) \/ RestoreCaptured(p) \/ RereadLive(p) \/ RemoveStage(p)
  PROVE  StoreStep /\ ActorInv'
<1>1. /\ p \in Actors /\ FilesTyped /\ Absent \in Content
      /\ Stands(actor[p], generations, Desired)
  BY DEF Actors, IInv, ActorInv, ActorTyped, ReadsStand, FilesTyped, Content
<1>2. UNCHANGED storeVars /\ loaded' = loaded
  BY DEF ReconcileReplacement, RestoreCaptured, RereadLive, RemoveStage, storeVars
<1>3. FilesTyped'
  BY <1>1 DEF ReconcileReplacement, RestoreCaptured, RereadLive, RemoveStage, Exchange, NoStage,
              FilesTyped, fileVars
<1>4. actor[p].pc \in Reconciling
  BY DEF ReconcileReplacement, RestoreCaptured, RereadLive, RemoveStage, At, Reconciling
<1>5. \/ Rest(p)
      \/ \E c \in Reconciling, x \in Content : Step(p, c) \/ Found(p, x, c)
  BY <1>1 DEF ReconcileReplacement, RestoreCaptured, RereadLive, RemoveStage, Reconciling, FilesTyped
<1>6. Lands(p)
  <2>1. Desired # 0
    BY <1>1, <1>4 DEF Stands, Reconciling, Unfounded
  <2>2. ASSUME NEW c \in Reconciling, NEW x \in Content, Step(p, c) \/ Found(p, x, c)
        PROVE  Lands(p)
    BY <1>1, <1>4, <2>1, <2>2, OnwardLands DEF PCs, Reconciling, Observing, Replacing, Asking
  <2> QED
    BY <1>1, <1>5, <2>2, RestLands
<1> QED
  BY <1>2, <1>3, <1>6, LocalInv

\* An apply before its acceptance.
LEMMA AskInv ==
  ASSUME IInv, NEW p \in Procs, CheckApply(p) \/ RetainTarget(p)
  PROVE  StoreStep /\ ActorInv'
<1>1. p \in Actors /\ FilesTyped /\ Absent \in Content /\ Stands(actor[p], generations, Desired)
  BY DEF Actors, IInv, ActorInv, ActorTyped, ReadsStand, FilesTyped, Content
<1>2. UNCHANGED storeVars /\ loaded' = loaded /\ FilesTyped'
  BY <1>1 DEF CheckApply, RetainTarget, fileVars, FilesTyped
<1>3. actor[p].pc \in Asking /\ (Rest(p) \/ \E c \in Asking : Step(p, c))
  BY DEF CheckApply, RetainTarget, Leave, At, Asking
<1>4. Lands(p)
  <2>1. Desired # 0
    BY <1>1, <1>3 DEF Stands, Asking, Unfounded
  <2>2. ASSUME NEW c \in Asking, Step(p, c)
        PROVE  Lands(p)
    BY <1>1, <1>3, <2>1, <2>2, OnwardLands DEF PCs, Reconciling, Observing, Replacing, Asking
  <2> QED
    BY <1>1, <1>3, <2>2, RestLands
<1> QED
  BY <1>2, <1>4, LocalInv

\* A replacement, from its swap file to the second read of the live file.
LEMMA ReplaceInv ==
  ASSUME IInv, NEW p \in Procs,
         StageTarget(p) \/ SwapLive(p) \/ CheckCaptured(p) \/ VerifyLive(p)
  PROVE  StoreStep /\ ActorInv'
<1>1. /\ p \in Actors /\ FilesTyped /\ Absent \in Content
      /\ Stands(actor[p], generations, Desired) /\ actor[p].target \in Content
  BY DEF Actors, IInv, ActorInv, ActorTyped, ReadsStand, FilesTyped, Content, Activity
<1>2. UNCHANGED storeVars /\ loaded' = loaded
  BY DEF StageTarget, SwapLive, CheckCaptured, VerifyLive, storeVars
<1>3. FilesTyped'
  BY <1>1 DEF StageTarget, SwapLive, CheckCaptured, VerifyLive, Exchange, NoStage, FilesTyped, fileVars
<1>4. actor[p].pc \in Replacing /\ (Fail(p) \/ \E c \in Replacing : Step(p, c))
  BY SMTT(30) DEF StageTarget, SwapLive, CheckCaptured, VerifyLive, At, Replacing
<1>5. Lands(p)
  <2>1. Desired # 0
    BY <1>1, <1>4 DEF Stands, Replacing, Unfounded
  <2>2. ASSUME NEW c \in Replacing, Step(p, c)
        PROVE  Lands(p)
    BY <1>1, <1>4, <2>1, <2>2, OnwardLands DEF PCs, Reconciling, Observing, Replacing, Asking
  <2> QED
    BY <1>4, <2>2, JobLands
<1> QED
  BY <1>2, <1>3, <1>5, LocalInv

-----------------------------------------------------------------------------
(* Commands: what changes the generations. *)

\* Generations rewritten in place are still a sequence of generations.
LEMMA Rewritten ==
  ASSUME generations \in Seq(Generation), NEW new \in [DOMAIN generations -> Generation]
  PROVE  new \in Seq(Generation)
<1>1. DOMAIN generations = 1 .. Len(generations) /\ Len(generations) \in Nat
  BY LenProperties
<1> QED
  BY <1>1, SeqDef

\* A settlement records an outcome once, and makes desired only what every
\* run was found to support when the intent was accepted.
LEMMA SettleStore ==
  ASSUME StoreInv, Desired # 0, NEW g \in DOMAIN generations,
         NEW o \in {"committed", "failed", "ambiguous"}, MaySettle(g, o), Settle(g, o)
  PROVE  StoreStep
<1>1. CASE Status(g) = o
  BY <1>1, StoreUnchanged DEF Settle, StoreInv, StoreTyped, Desired
<1>2. CASE Status(g) # o
  <2>1. g \in Incomplete /\ g # Desired /\ Desired \in DOMAIN generations /\ generations[g].life = "accepted"
    BY <1>2 DEF MaySettle, Status, Incomplete, Unresolved, StoreInv, Lineage
  <2>2. \A h \in DOMAIN generations : generations[h] \in Generation /\ h \in Nat \ {0}
    BY DEF StoreInv, StoreTyped
  <2>3. CASE o = "committed"
    <3>1. /\ generations' = [generations EXCEPT ![g].life = "pending_restart",
                                               ![Desired].life = "superseded"]
          /\ authority' = [desired |-> g, version |-> authority.version + 1, drifted |-> FALSE]
          /\ UNCHANGED <<claims, active>>
      BY <1>2, <2>3 DEF Settle
    <3>2. /\ DOMAIN generations' = DOMAIN generations
          /\ generations'[g] = [generations[g] EXCEPT !.life = "pending_restart"]
          /\ generations'[Desired] = [generations[Desired] EXCEPT !.life = "superseded"]
          /\ \A h \in DOMAIN generations \ {g, Desired} : generations'[h] = generations[h]
      BY <2>1, <2>2, <3>1
    <3>3. Incomplete' = {}
      BY <2>1, <2>2, <3>2 DEF Incomplete, Unresolved, StoreInv, Lineage, Generation
    <3>4. StoreTyped'
      <4>1. generations' \in Seq(Generation)
        <5>1. generations' \in [DOMAIN generations -> Generation]
          BY <2>1, <2>2, <3>1, <3>2 DEF Generation, Life
        <5> QED
          BY <5>1, Rewritten DEF StoreInv, StoreTyped
      <4> QED
        BY <2>2, <3>1, <4>1 DEF StoreInv, StoreTyped
    <3>5. Lineage'
      BY <2>1, <2>2, <3>1, <3>2, <3>3 DEF Lineage, Desired, Generation
    <3>6. ActiveRunSupported'
      <4>1. \A r \in active : <<r, generations[g].digest>> \in Compatible
        BY <2>1 DEF StoreInv, ActiveRunSupported, DigestOf
      <4>2. generations'[authority'.desired].digest = generations[g].digest
        BY <2>1, <2>2, <3>1, <3>2 DEF Generation
      <4> QED
        BY <3>1, <3>3, <4>1, <4>2 DEF ActiveRunSupported, DigestOf, Desired
    <3>7. Outcomes
      BY <2>1, <2>2, <3>2 DEF Outcomes, Status, StoreInv, Lineage, Generation
    <3>8. Kept(generations, generations') /\ Desired' # 0
      BY <2>1, <2>2, <3>1, <3>2 DEF Kept, Generation, Desired
    <3> QED
      BY <3>4, <3>5, <3>6, <3>7, <3>8 DEF StoreStep, StoreInv
  <2>4. CASE o # "committed"
    <3>1. /\ generations' = [generations EXCEPT ![g].life = o]
          /\ UNCHANGED <<authority, claims, active>> /\ Desired' = Desired
      BY <1>2, <2>4 DEF Settle, Desired
    <3>2. /\ DOMAIN generations' = DOMAIN generations
          /\ generations'[g] = [generations[g] EXCEPT !.life = o]
          /\ \A h \in DOMAIN generations \ {g} : generations'[h] = generations[h]
      BY <2>1, <2>2, <3>1
    <3>3. Incomplete' \subseteq Incomplete
      BY <2>1, <2>2, <3>2 DEF Incomplete, Unresolved, Generation
    <3>4. StoreTyped'
      <4>1. generations' \in Seq(Generation)
        <5>1. generations' \in [DOMAIN generations -> Generation]
          <6>1. o \in Life
            BY <2>4 DEF Life
          <6>2. generations'[g] \in Generation
            BY <2>1, <2>2, <3>2, <6>1 DEF Generation
          <6>3. \A h \in DOMAIN generations : generations'[h] \in Generation
            BY <2>2, <3>2, <6>2
          <6> QED
            BY <3>1, <6>3
        <5> QED
          BY <5>1, Rewritten DEF StoreInv, StoreTyped
      <4> QED
        BY <3>1, <4>1 DEF StoreInv, StoreTyped
    <3>5. Lineage'
      BY <2>1, <2>2, <3>1, <3>2, <3>3 DEF StoreInv, Lineage, Generation
    <3>6. ActiveRunSupported'
      BY <2>1, <2>2, <3>1, <3>2, <3>3 DEF StoreInv, ActiveRunSupported, DigestOf, Incomplete, Generation
    <3>7. Outcomes
      BY <2>1, <2>2, <3>2 DEF Outcomes, Status, Generation
    <3>8. Kept(generations, generations')
      BY <2>1, <2>2, <3>2 DEF Kept, Generation
    <3> QED
      BY <3>1, <3>4, <3>5, <3>6, <3>7, <3>8 DEF StoreStep, StoreInv
  <2> QED
    BY <2>3, <2>4
<1> QED
  BY <1>1, <1>2

\* What pruning and the end of a settlement leave a command with.
LEMMA PruneLands ==
  ASSUME IInv, NEW p \in Procs, NEW j \in Jobs, Prune(p, j),
         NEW gens, NEW des, des # 0, j = "apply" => actor[p].target \in Digests
  PROVE  \E s \in Activity : Moves(p, s) /\ s.pc # "launch" /\ Stands(s, gens, des)
<1>. DEFINE s == [actor[p] EXCEPT !.pc = "prune", !.job = j, !.seen = NoSnapshot, !.content = Absent]
<1>1. p \in Actors /\ actor \in [Actors -> Activity]
  BY DEF Actors, IInv, ActorInv, ActorTyped
<1>2. "prune" \in PCs /\ Absent \in Content /\ NoSnapshot \in Read
  BY DEF PCs, Content, NoSnapshot, Read
<1>3. s \in Activity
  <2>1. [actor[p] EXCEPT !.pc = "prune", !.job = j] \in Activity
    BY <1>1, <1>2 DEF Activity
  <2> QED
    BY <1>2, <2>1 DEF Activity
<1>4. actor' = [actor EXCEPT ![p] = s]
  BY <1>1 DEF Prune, Activity
<1>5. Moves(p, s)
  BY <1>1, <1>3, <1>4 DEF Moves
<1>6. s.pc = "prune" /\ s.job = j /\ s.target = actor[p].target
  BY <1>1 DEF Activity
<1>7. Stands(s, gens, des) /\ s.pc # "launch"
  BY <1>6 DEF Stands, Unfounded, Reconciling, Observing, Replacing, Asking
<1> QED
  BY <1>3, <1>5, <1>7

\* A reconciliation settles.
LEMMA SettleReconciledInv ==
  ASSUME IInv, NEW p \in Procs, SettleReconciled(p)
  PROVE  StoreStep /\ ActorInv'
<1>1. p \in Actors /\ Stands(actor[p], generations, Desired) /\ actor[p] \in Activity
  BY DEF Actors, IInv, ActorInv, ActorTyped, ReadsStand
<1>2. Desired # 0 /\ actor[p].seen.intent \in DOMAIN generations
  BY <1>1 DEF SettleReconciled, At, Stands, Reconciling, Unfounded
<1>3. FilesTyped' /\ loaded' = loaded
  BY DEF SettleReconciled, fileVars, FilesTyped, IInv, ActorInv, ActorTyped
<1>4. CASE UNCHANGED storeVars /\ Leave(p)
  BY <1>1, <1>3, <1>4, RestLands, LocalInv DEF Leave
<1>5. CASE /\ MaySettle(actor[p].seen.intent, Verdict(p)) /\ Settle(actor[p].seen.intent, Verdict(p))
           /\ AfterAmbiguous(p) \/ Prune(p, actor[p].job)
  <2>1. Verdict(p) \in {"committed", "failed", "ambiguous"}
    BY DEF Verdict
  <2>2. StoreStep
    BY <1>2, <1>5, <2>1, SettleStore DEF IInv
  <2>3. Lands(p)
    <3>1. CASE Prune(p, actor[p].job)
      <4>1. actor[p].job \in Jobs /\ (actor[p].job = "apply" => actor[p].target \in Digests)
        BY <1>1 DEF Activity, Stands
      <4> QED
        BY <1>2, <3>1, <4>1, PruneLands DEF Lands
    <3> QED
      BY <1>1, <1>2, <1>5, <3>1, AfterReconcileLands
  <2> QED
    BY <1>3, <2>2, <2>3, LandingInv
<1> QED
  BY <1>4, <1>5 DEF SettleReconciled

\* An apply settles its own generation.
LEMMA SettleApplyInv ==
  ASSUME IInv, NEW p \in Procs, SettleApply(p)
  PROVE  StoreStep /\ ActorInv'
<1>1. p \in Actors /\ Stands(actor[p], generations, Desired)
  BY DEF Actors, IInv, ActorInv, ReadsStand
<1>2. Desired # 0 /\ Own(p) \in DOMAIN generations
  <2>1. Desired # 0 /\ Known(actor[p].parent, actor[p].target) # {}
    BY <1>1 DEF SettleApply, At, Stands, Replacing, Unfounded, Known, DigestOf
  <2> QED
    BY <2>1 DEF Own, Known
<1>3. FilesTyped' /\ loaded' = loaded
  BY DEF SettleApply, fileVars, FilesTyped, IInv, ActorInv, ActorTyped
<1>4. CASE UNCHANGED storeVars /\ Leave(p)
  BY <1>1, <1>3, <1>4, RestLands, LocalInv DEF Leave
<1>5. CASE /\ MaySettle(Own(p), "committed") /\ Settle(Own(p), "committed")
           /\ actor' = [actor EXCEPT ![p] = [Resting EXCEPT !.pc = "look", !.job = "settled"]]
  <2>1. StoreStep
    BY <1>2, <1>5, SettleStore DEF IInv
  <2>. DEFINE s == [Resting EXCEPT !.pc = "look", !.job = "settled"]
  <2>2. s \in Activity
    BY DEF Resting, NoSnapshot, Activity, Content, Read, PCs, Jobs
  <2>3. Moves(p, s)
    BY <1>1, <1>5, <2>2 DEF IInv, ActorInv, ActorTyped, Moves
  <2>4. Stands(s, generations, Desired) /\ s.pc # "launch"
    BY <1>2 DEF Resting, Stands, Unfounded, Reconciling, Observing, Replacing, Asking
  <2> QED
    BY <1>3, <2>1, <2>2, <2>3, <2>4, LandingInv DEF Lands
<1> QED
  BY <1>4, <1>5 DEF SettleApply

\* A new intent is accepted only when there is none and every run supports it.
LEMMA BeginApplyInv ==
  ASSUME IInv, NEW p \in Procs, BeginApply(p)
  PROVE  StoreStep /\ ActorInv'
<1>. DEFINE e == actor[p].parent
            d == actor[p].target
<1>1. p \in Actors /\ Stands(actor[p], generations, Desired) /\ actor \in [Actors -> Activity]
  BY DEF Actors, IInv, ActorInv, ActorTyped, ReadsStand
<1>2. Desired # 0 /\ d \in Digests /\ actor[p].pc = "begin"
  BY <1>1 DEF BeginApply, At, Stands, Asking, Unfounded
<1>3. FilesTyped' /\ loaded' = loaded /\ UNCHANGED <<authority, claims, active>> /\ Desired' = Desired
  BY DEF BeginApply, FilesTyped, IInv, ActorInv, ActorTyped, Desired
<1>4. CASE UNCHANGED generations /\ Leave(p)
  BY <1>1, <1>3, <1>4, RestLands, LocalInv DEF Leave, storeVars
<1>5. CASE /\ MayBegin(e, d) /\ Step(p, "stage")
           /\ generations' = Append(generations,
                  [digest |-> d, parent |-> e, life |-> "accepted", raw |-> TRUE])
  <2>. DEFINE new == [digest |-> d, parent |-> e, life |-> "accepted", raw |-> TRUE]
              n   == Len(generations) + 1
  <2>1. /\ generations \in Seq(Generation) /\ Len(generations) \in Nat
        /\ DOMAIN generations = 1 .. Len(generations)
    BY LenProperties DEF IInv, StoreInv, StoreTyped
  <2>2. new \in Generation
    BY <1>1, <1>2 DEF Generation, Life, Activity
  <2>3. /\ generations' \in Seq(Generation)
        /\ DOMAIN generations' = 1 .. n /\ generations'[n] = new
        /\ \A h \in DOMAIN generations : generations'[h] = generations[h]
    BY <1>5, <2>1, <2>2
  <2>4. Incomplete = {} /\ Supported(d)
    BY <1>5 DEF MayBegin
  <2>5. Incomplete' = {n}
    BY <2>1, <2>3, <2>4 DEF Incomplete, Unresolved
  <2>6. StoreTyped' /\ Lineage'
    BY <1>2, <1>3, <2>1, <2>3, <2>5 DEF IInv, StoreInv, StoreTyped, Lineage
  <2>7. ActiveRunSupported'
    BY <1>2, <1>3, <2>1, <2>3, <2>4, <2>5
    DEF IInv, StoreInv, Lineage, ActiveRunSupported, DigestOf, Supported
  <2>8. Outcomes /\ Kept(generations, generations')
    BY <2>1, <2>3 DEF Outcomes, Status, Kept
  <2>9. StoreStep
    BY <1>3, <2>6, <2>7, <2>8 DEF StoreStep, StoreInv
  <2>. DEFINE s == [actor[p] EXCEPT !.pc = "stage"]
  <2>10. s \in Activity /\ Moves(p, s)
    <3>1. "stage" \in PCs
      BY DEF PCs
    <3> QED
      BY <1>1, <1>5, <3>1 DEF Step, Moves, Activity
  <2>11. s.pc = "stage" /\ s.job = "apply" /\ s.target = d /\ s.parent = e
    BY <1>1, <1>2 DEF Activity, Stands, Asking
  <2>12. Stands(s, generations', Desired')
    <3>1. n \in DOMAIN generations' /\ generations'[n].parent = e /\ generations'[n].digest = d
      BY <2>1, <2>3
    <3> QED
      BY <1>2, <1>3, <2>11, <3>1 DEF Stands, Unfounded, Reconciling, Observing, Replacing, Asking
  <2> QED
    BY <1>3, <2>9, <2>10, <2>11, <2>12, CommandInv
<1> QED
  BY <1>4, <1>5 DEF BeginApply

\* The first generation.
LEMMA BaselineInv ==
  ASSUME IInv, NEW p \in Procs, BindBaseline(p) \/ AdoptBaseline(p)
  PROVE  StoreStep /\ ActorInv'
<1>1. p \in Actors /\ Stands(actor[p], generations, Desired) /\ actor \in [Actors -> Activity]
  BY DEF Actors, IInv, ActorInv, ActorTyped, ReadsStand
<1>2. FilesTyped' /\ loaded' = loaded
  BY DEF BindBaseline, AdoptBaseline, fileVars, FilesTyped, IInv, ActorInv, ActorTyped
<1>3. CASE BindBaseline(p)
  <2>1. Rest(p) \/ Step(p, "read") \/ (live \in Digests /\ Found(p, live, "adopt"))
    BY <1>3 DEF BindBaseline, Leave
  <2>2. Lands(p)
    BY <1>1, <2>1, RestLands, OnwardLands
    DEF PCs, Content, Contents, Unfounded, Reconciling, Observing, Replacing, Asking
  <2> QED
    BY <1>2, <1>3, <2>2, LocalInv DEF BindBaseline
<1>4. CASE UNCHANGED storeVars /\ Leave(p)
  BY <1>1, <1>2, <1>4, RestLands, LocalInv DEF Leave
<1>5. CASE /\ At(p, "adopt") /\ live = actor[p].content /\ Desired = 0 /\ Prune(p, "loaded")
           /\ generations' = <<[digest |-> live, parent |-> 0, life |-> "pending_restart", raw |-> TRUE]>>
           /\ authority' = [desired |-> 1, version |-> 1, drifted |-> FALSE]
           /\ UNCHANGED <<claims, active>>
  <2>1. live \in Digests
    BY <1>1, <1>5 DEF At, Stands
  <2>2. [digest |-> live, parent |-> 0, life |-> "pending_restart", raw |-> TRUE] \in Generation
    BY <2>1 DEF Generation, Life
  <2>3. generations' \in Seq(Generation) /\ DOMAIN generations' = {1}
        /\ generations'[1].life = "pending_restart" /\ Desired' = 1
    BY <1>5, <2>2 DEF Desired
  <2>4. generations = <<>> /\ active = {} /\ DOMAIN generations = {}
    BY <1>5 DEF IInv, StoreInv, Lineage
  <2>5. StoreInv'
    BY <1>5, <2>3, <2>4 DEF IInv, StoreInv, StoreTyped, Lineage, ActiveRunSupported, Incomplete, Unresolved
  <2>6. StoreStep
    BY <2>3, <2>4, <2>5 DEF StoreStep, Outcomes, Kept
  <2>7. PICK s \in Activity : Moves(p, s) /\ s.pc # "launch" /\ Stands(s, generations', Desired')
    BY <1>5, <2>3, PruneLands DEF Jobs
  <2> QED
    BY <1>2, <2>6, <2>7, CommandInv
<1> QED
  BY <1>3, <1>4, <1>5 DEF AdoptBaseline, storeVars

Pruning == {"prune_lock", "prune", "prune_claims", "prune_more"}

\* Completing a prune changes only whether the bytes of a generation are kept.
LEMMA CompletePruneStore ==
  ASSUME StoreInv, NEW p \in Procs, CompletePrune(p)
  PROVE  StoreStep
<1>1. authority' = authority /\ active' = active /\ claims' \subseteq Digests /\ Desired' = Desired
  BY DEF CompletePrune, StoreInv, StoreTyped, Desired
<1>2. CASE UNCHANGED generations
  BY <1>1, <1>2, StoreUnchanged DEF StoreInv, StoreTyped
<1>3. CASE generations' = [g \in DOMAIN generations |->
               IF DigestOf(g) = actor[p].content /\ generations[g].life \in {"superseded", "failed"}
               THEN [generations[g] EXCEPT !.raw = FALSE] ELSE generations[g]]
  <2>1. \A g \in DOMAIN generations : generations[g] \in Generation
    BY DEF StoreInv, StoreTyped
  <2>2. /\ DOMAIN generations' = DOMAIN generations
        /\ \A g \in DOMAIN generations :
             /\ generations'[g] \in Generation
             /\ generations'[g].digest = generations[g].digest
             /\ generations'[g].parent = generations[g].parent
             /\ generations'[g].life = generations[g].life
    BY <1>3, <2>1 DEF Generation
  <2>3. generations' \in Seq(Generation)
    <3>1. generations' \in [DOMAIN generations -> Generation]
      BY <1>3, <2>2
    <3> QED
      BY <3>1, Rewritten DEF StoreInv, StoreTyped
  <2>4. Incomplete' = Incomplete
    BY <2>2 DEF Incomplete
  <2>5. StoreTyped' /\ ActiveRunSupported'
    BY <1>1, <2>2, <2>3, <2>4
    DEF StoreInv, StoreTyped, Lineage, ActiveRunSupported, DigestOf, Incomplete
  <2>6. Lineage'
    <3>1. generations = <<>> => generations' = <<>>
      BY <1>3
    <3> QED
      BY <1>1, <2>2, <2>4, <3>1 DEF StoreInv, Lineage
  <2>7. Outcomes /\ Kept(generations, generations')
    BY <2>2 DEF Outcomes, Status, Kept
  <2> QED
    BY <1>1, <2>5, <2>6, <2>7, <2>3 DEF StoreStep, StoreInv
<1> QED
  BY <1>2, <1>3 DEF CompletePrune

\* A command that prunes lists, claims, removes and ends.
LEMMA PruneInv ==
  ASSUME IInv, NEW p \in Procs,
         ListPrune(p) \/ ClaimPrune(p) \/ RemoveRaw(p) \/ CompletePrune(p) \/ EndPrune(p)
  PROVE  StoreStep /\ ActorInv'
<1>1. /\ p \in Actors /\ Stands(actor[p], generations, Desired) /\ actor \in [Actors -> Activity]
      /\ FilesTyped
  BY DEF Actors, IInv, ActorInv, ActorTyped, ReadsStand, FilesTyped
<1>2. actor[p].pc \in Pruning
  BY DEF ListPrune, ClaimPrune, RemoveRaw, CompletePrune, EndPrune, At, Pruning
<1>3. Desired # 0 /\ (actor[p].job = "apply" => actor[p].target \in Digests)
  BY <1>1, <1>2 DEF Stands, Pruning, Unfounded
<1>4. FilesTyped' /\ loaded' = loaded
  BY <1>1 DEF ListPrune, ClaimPrune, RemoveRaw, CompletePrune, EndPrune, fileVars, FilesTyped
<1>5. StoreStep
  <2>1. CASE CompletePrune(p)
    BY <2>1, CompletePruneStore DEF IInv
  <2>2. CASE ListPrune(p) \/ ClaimPrune(p) \/ RemoveRaw(p) \/ EndPrune(p)
    <3>1. claims \subseteq Digests /\ actor[p].todo \subseteq Digests
      BY <1>1 DEF IInv, StoreInv, StoreTyped, Activity
    <3>2. claims' \subseteq Digests /\ UNCHANGED <<authority, generations, active>>
      BY <2>2, <3>1 DEF ListPrune, ClaimPrune, RemoveRaw, EndPrune, storeVars
    <3> QED
      BY <3>2, StoreUnchanged DEF IInv, StoreInv, StoreTyped, Desired
  <2> QED
    BY <2>1, <2>2
<1>6. ASSUME NEW s \in Activity, actor' = [actor EXCEPT ![p] = s], s.target = actor[p].target,
             s.pc \in Pruning \cup {"compose"}, s.job \in {actor[p].job, "loaded"}
      PROVE  Lands(p)
  <2>1. Moves(p, s)
    BY <1>1, <1>6 DEF Moves
  <2>2. Stands(s, generations, Desired) /\ s.pc # "launch"
    BY <1>3, <1>6 DEF Stands, Pruning, Unfounded, Reconciling, Observing, Replacing, Asking
  <2> QED
    BY <1>6, <2>1, <2>2 DEF Lands
<1>7. Pruning \cup {"compose"} \subseteq PCs /\ "loaded" \in Jobs /\ Absent \in Content
  BY DEF Pruning, PCs, Jobs, Content
<1>8. PruneCandidates \subseteq Digests /\ claims \subseteq Digests
  <2>1. \A g \in DOMAIN generations : DigestOf(g) \in Digests
    <3>1. \A g \in DOMAIN generations : generations[g] \in Generation
      BY DEF IInv, StoreInv, StoreTyped
    <3> QED
      BY <3>1 DEF Generation, DigestOf
  <2>2. Older \subseteq DOMAIN generations
    BY DEF Older, History
  <2> QED
    BY <2>1, <2>2 DEF PruneCandidates, IInv, StoreInv, StoreTyped
<1>9. Lands(p)
  <2>1. ASSUME NEW job \in {actor[p].job, "loaded"}, NEW pc \in Pruning, NEW todo \in SUBSET Digests,
               actor' = [actor EXCEPT ![p].job = job, ![p].pc = pc, ![p].todo = todo]
        PROVE  Lands(p)
    <3>. DEFINE s == [actor[p] EXCEPT !.job = job, !.pc = pc, !.todo = todo]
    <3>1. actor[p] \in Activity /\ job \in Jobs /\ pc \in PCs
      BY <1>1, <1>7, <2>1 DEF Activity
    <3>2. s \in Activity
      <4>1. [actor[p] EXCEPT !.job = job, !.pc = pc] \in Activity
        BY <3>1 DEF Activity
      <4> QED
        BY <4>1, <2>1 DEF Activity
    <3>3. actor' = [actor EXCEPT ![p] = s]
      BY <1>1, <2>1 DEF Activity
    <3>4. s.target = actor[p].target /\ s.pc = pc /\ s.job = job
      BY <3>1 DEF Activity
    <3> QED
      BY <1>6, <2>1, <3>2, <3>3, <3>4
  <2>2. CASE ListPrune(p)
    <3>1. CASE Step(p, "compose")
      BY <1>1, <1>3, <3>1, OnwardLands
      DEF PCs, Content, Unfounded, Reconciling, Observing, Replacing, Asking
    <3>2. CASE List(p, actor[p].job) \/ List(p, "loaded")
      <4>1. PICK job \in {actor[p].job, "loaded"} : List(p, job)
        BY <3>2
      <4>2. \E pc \in Pruning, todo \in SUBSET Digests :
               actor' = [actor EXCEPT ![p].job = job, ![p].pc = pc, ![p].todo = todo]
        <5>1. CASE claims = {}
          BY <1>8, <4>1, <5>1 DEF List, Pruning
        <5>2. CASE claims # {}
          BY <1>8, <4>1, <5>2 DEF List, Pruning
        <5> QED
          BY <5>1, <5>2
      <4> QED
        BY <2>1, <4>2
    <3>3. CASE actor' = [actor EXCEPT ![p].pc = "prune_more", ![p].todo = PruneCandidates]
      <4>1. actor' = [actor EXCEPT ![p].job = actor[p].job, ![p].pc = "prune_more",
                                   ![p].todo = PruneCandidates]
        BY <1>1, <3>3 DEF Activity
      <4> QED
        BY <1>8, <2>1, <4>1 DEF Pruning
    <3> QED
      BY <2>2, <3>1, <3>2, <3>3 DEF ListPrune
  <2>3. CASE ClaimPrune(p)
    <3>1. PICK d \in actor[p].todo, x \in actor[p].todo \cup {Absent} :
             actor' = [actor EXCEPT ![p].todo = @ \ {d}, ![p].content = x]
      BY <2>3 DEF ClaimPrune
    <3>. DEFINE s == [actor[p] EXCEPT !.todo = @ \ {d}, !.content = x]
    <3>2. actor[p] \in Activity /\ d \in Content
      BY <1>1 DEF Activity, Content, Contents
    <3>3. s \in Activity
      <4>1. [actor[p] EXCEPT !.todo = @ \ {d}] \in Activity /\ x \in Content
        BY <1>1, <1>7, <3>1, <3>2 DEF Activity, Content, Contents
      <4> QED
        BY <4>1 DEF Activity
    <3>4. actor' = [actor EXCEPT ![p] = s]
      BY <1>1, <3>1 DEF Activity
    <3>5. s.target = actor[p].target /\ s.pc = actor[p].pc /\ s.job = actor[p].job
      BY <3>2 DEF Activity
    <3> QED
      BY <1>2, <1>6, <3>3, <3>4, <3>5
  <2>4. CASE RemoveRaw(p) \/ CompletePrune(p)
    <3>1. CASE UNCHANGED actor
      <4>1. actor' = [actor EXCEPT ![p] = actor[p]]
        BY <1>1, <3>1
      <4> QED
        BY <1>1, <1>2, <1>6, <4>1
    <3>2. CASE actor' = [actor EXCEPT ![p].content = Absent]
      <4>. DEFINE s == [actor[p] EXCEPT !.content = Absent]
      <4>1. s \in Activity /\ actor' = [actor EXCEPT ![p] = s]
        BY <1>1, <1>7, <3>2 DEF Activity
      <4>2. s.target = actor[p].target /\ s.pc = actor[p].pc /\ s.job = actor[p].job
        BY <1>1 DEF Activity
      <4> QED
        BY <1>2, <1>6, <4>1, <4>2
    <3> QED
      BY <2>4, <3>1, <3>2 DEF RemoveRaw, CompletePrune
  <2>5. CASE EndPrune(p)
    BY <1>1, <1>3, <2>5, RestLands, AfterReconcileLands DEF EndPrune
  <2> QED
    BY <2>2, <2>3, <2>4, <2>5
<1> QED
  BY <1>4, <1>5, <1>9, LandingInv

-----------------------------------------------------------------------------
(* The worker, and what commands and the worker observe. *)

\* The worker's step keeps what all the processes rely on.
LEMMA WorkerInv ==
  ASSUME IInv, StoreStep, NEW s, Moves(Worker, s), FilesTyped', loaded' = loaded,
         s.pc \notin {"launch", "down"}, ~At(Worker, "down"), Stands(s, generations', Desired'),
         s.pc = "reserve" => loaded = generations'[s.seen.desired].digest
  PROVE  StoreStep /\ ActorInv'
<1>1. \A q \in Actors \ {Worker} : Stands(actor[q], generations', Desired')
  BY StandsKept DEF IInv, ActorInv, ReadsStand, StoreStep
<1>2. ReadsStand'
  BY <1>1 DEF ReadsStand, Moves
<1>3. Worker \in Actors /\ Worker \notin Procs /\ actor'[Worker] = s
  BY ConfigConstants DEF Actors, Moves
<1>4. ActorTyped'
  BY DEF IInv, ActorInv, ActorTyped, FilesTyped, Moves
<1>5. WorkerReads'
  <2>1. Desired' # 0
    BY DEF IInv, ActorInv, WorkerReads, StoreStep
  <2> QED
    BY <1>3, <2>1 DEF WorkerReads, At, DigestOf
<1>6. OneLaunch'
  BY <1>3 DEF IInv, ActorInv, OneLaunch, Moves, At, Actors
<1> QED
  BY <1>2, <1>4, <1>5, <1>6 DEF ActorInv

\* Process p goes on from an observation, the worker perhaps to a reservation.
Looks(p) ==
  \E s \in Activity :
    /\ Moves(p, s) /\ s.pc \notin {"launch", "down"} /\ Stands(s, generations, Desired)
    /\ p = Worker /\ s.pc = "reserve" => loaded = DigestOf(s.seen.desired)

\* The step of an observer keeps what all the processes rely on.
LEMMA LooksInv ==
  ASSUME IInv, StoreStep, NEW p \in Actors, Looks(p), p = Worker => ~At(Worker, "down"),
         FilesTyped', loaded' = loaded
  PROVE  StoreStep /\ ActorInv'
<1>1. PICK s \in Activity :
         /\ Moves(p, s) /\ s.pc \notin {"launch", "down"} /\ Stands(s, generations, Desired)
         /\ p = Worker /\ s.pc = "reserve" => loaded = DigestOf(s.seen.desired)
  BY DEF Looks
<1>2. Stands(s, generations', Desired')
  BY <1>1, StandsKept DEF StoreStep
<1>3. CASE p \in Procs
  BY <1>1, <1>2, <1>3, CommandInv
<1>4. CASE p = Worker
  <2>1. s.pc = "reserve" => loaded = generations'[s.seen.desired].digest
    BY <1>1, <1>4 DEF Stands, Observing, StoreStep, Kept, DigestOf
  <2> QED
    BY <1>1, <1>2, <1>4, <2>1, WorkerInv
<1> QED
  BY <1>3, <1>4 DEF Actors

\* A process that rests, or goes on with seen, after an observation.
LEMMA RestLooks ==
  ASSUME IInv, NEW p \in Actors, Rest(p)
  PROVE  Looks(p)
<1>1. Resting \in Activity
  BY DEF Resting, NoSnapshot, Activity, Content, Read, PCs, Jobs
<1>2. Moves(p, Resting)
  BY <1>1 DEF IInv, ActorInv, ActorTyped, Rest, Moves
<1>3. Stands(Resting, generations, Desired) /\ Resting.pc = "idle"
  BY DEF Stands, Resting, Unfounded, Reconciling, Observing, Replacing, Asking
<1> QED
  BY <1>1, <1>2, <1>3 DEF Looks

\* A process that goes on with what it has seen of the authority.
LEMMA SeenLooks ==
  ASSUME IInv, NEW p \in Actors, Desired # 0, NEW seen \in Read, NEW c \in PCs, NEW x \in Content,
         actor' = [actor EXCEPT ![p].pc = c, ![p].seen = seen, ![p].content = x],
         \/ c \in Observing /\ seen.desired \in DOMAIN generations
         \/ c = "prune"
         \/ c = "check" /\ actor[p].job = "apply",
         c = "reserve" => loaded = DigestOf(seen.desired)
  PROVE  Looks(p)
<1>. DEFINE s == [actor[p] EXCEPT !.pc = c, !.seen = seen, !.content = x]
<1>1. actor \in [Actors -> Activity] /\ Stands(actor[p], generations, Desired)
  BY DEF IInv, ActorInv, ActorTyped, ReadsStand
<1>2. s \in Activity
  <2>1. [actor[p] EXCEPT !.pc = c, !.seen = seen] \in Activity
    BY <1>1 DEF Activity
  <2> QED
    BY <2>1 DEF Activity
<1>3. actor' = [actor EXCEPT ![p] = s]
  BY <1>1 DEF Activity
<1>4. Moves(p, s)
  BY <1>1, <1>2, <1>3 DEF Moves
<1>5. s.pc = c /\ s.job = actor[p].job /\ s.target = actor[p].target /\ s.seen = seen
  BY <1>1 DEF Activity
<1>6. Stands(s, generations, Desired) /\ s.pc \notin {"launch", "down"}
  BY <1>1, <1>5 DEF Stands, Unfounded, Reconciling, Observing, Replacing, Asking
<1> QED
  BY <1>2, <1>4, <1>5, <1>6 DEF Looks

\* An observation of seen needs no more than the generation seen desires.
LEMMA ObservedLooks ==
  ASSUME IInv, NEW p \in Actors, Desired # 0, NEW seen \in Read,
         seen.desired \in DOMAIN generations, Observed(p, seen) \/ Runtime(p, seen) \/ Unobserved(p)
  PROVE  Looks(p)
<1>1. {"prune", "check", "reserve", "effective"} \subseteq PCs /\ Absent \in Content /\ NoSnapshot \in Read
  BY DEF PCs, Content, NoSnapshot, Read
<1>2. actor \in [Actors -> Activity]
  BY DEF IInv, ActorInv, ActorTyped
<1>3. ASSUME Ignored(p)
      PROVE  Looks(p)
  <2>1. CASE Rest(p)
    BY <2>1, RestLooks
  <2>2. ASSUME NEW c \in {"check", "prune"}, c = "check" => actor[p].job = "apply",
               actor' = [actor EXCEPT ![p].seen = NoSnapshot, ![p].content = Absent, ![p].pc = c]
        PROVE  Looks(p)
    <3>1. actor' = [actor EXCEPT ![p].pc = c, ![p].seen = NoSnapshot, ![p].content = Absent]
      BY <1>2, <2>2 DEF Activity
    <3> QED
      BY <1>1, <2>2, <3>1, SeenLooks, ZenonT(60)
  <2> QED
    BY <1>3, <2>1, <2>2 DEF Ignored
<1>4. ASSUME Observed(p, seen)
      PROVE  Looks(p)
  <2>1. CASE /\ loaded = DigestOf(seen.desired)
             /\ actor' = [actor EXCEPT ![p].pc = "reserve", ![p].seen = seen, ![p].content = Absent]
    BY <1>1, <2>1, SeenLooks DEF Observing
  <2> QED
    BY <1>3, <1>4, <2>1, RestLooks DEF Observed
<1>5. ASSUME actor' = [actor EXCEPT ![p].pc = "effective", ![p].seen = seen, ![p].content = Absent]
      PROVE  Looks(p)
  BY <1>1, <1>5, SeenLooks DEF Observing
<1> QED
  BY <1>3, <1>4, <1>5, RestLooks DEF Runtime, Unobserved

\* A look at the live file and the drift it shows.
LEMMA DriftInv ==
  ASSUME IInv, NEW p \in Actors, ReadRuntimeAuthority(p) \/ LookAtLive(p) \/ ObserveDrift(p)
  PROVE  StoreStep /\ ActorInv'
<1>1. /\ Stands(actor[p], generations, Desired) /\ actor \in [Actors -> Activity]
      /\ actor[p].pc \in {"look"} \cup Observing /\ live \in Content
  BY DEF IInv, ActorInv, ActorTyped, ReadsStand, ReadRuntimeAuthority, LookAtLive, ObserveDrift, At, Observing
<1>2. Desired # 0 /\ Desired \in DOMAIN generations /\ (p = Worker => ~At(Worker, "down"))
  BY <1>1 DEF Stands, Unfounded, Observing, At, IInv, StoreInv, Lineage
<1>3. FilesTyped' /\ loaded' = loaded
  BY DEF ReadRuntimeAuthority, LookAtLive, ObserveDrift, fileVars, FilesTyped, IInv, ActorInv, ActorTyped
<1>4. StoreStep
  <2>1. /\ UNCHANGED <<generations, claims, active>> /\ Desired' = Desired
        /\ authority' \in [desired : Nat, version : Nat, drifted : BOOLEAN]
    <3>1. authority \in [desired : Nat, version : Nat, drifted : BOOLEAN]
      BY DEF IInv, StoreInv, StoreTyped
    <3>2. CASE UNCHANGED authority
      BY <3>1, <3>2 DEF ReadRuntimeAuthority, LookAtLive, ObserveDrift, storeVars, Desired
    <3>3. CASE \E b \in BOOLEAN : authority' = [authority EXCEPT !.drifted = b, !.version = @ + 1]
      <4>1. UNCHANGED <<generations, claims, active>>
        BY DEF ReadRuntimeAuthority, LookAtLive, ObserveDrift, storeVars
      <4>2. PICK b \in BOOLEAN : authority' = [authority EXCEPT !.drifted = b, !.version = @ + 1]
        BY <3>3
      <4>3. authority' \in [desired : Nat, version : Nat, drifted : BOOLEAN]
        <5>1. authority' = [desired |-> authority.desired, version |-> authority.version + 1, drifted |-> b]
          BY <3>1, <4>2
        <5>2. authority.desired \in Nat /\ authority.version + 1 \in Nat
          BY <3>1
        <5> QED
          BY <5>1, <5>2
      <4>4. authority'.desired = authority.desired
        BY <3>1, <4>2
      <4> QED
        BY <4>1, <4>3, <4>4 DEF Desired
    <3> QED
      BY <3>2, <3>3 DEF ReadRuntimeAuthority, LookAtLive, ObserveDrift, storeVars
  <2> QED
    BY <2>1, StoreUnchanged DEF IInv, StoreInv, StoreTyped
<1>5. Snapshot(p) \in Read /\ Snapshot(p).desired = Desired
  BY SnapshotStands DEF IInv
<1>6. Looks(p)
  <2>1. ASSUME NEW c \in {"live", "relive", "drift", "redrift"}, NEW x \in Content, NEW r \in Read,
               r.desired \in DOMAIN generations,
               actor' = [actor EXCEPT ![p].pc = c, ![p].seen = r, ![p].content = x]
        PROVE  Looks(p)
    BY <1>1, <1>2, <2>1, SeenLooks DEF PCs, Observing
  <2>2. actor[p] \in Activity /\ Absent \in Content
    BY <1>1 DEF Content
  <2>3. CASE ReadRuntimeAuthority(p)
    <3>1. CASE Observed(p, Snapshot(p))
      BY <1>2, <1>5, <3>1, ObservedLooks
    <3>2. CASE actor' = [actor EXCEPT ![p].pc = "live", ![p].seen = Snapshot(p)]
      <4>1. actor' = [actor EXCEPT ![p].pc = "live", ![p].seen = Snapshot(p), ![p].content = actor[p].content]
        BY <1>1, <2>2, <3>2 DEF Activity
      <4> QED
        BY <1>2, <1>5, <2>1, <2>2, <4>1 DEF Activity
    <3> QED
      BY <2>3, <3>1, <3>2 DEF ReadRuntimeAuthority
  <2>4. CASE LookAtLive(p)
    <3>1. actor[p].seen \in Read /\ actor[p].seen.desired \in DOMAIN generations
      BY <1>1, <2>4 DEF LookAtLive, Stands, Observing, Activity
    <3>2. PICK c \in {"drift", "redrift"} :
            actor' = [actor EXCEPT ![p].pc = c, ![p].content = live]
      BY <2>4 DEF LookAtLive
    <3>3. actor' = [actor EXCEPT ![p].pc = c, ![p].seen = actor[p].seen, ![p].content = live]
      BY <1>1, <2>2, <3>2 DEF Activity
    <3> QED
      BY <1>1, <2>1, <3>1, <3>3
  <2>5. CASE ObserveDrift(p)
    <3>1. actor[p].seen \in Read /\ actor[p].seen.desired \in DOMAIN generations
      BY <1>1, <2>5 DEF ObserveDrift, Stands, Observing, Activity
    <3>2. \/ \E seen \in {actor[p].seen, Snapshot(p)} : Runtime(p, seen)
          \/ Unobserved(p)
          \/ actor' = [actor EXCEPT ![p].seen = Snapshot(p), ![p].content = Absent, ![p].pc = "relive"]
      BY <2>5 DEF ObserveDrift
    <3>3. CASE actor' = [actor EXCEPT ![p].seen = Snapshot(p), ![p].content = Absent, ![p].pc = "relive"]
      <4>1. actor' = [actor EXCEPT ![p].pc = "relive", ![p].seen = Snapshot(p), ![p].content = Absent]
        BY <1>1, <3>3 DEF Activity
      <4> QED
        BY <1>2, <1>5, <2>1, <2>2, <4>1
    <3> QED
      BY <1>2, <1>5, <3>1, <3>2, <3>3, ObservedLooks
  <2> QED
    BY <2>3, <2>4, <2>5
<1> QED
  BY <1>2, <1>3, <1>4, <1>6, LooksInv

\* The desired generation becomes effective.
LEMMA EffectiveInv ==
  ASSUME IInv, NEW p \in Actors, ObserveEffective(p)
  PROVE  StoreStep /\ ActorInv'
<1>1. /\ Stands(actor[p], generations, Desired) /\ actor \in [Actors -> Activity]
      /\ actor[p].pc = "effective"
  BY DEF IInv, ActorInv, ActorTyped, ReadsStand, ObserveEffective, At
<1>2. Desired # 0 /\ Desired \in DOMAIN generations /\ (p = Worker => ~At(Worker, "down"))
  BY <1>1 DEF Stands, Unfounded, At, IInv, StoreInv, Lineage
<1>3. FilesTyped' /\ loaded' = loaded /\ UNCHANGED <<claims, active>>
  BY DEF ObserveEffective, fileVars, FilesTyped, IInv, ActorInv, ActorTyped
<1>4. authority.version \in Nat /\ Desired \in Nat
  BY DEF IInv, StoreInv, StoreTyped, Desired
<1>5. CASE UNCHANGED <<authority, generations>> /\ Observed(p, Snapshot(p))
  <2>1. Looks(p)
    BY <1>2, <1>5, SnapshotStands, ObservedLooks DEF IInv
  <2>2. StoreStep
    BY <1>3, <1>5, StoreUnchanged DEF IInv, StoreInv, StoreTyped, Desired
  <2> QED
    BY <1>2, <1>3, <2>1, <2>2, LooksInv
<1>6. CASE /\ generations[Desired].life = "pending_restart"
           /\ generations' = [generations EXCEPT ![Desired].life = "effective"]
           /\ authority' = [authority EXCEPT !.version = @ + 1]
           /\ Observed(p, [desired |-> Desired, effective |-> TRUE,
                           version |-> authority.version + 1, intent |-> 0])
  <2>1. Looks(p)
    <3>. DEFINE seen == [desired |-> Desired, effective |-> TRUE,
                         version |-> authority.version + 1, intent |-> 0]
    <3>1. seen \in Read /\ seen.desired = Desired /\ Observed(p, seen)
      BY <1>4, <1>6 DEF Read
    <3> HIDE DEF seen
    <3> QED
      BY <1>2, <3>1, ObservedLooks
  <2>2. \A g \in DOMAIN generations : generations[g] \in Generation
    BY DEF IInv, StoreInv, StoreTyped
  <2>3. /\ DOMAIN generations' = DOMAIN generations
        /\ generations'[Desired] = [generations[Desired] EXCEPT !.life = "effective"]
        /\ \A g \in DOMAIN generations \ {Desired} : generations'[g] = generations[g]
    BY <1>2, <1>6, <2>2
  <2>4. Desired' = Desired /\ authority' \in [desired : Nat, version : Nat, drifted : BOOLEAN]
    BY <1>6 DEF Desired, IInv, StoreInv, StoreTyped
  <2>5. Incomplete' = Incomplete
    BY <1>2, <1>6, <2>2, <2>3 DEF Incomplete, Unresolved, Generation
  <2>6. StoreTyped'
    <3>1. generations' \in [DOMAIN generations -> Generation]
      BY <1>2, <1>6, <2>2, <2>3 DEF Generation, Life
    <3> QED
      BY <1>3, <2>4, <3>1, Rewritten DEF IInv, StoreInv, StoreTyped
  <2>7. \A g \in DOMAIN generations : /\ generations'[g].digest = generations[g].digest
                                       /\ generations'[g].parent = generations[g].parent
    BY <1>2, <2>2, <2>3 DEF Generation
  <2>8. Lineage'
    BY <1>2, <2>2, <2>3, <2>4, <2>5 DEF IInv, StoreInv, Lineage, Generation
  <2>9. ActiveRunSupported'
    BY <1>2, <1>3, <2>4, <2>5, <2>7 DEF IInv, StoreInv, ActiveRunSupported, DigestOf, Incomplete
  <2>10. Outcomes
    BY <1>2, <1>6, <2>2, <2>3 DEF Outcomes, Status, Generation
  <2>11. StoreStep
    BY <1>2, <2>3, <2>4, <2>6, <2>7, <2>8, <2>9, <2>10 DEF StoreStep, StoreInv, Kept
  <2> QED
    BY <1>2, <1>3, <2>1, <2>11, LooksInv
<1> QED
  BY <1>5, <1>6 DEF ObserveEffective

\* The worker asks for a run, and is given one only under what is desired.
LEMMA ReserveInv ==
  ASSUME IInv, StartCheck \/ Reserve
  PROVE  StoreStep /\ ActorInv'
<1>1. /\ Worker \in Actors /\ Stands(actor[Worker], generations, Desired)
      /\ actor \in [Actors -> Activity] /\ ~At(Worker, "down")
  BY DEF Actors, IInv, ActorInv, ActorTyped, ReadsStand, StartCheck, Reserve, At
<1>2. Desired # 0
  BY <1>1 DEF IInv, ActorInv, WorkerReads
<1>3. FilesTyped' /\ loaded' = loaded
  BY DEF StartCheck, Reserve, fileVars, FilesTyped, IInv, ActorInv, ActorTyped
<1>4. CASE StartCheck
  <2>1. StoreStep
    BY <1>4, StoreUnchanged DEF StartCheck, storeVars, IInv, StoreInv, StoreTyped, Desired
  <2>. DEFINE s == [actor[Worker] EXCEPT !.pc = "look", !.job = "check"]
  <2>2. s \in Activity /\ actor' = [actor EXCEPT ![Worker] = s]
    <3>1. "look" \in PCs /\ "check" \in Jobs
      BY DEF PCs, Jobs
    <3> QED
      BY <1>1, <1>4, <3>1 DEF StartCheck, Activity
  <2>3. s.pc = "look" /\ s.job = "check"
    BY <1>1 DEF Activity
  <2>4. Looks(Worker)
    BY <1>1, <1>2, <2>2, <2>3
    DEF Looks, Moves, Stands, Unfounded, Reconciling, Observing, Replacing, Asking
  <2> QED
    BY <1>1, <1>3, <2>1, <2>4, LooksInv
<1>5. CASE Reserve
  <2>1. Looks(Worker)
    BY <1>1, <1>5, RestLooks DEF Reserve
  <2>2. UNCHANGED <<generations, claims, authority>> /\ Desired' = Desired /\ Incomplete' = Incomplete
    BY <1>5 DEF Reserve, Desired, Incomplete
  <2>3. ASSUME active' = active
        PROVE  StoreStep
    <3>1. StoreInv /\ claims \subseteq Digests /\ authority \in [desired : Nat, version : Nat, drifted : BOOLEAN]
      BY DEF IInv, StoreInv, StoreTyped
    <3> QED
      BY <2>2, <2>3, <3>1, StoreUnchanged
  <2>4. ASSUME MayReserve(actor[Worker].seen), active' = active \cup {loaded}
        PROVE  StoreStep
    <3>1. Incomplete = {} /\ loaded = DigestOf(Desired)
      BY <1>5, <2>4 DEF MayReserve, Reserve, IInv, ActorInv, WorkerReads
    <3>2. DigestOf(Desired) \in Digests
      <4>1. generations[Desired] \in Generation
        BY <1>2 DEF IInv, StoreInv, StoreTyped, Lineage
      <4> QED
        BY <4>1 DEF Generation, DigestOf
    <3>3. ActiveRunSupported'
      BY <2>2, <2>4, <3>1, <3>2, ConfigConstants DEF IInv, StoreInv, ActiveRunSupported, DigestOf
    <3>4. StoreTyped' /\ Lineage'
      BY <1>2, <2>2 DEF IInv, StoreInv, StoreTyped, Lineage
    <3>5. Outcomes /\ Kept(generations, generations')
      BY <2>2 DEF Outcomes, Status, Kept
    <3> QED
      BY <2>2, <3>3, <3>4, <3>5 DEF StoreStep, StoreInv
  <2>5. StoreStep
    BY <1>5, <2>3, <2>4 DEF Reserve
  <2> QED
    BY <1>1, <1>3, <2>1, <2>5, LooksInv
<1> QED
  BY <1>4, <1>5

\* A worker is started by the only command that may.
LEMMA LaunchInv ==
  ASSUME IInv, NEW p \in Procs, Compose(p) \/ LaunchWorker(p)
  PROVE  StoreStep /\ ActorInv'
<1>1. /\ p \in Actors /\ Worker \in Actors /\ p # Worker /\ actor \in [Actors -> Activity]
      /\ Stands(actor[p], generations, Desired) /\ ReadsStand
  BY ConfigConstants DEF Actors, IInv, ActorInv, ActorTyped, ReadsStand
<1>2. FilesTyped' /\ UNCHANGED storeVars
  BY DEF Compose, LaunchWorker, fileVars, FilesTyped, IInv, ActorInv, ActorTyped
<1>3. StoreStep /\ Desired' = Desired /\ generations' = generations
  BY <1>2, StoreUnchanged DEF storeVars, Desired, IInv, StoreInv, StoreTyped
<1>4. CASE Compose(p)
  <2>1. CASE Rest(p)
    BY <1>1, <1>2, <1>4, <2>1, RestLands, LocalInv DEF Compose
  <2>2. CASE /\ Desired # 0 /\ At(Worker, "down") /\ (\A q \in Procs : ~At(q, "launch"))
             /\ actor' = [actor EXCEPT ![p].pc = "launch", ![p].target = DigestOf(Desired)]
    <3>. DEFINE s == [actor[p] EXCEPT !.pc = "launch", !.target = DigestOf(Desired)]
    <3>1. DigestOf(Desired) \in Digests
      <4>1. generations[Desired] \in Generation
        BY <2>2 DEF IInv, StoreInv, StoreTyped, Lineage
      <4> QED
        BY <4>1 DEF Generation, DigestOf
    <3>2. s \in Activity
      <4>1. "launch" \in PCs /\ DigestOf(Desired) \in Content
        BY <3>1 DEF PCs, Content, Contents
      <4> QED
        BY <1>1, <4>1 DEF Activity
    <3>3. actor' = [actor EXCEPT ![p] = s]
      BY <1>1, <2>2 DEF Activity
    <3>4. s.pc = "launch" /\ s.target = DigestOf(Desired)
      BY <1>1 DEF Activity
    <3>5. Stands(s, generations, Desired)
      BY <2>2, <3>1, <3>4 DEF Stands, Unfounded, Reconciling, Observing, Replacing, Asking
    <3>6. /\ actor' \in [Actors -> Activity] /\ actor'[p] = s
          /\ \A q \in Actors \ {p} : actor'[q] = actor[q]
      BY <1>1, <3>2, <3>3
    <3>7. ReadsStand'
      BY <1>1, <1>3, <3>5, <3>6 DEF ReadsStand
    <3>8. ActorTyped' /\ loaded' = loaded
      BY <1>2, <1>4, <3>6 DEF ActorTyped, FilesTyped, Compose, IInv, ActorInv
    <3>9. WorkerReads'
      BY <1>1, <1>3, <3>6, <3>8 DEF IInv, ActorInv, WorkerReads, At, DigestOf
    <3>10. OneLaunch'
      BY <1>1, <2>2, <3>6 DEF OneLaunch, At, Actors
    <3> QED
      BY <1>3, <3>7, <3>8, <3>9, <3>10 DEF ActorInv
  <2> QED
    BY <1>4, <2>1, <2>2 DEF Compose
<1>5. CASE LaunchWorker(p)
  <2>1. Desired # 0 /\ At(Worker, "down") /\ (\A q \in Procs : At(q, "launch") => q = p)
    BY <1>1, <1>5 DEF LaunchWorker, At, Stands, Unfounded, IInv, ActorInv, OneLaunch
  <2>. DEFINE s == [actor[Worker] EXCEPT !.pc = "idle"]
  <2>2. Resting \in Activity /\ Resting.pc = "idle" /\ "idle" \in PCs
    BY DEF Resting, NoSnapshot, Activity, Content, Read, PCs, Jobs
  <2>3. s \in Activity /\ s.pc = "idle" /\ s.job = actor[Worker].job /\ s.target = actor[Worker].target
    BY <1>1, <2>2 DEF Activity
  <2>4. /\ actor' \in [Actors -> Activity] /\ actor'[p] = Resting /\ actor'[Worker] = s
        /\ \A q \in Actors \ {p, Worker} : actor'[q] = actor[q]
    BY <1>1, <1>5, <2>2, <2>3 DEF LaunchWorker
  <2>5. Stands(Resting, generations, Desired) /\ Stands(s, generations, Desired)
    <3>1. Stands(actor[Worker], generations, Desired)
      BY <1>1 DEF ReadsStand
    <3> QED
      BY <2>3, <3>1 DEF Resting, Stands, Unfounded, Reconciling, Observing, Replacing, Asking
  <2>6. ReadsStand'
    BY <1>1, <1>3, <2>4, <2>5 DEF ReadsStand
  <2>7. ActorTyped'
    <3>1. loaded' \in Content
      BY <1>1, <1>5 DEF LaunchWorker, Activity
    <3> QED
      BY <1>2, <2>4, <3>1 DEF ActorTyped, FilesTyped
  <2>8. WorkerReads' /\ OneLaunch'
    BY <1>1, <1>3, <2>1, <2>2, <2>3, <2>4 DEF WorkerReads, OneLaunch, At, Actors
  <2> QED
    BY <1>3, <2>6, <2>7, <2>8 DEF ActorInv
<1> QED
  BY <1>4, <1>5

\* A worker that ends takes nothing with it that others rely on.
LEMMA StopInv ==
  ASSUME IInv, StopWorker
  PROVE  StoreStep /\ ActorInv'
<1>a. /\ Worker \in Actors /\ Worker \notin Procs /\ actor \in [Actors -> Activity] /\ ReadsStand
  BY ConfigConstants DEF Actors, IInv, ActorInv, ActorTyped
<1>b. /\ FilesTyped' /\ StoreStep /\ Desired' = Desired /\ generations' = generations
  BY StoreUnchanged
  DEF StopWorker, storeVars, fileVars, FilesTyped, Desired, IInv, ActorInv, ActorTyped, StoreInv, StoreTyped
<1>. DEFINE s == [Resting EXCEPT !.pc = "down"]
<1>1. s \in Activity /\ s.pc = "down"
  BY DEF Resting, NoSnapshot, Activity, Content, Read, PCs, Jobs
<1>2. /\ actor' \in [Actors -> Activity] /\ actor'[Worker] = s
      /\ \A q \in Actors \ {Worker} : actor'[q] = actor[q]
  BY <1>a, <1>1 DEF StopWorker
<1>3. Stands(s, generations, Desired)
  BY DEF Resting, Stands, Unfounded, Reconciling, Observing, Replacing, Asking
<1>4. ReadsStand'
  BY <1>a, <1>b, <1>2, <1>3 DEF ReadsStand
<1>5. ActorTyped'
  BY <1>b, <1>2 DEF StopWorker, ActorTyped, FilesTyped, IInv, ActorInv
<1>6. WorkerReads' /\ OneLaunch'
  BY <1>a, <1>1, <1>2 DEF WorkerReads, OneLaunch, At, Actors, IInv, ActorInv
<1> QED
  BY <1>b, <1>4, <1>5, <1>6 DEF ActorInv

\* Runs that end, a third party's edit, a crash, and no step at all.
LEMMA AroundInv ==
  ASSUME IInv, FinishRun \/ EditLive \/ UNCHANGED vars
  PROVE  StoreStep /\ ActorInv'
<1>1. UNCHANGED <<generations, claims, authority, actor, loaded>> /\ active' \subseteq active /\ Desired' = Desired
  BY DEF FinishRun, EditLive, vars, storeVars, Desired
<1>2. StoreStep
  BY <1>1, StoreUnchanged DEF IInv, StoreInv, StoreTyped
<1>3. live' \in Content /\ stage'.content \in Content
  BY ConfigConstants DEF FinishRun, EditLive, vars, fileVars, Content, IInv, ActorInv, ActorTyped
<1>4. ActorTyped'
  BY <1>1, <1>3 DEF IInv, ActorInv, ActorTyped
<1>5. ReadsStand' /\ WorkerReads' /\ OneLaunch'
  BY <1>1 DEF IInv, ActorInv, ReadsStand, WorkerReads, OneLaunch, At, DigestOf
<1> QED
  BY <1>2, <1>4, <1>5 DEF ActorInv

\* A crashed command relies on nothing.
LEMMA CrashInv ==
  ASSUME IInv, NEW p \in Procs, Crash(p)
  PROVE  StoreStep /\ ActorInv'
<1>1. Lands(p)
  BY RestLands DEF Crash, Actors
<1> QED
  BY <1>1, LocalInv DEF Crash, fileVars, FilesTyped, IInv, ActorInv, ActorTyped

-----------------------------------------------------------------------------

\* Nothing is configured at first.
LEMMA InitInv == Init => IInv
<1>. SUFFICES ASSUME Init PROVE IInv
  OBVIOUS
<1>1. StoreInv
  <2>1. generations = <<>> /\ active = {} /\ claims = {} /\ Desired = 0
        /\ authority = [desired |-> 0, version |-> 0, drifted |-> FALSE]
    BY DEF Init, Desired
  <2>2. Incomplete = {}
    BY <2>1 DEF Incomplete
  <2> QED
    BY <2>1, <2>2 DEF StoreInv, StoreTyped, Lineage, ActiveRunSupported
<1>2. Resting \in Activity /\ [Resting EXCEPT !.pc = "down"] \in Activity
  BY DEF Resting, NoSnapshot, Activity, Content, Read, PCs, Jobs
<1>3. /\ actor \in [Actors -> Activity]
      /\ \A p \in Actors : actor[p] \in {Resting, [Resting EXCEPT !.pc = "down"]}
      /\ Worker \in Actors => actor[Worker].pc = "down"
  BY <1>2 DEF Init, Resting
<1>4. ActorTyped
  BY <1>3, ConfigConstants DEF Init, ActorTyped, NoStage, Content, Contents
<1>5. ReadsStand
  BY <1>3 DEF ReadsStand, Stands, Resting, Unfounded, Reconciling, Observing, Replacing, Asking
<1>6. WorkerReads /\ OneLaunch
  BY <1>3 DEF WorkerReads, OneLaunch, At, Actors, Resting
<1> QED
  BY <1>1, <1>4, <1>5, <1>6 DEF IInv, ActorInv

\* Every step keeps the invariant and every recorded outcome.
LEMMA NextStep ==
  ASSUME IInv, [Next]_vars
  PROVE  StoreStep /\ ActorInv'
<1>1. ASSUME NEW p \in Procs, ConfigStep(p)
      PROVE  StoreStep /\ ActorInv'
  BY <1>1, ReadAuthorityInv, ReconcileInv, SettleReconciledInv, AskInv, BeginApplyInv, ReplaceInv,
     SettleApplyInv, BaselineInv, PruneInv DEF ConfigStep
<1>2. ASSUME NEW p \in Actors, ObserveStep(p)
      PROVE  StoreStep /\ ActorInv'
  BY <1>2, DriftInv, EffectiveInv DEF ObserveStep
<1> QED
  BY <1>1, <1>2, StartInv, LaunchInv, CrashInv, ReserveInv, StopInv, AroundInv DEF Next

\* So it keeps the invariant and every outcome.
LEMMA NextInv ==
  ASSUME IInv, [Next]_vars
  PROVE  IInv' /\ Outcomes
BY NextStep DEF StoreStep, IInv

\* The runs under way keep what they need: whatever is desired, or is about to
\* become so, is compatible with the configuration each was admitted under,
\* however the gate's reads and the apply's interleave.
THEOREM RunsSupported == Spec => []ActiveRunSupported
<1>1. IInv => ActiveRunSupported
  BY DEF IInv, StoreInv
<1> QED
  BY <1>1, InitInv, NextInv, PTL DEF Spec

\* What SettleConfigurationApply recorded is what every later settlement,
\* reconciliation and observation finds and leaves.
THEOREM OutcomesStand == Spec => OutcomeFinal
<1>1. IInv /\ [Next]_vars => [\A g \in DOMAIN generations : Status(g) # "accepted" => Status(g)' = Status(g)]_vars
  BY NextInv DEF Outcomes
<1> QED
  BY <1>1, InitInv, NextInv, PTL DEF Spec, OutcomeFinal
==============================================================================
