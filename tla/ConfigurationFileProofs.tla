------------------------ MODULE ConfigurationFileProofs ------------------------
(***************************************************************************)
(* The files of the configuration: the bytes of what is desired, or may     *)
(* become so, are kept, and an edit of the live file is given up only for   *)
(* another edit, for any number of processes, digests, generations, edits   *)
(* and troubles.  The argument is the mutation lock: whoever changes a      *)
(* file, a claim or an intent holds it, so what its holder has read of them *)
(* stands until it lets go, the live file excepted, which may have become   *)
(* an edit at any time.                                                     *)
(***************************************************************************)
EXTENDS ConfigurationProofs

\* The positions at which a process holds the lock, and those at which it carries a content.
Held == ((Reconciling \cup Pruning) \ {"reconcile", "prune_lock"})
          \cup Replacing \cup {"begin", "adopt"}
Reading == ((Reconciling \cup Pruning) \ {"reconcile", "prune_lock", "prune"})
             \cup {"adopt", "live", "relive", "drift", "redrift"}

\* The apply that has just settled keeps the lock while it looks.
HoldsLock(p) == actor[p].pc \in Held \/ actor[p].job = "settled" => lock = p

\* An observation is part of an apply, of its failed replacement, or follows its settlement.
JobFits(p) ==
  /\ actor[p].pc # "idle" => actor[p].job \in {"load", "loaded", "apply", "replace", "settled"}
  /\ actor[p].pc \in {"look"} \cup Observing => actor[p].job \in {"apply", "replace", "settled"}
  /\ actor[p].job = "settled" =>
       actor[p].pc \in {"look"} \cup Observing \cup (Pruning \ {"prune_lock"})

\* What a process is about to remove is claimed, and what it is about to accept is there.
RawReads(p) ==
  /\ actor[p].pc \notin Reading => actor[p].content = Absent
  /\ actor[p].pc \in {"prune_claims", "prune_more"} => actor[p].content \in claims \cup {Absent}
  /\ actor[p].pc = "prune_claims" => actor[p].todo \subseteq claims \ {actor[p].content}
  /\ actor[p].pc = "begin" => actor[p].target \in rawFiles
  /\ actor[p].pc = "adopt" => actor[p].content \in rawFiles

\* A replacement at position pc, of the desired parent by target.
ReplacementFits(pc, parent, target) ==
  /\ pc = "stage"    => stage.content = Absent /\ live \in {parent} \cup edits
  /\ pc = "swap"     => stage.content = target /\ live \in {parent} \cup edits
  /\ pc = "captured" => stage.content \in {parent} \cup edits /\ live \in {target} \cup edits
  /\ pc \in {"verify", "settle"} => stage.content = Absent /\ live \in {target} \cup edits

\* A reconciliation that found the content found, for an intent that is still unsettled.
ReconciliationFits(pc, found, parent, target) ==
  /\ pc = "rec_swap"   => stage.content \in edits /\ live \in {target} \cup edits
  /\ pc = "rec_reread" => stage.content \in {target} \cup edits /\ live \in edits
  /\ pc = "rec_remove" => /\ found \in {parent, target} \cup edits /\ live \in {found} \cup edits
                          /\ stage.content \in {parent, target} \/ live \in edits
  /\ pc = "rec_settle" /\ found # Absent => stage.content = Absent /\ live \in {found} \cup edits

\* What a process has read of the files and the intent still holds when it is used: s is the
\* state of a process that replaces the live file, or reconciles.
Replaces(s) ==
  s.pc \in Replacing =>
    \E g \in Incomplete : /\ generations[g].parent = s.parent /\ DigestOf(g) = s.target
                          /\ ReplacementFits(s.pc, DigestOf(Desired), DigestOf(g))
Reconciles(s) ==
  /\ s.pc \in Reconciling => generations[s.seen.intent].parent = s.seen.desired
  /\ s.pc \in {"rec_swap", "rec_reread", "rec_remove"} => s.seen.intent \in Incomplete
  /\ s.pc \in Reconciling /\ s.seen.intent \in Incomplete =>
       ReconciliationFits(s.pc, s.content, DigestOf(Desired), DigestOf(s.seen.intent))

\* A command holds the lock where it must, and what it has read holds.
ProcFit(p) == /\ HoldsLock(p) /\ JobFits(p) /\ RawReads(p)
              /\ Replaces(actor[p]) /\ Reconciles(actor[p])

\* An unsettled intent is a change of the desired generation, and it and the desired one
\* keep their raw files until they are superseded; an operation has one generation.
IntentFounded ==
  /\ Desired # 0 => generations[Desired].raw
  /\ \A g \in Incomplete : generations[g].parent = Desired /\ generations[g].raw
  /\ \A g, h \in DOMAIN generations :
       generations[g].parent = generations[h].parent /\ DigestOf(g) = DigestOf(h) => g = h

\* A claim is on nothing that is desired or may become so.
ClaimsFree ==
  /\ Desired = 0 => claims = {}
  /\ Desired # 0 => DigestOf(Desired) \notin claims
  /\ \A g \in Incomplete : DigestOf(g) \notin claims

\* The live and the captured content around the exchange for intent g.
Exchanged(g) ==
  /\ stage.content # Absent => stage.gen = g
  /\ \/ stage.content = Absent /\ live \in {DigestOf(Desired), DigestOf(g)} \cup edits
     \/ stage.content = DigestOf(g) /\ live \in {DigestOf(Desired)} \cup edits
     \/ stage.content \in {DigestOf(Desired)} \cup edits /\ live \in {DigestOf(g)} \cup edits

\* The files in every state: before a baseline, settled, and around an exchange.
FilesFit ==
  /\ live # Absent /\ Absent \notin edits
  /\ Desired = 0 => stage.content = Absent
  /\ Desired # 0 /\ Incomplete = {} => stage.content = Absent /\ live \in {DigestOf(Desired)} \cup edits
  /\ \A g \in Incomplete : Exchanged(g)

\* The strengthened invariant: the store and the files, and every command's reading of them.
StoreFit == IntentFounded /\ ClaimsFree /\ RawKept /\ FilesFit
Full == IInv /\ StoreFit /\ \A p \in Procs : ProcFit(p)

-----------------------------------------------------------------------------
(* What the lemmas below take from the invariant of the store and the processes. *)

\* Generations have valid digests, and the desired one is settled.
LEMMA Ground ==
  ASSUME IInv
  PROVE  /\ Desired \in Nat /\ Incomplete \subseteq DOMAIN generations
         /\ 0 \notin DOMAIN generations
         /\ \A g \in DOMAIN generations : DigestOf(g) \in Digests /\ DigestOf(g) # Absent
         /\ Absent \notin Digests /\ claims \subseteq Digests
         /\ Worker \notin Procs /\ Absent \notin Procs /\ Procs \subseteq Actors
         /\ Desired # 0 => Desired \in DOMAIN generations /\ Desired \notin Incomplete
         /\ Desired = 0 => DOMAIN generations = {}
         /\ \A g, h \in Incomplete : g = h
<1>1. generations \in Seq(Generation) /\ authority.desired \in Nat /\ claims \subseteq Digests
  BY DEF IInv, StoreInv, StoreTyped
<1>2. \A g \in DOMAIN generations : generations[g] \in Generation
  BY <1>1
<1>3. \A g \in DOMAIN generations : DigestOf(g) \in Digests
  BY <1>2 DEF Generation, DigestOf
<1>4. 0 \notin DOMAIN generations
  BY <1>1
<1>5. Absent \notin Digests /\ Absent \notin Procs /\ Worker \notin Procs /\ Procs \subseteq Actors
  BY ConfigConstants DEF Contents, Actors
<1>6. Lineage
  BY DEF IInv, StoreInv
<1>7. Incomplete \subseteq DOMAIN generations
  BY DEF Incomplete
<1>8. Desired # 0 => Desired \notin Incomplete
  BY <1>6 DEF Lineage, Incomplete, Unresolved
<1> QED
  BY <1>1, <1>3, <1>4, <1>5, <1>6, <1>7, <1>8 DEF Lineage, Desired

\* What process p has of a reading whose position relies on the lock.
LEMMA ActorGround ==
  ASSUME IInv, NEW p \in Actors
  PROVE  /\ actor \in [Actors -> Activity] /\ actor[p].pc \in PCs
         /\ actor[p].content \in Content /\ actor[p].todo \subseteq Digests
         /\ Stands(actor[p], generations, Desired)
BY DEF IInv, ActorInv, ActorTyped, Activity, ReadsStand

\* A step that changes files, claims or intents is made under the lock, or while it is free.
Guarded(p) ==
  IF lock \in {Absent, p} THEN lock' \in {Absent, p}
  ELSE /\ UNCHANGED <<lock, rawFiles, claims, live, stage, edits>>
       /\ Incomplete' = Incomplete /\ Desired' = Desired

\* So nobody else who relies on a file is disturbed.
LEMMA OthersFit ==
  ASSUME Full, NEW p \in Actors, NEW q \in Procs, q # p, actor'[q] = actor[q],
         Kept(generations, generations'), Guarded(p)
  PROVE  ProcFit(q)'
<1>1. q # Absent /\ q \in Actors
  BY Ground DEF Full
<1>2. /\ ProcFit(q) /\ Stands(actor[q], generations, Desired)
  BY <1>1, ActorGround DEF Full
<1>3. JobFits(q)' /\ (actor[q].pc \notin Reading => actor'[q].content = Absent)
  BY <1>2 DEF ProcFit, JobFits, RawReads
<1>4. actor[q].pc \in Reconciling => generations'[actor[q].seen.intent].parent = actor[q].seen.desired
  BY <1>2 DEF Kept, ProcFit, Reconciles, Stands
<1>5. CASE lock = q
  <2>1. /\ UNCHANGED <<lock, rawFiles, claims, live, stage, edits>>
        /\ Incomplete' = Incomplete /\ Desired' = Desired
    BY <1>1, <1>5 DEF Guarded
  <2>2. \A g \in DOMAIN generations : DigestOf(g)' = DigestOf(g) /\ generations'[g].parent = generations[g].parent
    BY DEF Kept, DigestOf
  <2>3. HoldsLock(q)' /\ RawReads(q)'
    BY <1>2, <2>1 DEF ProcFit, HoldsLock, RawReads
  <2>4. /\ Incomplete \subseteq DOMAIN generations
        /\ Desired # 0 => Desired \in DOMAIN generations
    BY Ground DEF Full
  <2>5. Replaces(actor[q])'
    <3>1. CASE actor[q].pc \in Replacing
      <4>1. PICK g \in Incomplete : /\ generations[g].parent = actor[q].parent /\ DigestOf(g) = actor[q].target
                                    /\ ReplacementFits(actor[q].pc, DigestOf(Desired), DigestOf(g))
        BY <1>2, <3>1 DEF ProcFit, Replaces
      <4>2. Desired # 0
        BY <1>2, <3>1 DEF Stands, Replacing, Unfounded
      <4>3. DigestOf(Desired)' = DigestOf(Desired) /\ DigestOf(g)' = DigestOf(g)
        BY <2>1, <2>2, <2>4, <4>2 DEF DigestOf
      <4>4. ReplacementFits(actor[q].pc, DigestOf(Desired), DigestOf(g))'
        BY <2>1, <4>1, <4>3 DEF ReplacementFits
      <4> QED
        BY <2>1, <2>2, <2>4, <4>1, <4>4 DEF Replaces
    <3> QED
      BY <3>1 DEF Replaces
  <2>6. Reconciles(actor[q])'
    <3>1. CASE actor[q].pc \in Reconciling /\ actor[q].seen.intent \in Incomplete
      <4>1. Desired # 0
        BY <1>2, <3>1 DEF Stands, Reconciling, Unfounded
      <4>2. DigestOf(Desired)' = DigestOf(Desired)
            /\ DigestOf(actor[q].seen.intent)' = DigestOf(actor[q].seen.intent)
        BY <2>1, <2>2, <2>4, <3>1, <4>1 DEF DigestOf
      <4> QED
        BY <1>2, <1>4, <2>1, <3>1, <4>2 DEF ProcFit, Reconciles, ReconciliationFits
    <3> QED
      BY <1>2, <1>4, <2>1, <3>1 DEF ProcFit, Reconciles
  <2> QED
    BY <1>3, <2>3, <2>5, <2>6 DEF ProcFit
<1>6. CASE lock # q
  <2>1. actor[q].pc \notin Held /\ actor[q].job # "settled"
    BY <1>2, <1>6 DEF ProcFit, HoldsLock
  <2> QED
    BY <1>2, <1>3, <1>4, <2>1
    DEF ProcFit, HoldsLock, RawReads, Replaces, Reconciles, ReconciliationFits, Held, Pruning,
        Reconciling, Replacing
<1> QED
  BY <1>5, <1>6

\* A step of p keeps the invariant when what it leaves fits the store and p.
LEMMA Together ==
  ASSUME Full, NEW p \in Actors, IInv', Kept(generations, generations'), Guarded(p), StoreFit',
         \A q \in Procs \ {p} : actor'[q] = actor[q], p \in Procs => ProcFit(p)'
  PROVE  Full'
BY OthersFit DEF Full

\* A process that rests has read nothing.
LEMMA RestFits ==
  ASSUME NEW p \in Procs, actor'[p] = Resting
  PROVE  ProcFit(p)'
BY DEF Resting, ProcFit, HoldsLock, JobFits, RawReads, Replaces, Reconciles, Held, Reading, Pruning,
       Reconciling, Replacing, Observing

\* A process at a position that needs no lock relies on no file.
LEMMA LooseFits ==
  ASSUME NEW p \in Procs, actor'[p].pc \notin Held \cup {"reconcile"}, actor'[p].job # "settled",
         JobFits(p)', actor'[p].pc \notin {"drift", "redrift"} => actor'[p].content = Absent
  PROVE  ProcFit(p)'
BY DEF ProcFit, HoldsLock, RawReads, Replaces, Reconciles, ReconciliationFits, Held, Reading,
       Pruning, Reconciling, Replacing

\* A step that leaves the intents and the files alone.
LEMMA StoreStill ==
  ASSUME Full, UNCHANGED <<generations, claims, live, stage, edits>>, Desired' = Desired,
         rawFiles \cap Referenced \subseteq rawFiles'
  PROVE  StoreFit'
<1>1. Incomplete' = Incomplete /\ \A g : DigestOf(g)' = DigestOf(g)
  BY DEF Incomplete, DigestOf
<1>2. IntentFounded' /\ ClaimsFree'
  BY <1>1 DEF Full, StoreFit, IntentFounded, ClaimsFree
<1>3. FilesFit'
  BY <1>1 DEF Full, StoreFit, FilesFit, Exchanged, Unknown
<1>4. /\ Desired # 0 => DigestOf(Desired) \in Referenced
      /\ \A g \in Incomplete : DigestOf(g) \in Referenced /\ DigestOf(generations[g].parent) \in Referenced
  <2>1. \A g \in DOMAIN generations : generations[g].raw => DigestOf(g) \in Referenced
    BY DEF Referenced
  <2>2. \A g \in Incomplete : g \in DOMAIN generations /\ Desired # 0
    BY Ground DEF Full
  <2> QED
    BY <2>1, <2>2, Ground DEF Full, StoreFit, IntentFounded
<1>5. RawKept'
  BY <1>1, <1>4 DEF Full, StoreFit, RawKept
<1> QED
  BY <1>2, <1>3, <1>5 DEF StoreFit

-----------------------------------------------------------------------------
(* Steps that change no file, no claim and no intent. *)

\* A process that moves and at most takes or returns the lock.
LEMMA CalmStep ==
  ASSUME Full, NEW p \in Procs, IInv', UNCHANGED <<generations, claims, live, stage, edits, rawFiles>>,
         Desired' = Desired, \A q \in Procs \ {p} : actor'[q] = actor[q],
         lock' = lock \/ (lock \in {Absent, p} /\ lock' \in {Absent, p}), ProcFit(p)'
  PROVE  Full'
<1>1. StoreFit'
  BY StoreStill
<1>2. Kept(generations, generations') /\ Incomplete' = Incomplete
  BY DEF Kept, Incomplete
<1>3. Guarded(p)
  BY <1>2 DEF Guarded
<1> QED
  BY <1>1, <1>2, <1>3, Together, Ground DEF Full

\* What a process does when there is nothing to settle, or nothing that can be.
LEMMA AfterFits ==
  ASSUME Full, NEW p \in Procs, actor[p].pc # "idle", actor[p].job # "settled",
         actor[p].content = Absent, AfterReconcile(p) \/ AfterAmbiguous(p) \/ Rest(p)
  PROVE  ProcFit(p)' /\ \A q \in Procs \ {p} : actor'[q] = actor[q]
<1>1. /\ actor \in [Actors -> Activity] /\ p \in Actors /\ JobFits(p) /\ Procs \subseteq Actors
  BY ActorGround, Ground DEF Full, ProcFit
<1>2. \A q \in Procs \ {p} : actor'[q] = actor[q]
  BY <1>1 DEF AfterReconcile, AfterAmbiguous, Rest, Step
<1>3. CASE Rest(p)
  BY <1>1, <1>2, <1>3, RestFits DEF Rest
<1>4. CASE actor' = [actor EXCEPT ![p] = [Resting EXCEPT !.pc = "compose", !.job = "load"]]
  <2>1. actor'[p].pc = "compose" /\ actor'[p].job = "load" /\ actor'[p].content = Absent
    BY <1>1, <1>4 DEF Resting
  <2> QED
    BY <1>2, <2>1, LooseFits DEF JobFits, Held, Pruning, Reconciling, Replacing, Observing
<1>5. CASE \E c \in {"prune_lock", "compose"} : Step(p, c)
  <2>1. /\ actor'[p].pc \in {"prune_lock", "compose"} /\ actor'[p].job = actor[p].job
        /\ actor'[p].content = Absent
    BY <1>1, <1>5 DEF Step, Activity
  <2> QED
    BY <1>1, <1>2, <2>1, LooseFits DEF JobFits, Held, Pruning, Reconciling, Replacing, Observing
<1>6. CASE actor[p].job \notin {"load", "loaded"} /\ Step(p, "look")
  <2>1. actor'[p].pc = "look" /\ actor'[p].job = actor[p].job /\ actor'[p].content = Absent
    BY <1>1, <1>6 DEF Step, Activity
  <2> QED
    BY <1>1, <1>2, <1>6, <2>1, LooseFits DEF JobFits, Held, Pruning, Reconciling, Replacing, Observing
<1> QED
  BY <1>2, <1>3, <1>4, <1>5, <1>6 DEF AfterReconcile, AfterAmbiguous

\* A command is started.
LEMMA StartFits ==
  ASSUME Full, IInv', NEW p \in Procs, StartCommand(p) \/ StartApply(p)
  PROVE  Full'
<1>1. actor \in [Actors -> Activity] /\ p \in Actors /\ Procs \subseteq Actors /\ actor[p].pc = "idle"
      /\ ProcFit(p)
  BY ActorGround, Ground DEF Full, StartCommand, StartApply, At
<1>2. /\ actor'[p].pc = "read" /\ actor'[p].job \in {"load", "apply"}
      /\ actor'[p].content = actor[p].content
      /\ \A q \in Procs \ {p} : actor'[q] = actor[q]
  BY <1>1 DEF StartCommand, StartApply, Activity
<1>3. actor[p].content = Absent
  BY <1>1 DEF ProcFit, RawReads, Reading, Reconciling, Pruning
<1>4. ProcFit(p)'
  BY <1>2, <1>3, LooseFits DEF JobFits, Held, Pruning, Reconciling, Replacing, Observing
<1>5. /\ UNCHANGED <<generations, claims, live, stage, edits, rawFiles, lock>>
      /\ Desired' = Desired
  BY DEF StartCommand, StartApply, storeVars, fileVars, Desired
<1> QED
  BY <1>2, <1>4, <1>5, CalmStep

\* Reconcile reads the authority; an intent it is to settle is a change of what it read as
\* desired.
LEMMA ReadAuthorityFits ==
  ASSUME Full, IInv', NEW p \in Procs, ReadAuthority(p)
  PROVE  Full'
<1>1. actor \in [Actors -> Activity] /\ p \in Actors /\ Procs \subseteq Actors /\ actor[p].pc = "read"
      /\ ProcFit(p)
  BY ActorGround, Ground DEF Full, ReadAuthority, At
<1>2. actor[p].content = Absent /\ actor[p].job # "settled"
  BY <1>1 DEF ProcFit, RawReads, JobFits, Reading, Reconciling, Pruning, Observing
<1>3. CASE Step(p, "bind")
  <2>1. /\ actor'[p].pc = "bind" /\ actor'[p].job = actor[p].job /\ actor'[p].content = Absent
        /\ \A q \in Procs \ {p} : actor'[q] = actor[q]
    BY <1>1, <1>2, <1>3 DEF Step, Activity
  <2>2. ProcFit(p)'
    BY <1>1, <1>2, <2>1, LooseFits
    DEF ProcFit, JobFits, Held, Pruning, Reconciling, Replacing, Observing
  <2> QED
    BY <2>1, <2>2, CalmStep DEF ReadAuthority, storeVars, fileVars, Desired
<1>4. CASE Rest(p) \/ AfterReconcile(p) \/ AfterAmbiguous(p)
  BY <1>1, <1>2, <1>4, AfterFits, CalmStep DEF ReadAuthority, storeVars, fileVars, Desired
<1>5. CASE /\ Desired # 0 /\ Intent # 0
           /\ actor' = [actor EXCEPT ![p].pc = "reconcile", ![p].seen = Snapshot(p)]
  <2>1. /\ actor'[p].pc = "reconcile" /\ actor'[p].job = actor[p].job /\ actor'[p].content = Absent
        /\ actor'[p].seen = Snapshot(p)
        /\ \A q \in Procs \ {p} : actor'[q] = actor[q]
    BY <1>1, <1>2, <1>5 DEF Activity
  <2>2. Snapshot(p).desired = Desired /\ Snapshot(p).intent = Intent /\ Intent \in Incomplete
    BY <1>1, <1>5, SnapshotStands, IntentUnsettled DEF Full, IInv
  <2>3. /\ UNCHANGED <<generations, claims, live, stage, edits, rawFiles, lock>>
        /\ Desired' = Desired
    BY DEF ReadAuthority, storeVars, fileVars, Desired
  <2>4. generations'[actor'[p].seen.intent].parent = actor'[p].seen.desired
    BY <2>1, <2>2, <2>3 DEF Full, StoreFit, IntentFounded
  <2>5. ProcFit(p)'
    BY <1>1, <1>2, <2>1, <2>4
    DEF ProcFit, HoldsLock, JobFits, RawReads, Replaces, Reconciles, ReconciliationFits, Held,
        Reading, Pruning, Reconciling, Replacing, Observing
  <2> QED
    BY <2>1, <2>3, <2>5, CalmStep
<1> QED
  BY <1>3, <1>4, <1>5 DEF ReadAuthority

\* A check of an apply before it has the lock.
LEMMA CheckApplyFits ==
  ASSUME Full, IInv', NEW p \in Procs, CheckApply(p)
  PROVE  Full'
<1>1. /\ actor \in [Actors -> Activity] /\ p \in Actors /\ Procs \subseteq Actors
      /\ actor[p].pc = "check" /\ ProcFit(p) /\ actor[p].job = "apply"
  BY ActorGround, Ground DEF Full, CheckApply, At, Stands, Asking
<1>2. actor[p].content = Absent
  BY <1>1 DEF ProcFit, RawReads, Reading, Reconciling, Pruning
<1>3. CASE Rest(p)
  BY <1>1, <1>2, <1>3, AfterFits, CalmStep DEF CheckApply, storeVars, fileVars, Desired
<1>4. CASE Step(p, "apply_lock")
  <2>1. /\ actor'[p].pc = "apply_lock" /\ actor'[p].job = actor[p].job /\ actor'[p].content = Absent
        /\ \A q \in Procs \ {p} : actor'[q] = actor[q]
    BY <1>1, <1>2, <1>4 DEF Step, Activity
  <2>2. ProcFit(p)'
    BY <1>1, <2>1, LooseFits DEF JobFits, Held, Pruning, Reconciling, Replacing, Observing
  <2> QED
    BY <2>1, <2>2, CalmStep DEF CheckApply, storeVars, fileVars, Desired
<1> QED
  BY <1>3, <1>4 DEF CheckApply

-----------------------------------------------------------------------------
(* The reconciliation of an intent left behind. *)

\* The holder of the lock, or whoever takes it, changes the live file or the swap file of an
\* unsettled intent.
LEMMA ExchangeStep ==
  ASSUME Full, IInv', NEW p \in Procs, NEW g \in Incomplete,
         UNCHANGED <<generations, claims, rawFiles, edits>>, Desired' = Desired,
         \A q \in Procs \ {p} : actor'[q] = actor[q],
         lock \in {Absent, p}, lock' \in {Absent, p}, ProcFit(p)',
         live' # Absent, Exchanged(g)'
  PROVE  Full'
<1>1. Incomplete' = Incomplete /\ (\A h : DigestOf(h)' = DigestOf(h))
  BY DEF Incomplete, DigestOf
<1>2. Desired # 0 /\ \A h \in Incomplete : h = g
  BY Ground DEF Full
<1>3. FilesFit'
  BY <1>1, <1>2 DEF Full, StoreFit, FilesFit
<1>4. IntentFounded' /\ ClaimsFree' /\ RawKept'
  BY <1>1 DEF Full, StoreFit, IntentFounded, ClaimsFree, RawKept
<1>5. Kept(generations, generations') /\ Guarded(p)
  BY DEF Kept, Guarded
<1> QED
  BY <1>3, <1>4, <1>5, Together, Ground DEF Full, StoreFit

\* A reconciliation goes on to position c with the content x.
LEMMA ReconcilesOn ==
  ASSUME Full, NEW p \in Procs, actor[p].pc \in Reconciling, NEW c \in Reconciling \ {"reconcile"},
         NEW x, NEW g, NEW parent, NEW target,
         g = actor[p].seen.intent, parent = DigestOf(Desired), target = DigestOf(g),
         lock' = p, (Step(p, c) /\ x = actor[p].content) \/ Found(p, x, c),
         UNCHANGED generations, Desired' = Desired,
         g \in Incomplete \/ c = "rec_settle",
         g \in Incomplete => ReconciliationFits(c, x, parent, target)'
  PROVE  ProcFit(p)' /\ \A q \in Procs \ {p} : actor'[q] = actor[q]
<1>1. /\ actor \in [Actors -> Activity] /\ p \in Actors /\ Procs \subseteq Actors /\ ProcFit(p)
  BY ActorGround, Ground DEF Full
<1>2. /\ actor'[p].pc = c /\ actor'[p].content = x /\ actor'[p].job = actor[p].job
      /\ actor'[p].seen = actor[p].seen
      /\ \A q \in Procs \ {p} : actor'[q] = actor[q]
  BY <1>1 DEF Found, Step, Activity
<1>3. HoldsLock(p)' /\ JobFits(p)' /\ RawReads(p)' /\ Replaces(actor[p])'
  BY <1>1, <1>2
  DEF ProcFit, HoldsLock, JobFits, RawReads, Replaces, Reading, Reconciling, Pruning,
      Replacing, Observing
<1>4. /\ generations'[actor'[p].seen.intent].parent = actor'[p].seen.desired
      /\ Incomplete' = Incomplete /\ actor'[p].seen.intent = g
      /\ DigestOf(Desired)' = parent /\ DigestOf(actor[p].seen.intent)' = target
  BY <1>1, <1>2 DEF ProcFit, Reconciles, DigestOf, Incomplete
<1>5. Reconciles(actor[p])'
  BY <1>2, <1>4 DEF Reconciles, ReconciliationFits
<1> QED
  BY <1>2, <1>3, <1>5 DEF ProcFit

\* What a reconciliation reads under the lock it has just taken.
LEMMA ReconcileReadFits ==
  ASSUME Full, IInv', NEW p \in Procs, ReconcileReplacement(p)
  PROVE  Full'
<1>0. PICK g, target, parent : /\ g = actor[p].seen.intent /\ target = DigestOf(g)
                               /\ parent = DigestOf(Desired)
  OBVIOUS
<1>1. /\ actor \in [Actors -> Activity] /\ p \in Actors /\ Procs \subseteq Actors
      /\ actor[p].pc = "reconcile" /\ ProcFit(p) /\ Stands(actor[p], generations, Desired)
  BY ActorGround, Ground DEF Full, ReconcileReplacement, At
<1>2. actor[p].content = Absent /\ actor[p].job # "settled"
  BY <1>1 DEF ProcFit, RawReads, JobFits, Reading, Reconciling, Pruning, Observing
<1>3. /\ UNCHANGED <<generations, claims, live, stage, edits, rawFiles>> /\ Desired' = Desired
      /\ Incomplete' = Incomplete
  BY DEF ReconcileReplacement, storeVars, fileVars, Desired, Incomplete
<1>4. CASE Busy /\ Rest(p)
  BY <1>1, <1>2, <1>3, <1>4, AfterFits, CalmStep DEF Busy
<1>5. ASSUME NEW c \in {"rec_settle", "rec_remove", "rec_swap"}, NEW x,
             Acquire(p), Found(p, x, c),
             g \in Incomplete \/ c = "rec_settle",
             g \in Incomplete => ReconciliationFits(c, x, parent, target)
      PROVE  Full'
  <2>1. g \in Incomplete => ReconciliationFits(c, x, parent, target)'
    BY <1>3, <1>5 DEF ReconciliationFits
  <2>2. ProcFit(p)' /\ \A q \in Procs \ {p} : actor'[q] = actor[q]
    BY <1>0, <1>1, <1>3, <1>5, <2>1, ReconcilesOn DEF Acquire, Reconciling
  <2> QED
    BY <1>3, <1>5, <2>2, CalmStep DEF Acquire
<1>6. g \in DOMAIN generations /\ actor[p].seen.desired = generations[g].parent /\ Desired # 0
  BY <1>0, <1>1 DEF Stands, ProcFit, Reconciles, Reconciling, Unfounded
<1>7. parent \in Digests /\ target \in Digests /\ Absent \notin Digests
  BY <1>0, <1>6, Ground DEF Full
<1>8. /\ TargetOf(p) = target
      /\ g \in Incomplete => ParentOf(p) = parent
  BY <1>0, <1>6 DEF TargetOf, ParentOf, Full, StoreFit, IntentFounded
<1>9. /\ live # Absent
      /\ g \in Incomplete => Exchanged(g)
      /\ Staged(g) # Absent => g \in Incomplete /\ Staged(g) = stage.content
      /\ g \in Incomplete /\ Staged(g) = Absent => stage.content = Absent
  BY <1>6, Ground DEF Full, StoreFit, FilesFit, Exchanged, Staged
<1>10. CASE Acquire(p) /\ Found(p, Absent, "rec_settle")
  BY <1>5, <1>10 DEF ReconciliationFits
<1>11. CASE Acquire(p) /\ Staged(g) = Absent /\ Found(p, live, "rec_settle")
  BY <1>5, <1>9, <1>11 DEF ReconciliationFits
<1>12. CASE /\ Acquire(p) /\ Staged(g) = ParentOf(p) /\ Staged(g) # Absent /\ live = target
            /\ Found(p, live, "rec_remove")
  <2>1. g \in Incomplete /\ stage.content = parent
    BY <1>8, <1>9, <1>12
  <2> QED
    BY <1>5, <1>9, <1>12, <2>1 DEF ReconciliationFits
<1>13. CASE /\ Acquire(p) /\ Staged(g) \notin {Absent, ParentOf(p)} /\ live = target
            /\ Found(p, live, "rec_swap")
  <2>1. g \in Incomplete /\ stage.content \notin {Absent, parent}
    BY <1>8, <1>9, <1>13
  <2>2. stage.content \in edits
    BY <1>0, <1>7, <1>9, <1>13, <2>1 DEF Exchanged
  <2> QED
    BY <1>5, <1>13, <2>1, <2>2 DEF ReconciliationFits
<1>14. CASE /\ Acquire(p) /\ Staged(g) = target /\ live \notin {target} \cup Foreign
            /\ Found(p, live, "rec_remove")
  <2>1. g \in Incomplete /\ stage.content = target
    BY <1>7, <1>9, <1>14
  <2>2. live \in {parent} \cup edits
    BY <1>0, <1>7, <1>9, <1>14, <2>1 DEF Exchanged
  <2> QED
    BY <1>5, <1>9, <1>14, <2>1, <2>2 DEF ReconciliationFits
<1>15. CASE Acquire(p) /\ Found(p, live, "rec_remove") /\ Staged(g) = ParentOf(p) /\ Staged(g) = Absent
  <2>1. ParentOf(p) # Absent
    <3>1. generations[g].parent \in DOMAIN generations
      BY <1>0, <1>1, <1>6 DEF Stands, Reconciling
    <3> QED
      BY <1>0, <3>1, <1>6, Ground DEF ParentOf, Full
  <2> QED
    BY <1>15, <2>1
<1> QED
  <2>1. Staged(actor[p].seen.intent) = Staged(g)
    BY <1>0
  <2> QED
    BY <1>4, <1>8, <1>10, <1>11, <1>12, <1>13, <1>14, <1>15, <2>1 DEF ReconcileReplacement

\* An edit that the exchange had captured is put back, and read once more; the swap file goes.
LEMMA RestoreFits ==
  ASSUME Full, IInv', NEW p \in Procs, RestoreCaptured(p) \/ RereadLive(p) \/ RemoveStage(p)
  PROVE  Full'
<1>0. PICK g, target, parent : /\ g = actor[p].seen.intent /\ target = DigestOf(g)
                               /\ parent = DigestOf(Desired)
  OBVIOUS
<1>1. /\ actor[p].pc \in {"rec_swap", "rec_reread", "rec_remove"} /\ actor[p].pc \in Reconciling
      /\ p \in Actors /\ ProcFit(p)
  BY Ground DEF Full, RestoreCaptured, RereadLive, RemoveStage, At, Reconciling
<1>2. lock = p /\ lock' = p /\ g \in Incomplete
  BY <1>0, <1>1 DEF ProcFit, HoldsLock, Reconciles, Held, Reconciling, RestoreCaptured, RereadLive,
                    RemoveStage, fileVars
<1>3. /\ UNCHANGED <<generations, claims, edits, rawFiles>> /\ Desired' = Desired
      /\ DigestOf(Desired)' = parent /\ DigestOf(g)' = target
  BY <1>0 DEF RestoreCaptured, RereadLive, RemoveStage, storeVars, fileVars, Desired, DigestOf
<1>4. /\ g \in DOMAIN generations /\ Desired \in DOMAIN generations /\ Desired # 0
      /\ parent \in Digests /\ target \in Digests /\ Absent \notin Digests \cup edits
  BY <1>0, <1>2, Ground DEF Full, StoreFit, FilesFit
<1>5. ReconciliationFits(actor[p].pc, actor[p].content, parent, target)
  BY <1>0, <1>1, <1>2 DEF ProcFit, Reconciles, Reconciling
<1>6. live # Absent /\ Exchanged(g)
  BY <1>2 DEF Full, StoreFit, FilesFit
<1>7. ASSUME NEW c \in {"rec_settle", "rec_remove", "rec_reread"}, NEW x,
             (Step(p, c) /\ x = actor[p].content) \/ Found(p, x, c),
             ReconciliationFits(c, x, parent, target)',
             \/ UNCHANGED <<live, stage>>
             \/ live' # Absent /\ Exchanged(g)'
      PROVE  Full'
  <2>1. ProcFit(p)' /\ \A q \in Procs \ {p} : actor'[q] = actor[q]
    BY <1>0, <1>1, <1>2, <1>3, <1>7, ReconcilesOn DEF Reconciling
  <2>2. CASE UNCHANGED <<live, stage>>
    BY <1>2, <1>3, <2>1, <2>2, CalmStep
  <2>3. CASE live' # Absent /\ Exchanged(g)'
    BY <1>2, <1>3, <2>1, <2>3, ExchangeStep
  <2> QED
    BY <1>7, <2>2, <2>3
<1>8. CASE RestoreCaptured(p)
  <2>1. stage.content \in edits /\ live \in {target} \cup edits
    BY <1>5, <1>8 DEF RestoreCaptured, At, ReconciliationFits
  <2>2. CASE Exchange(stage.gen)
    <3>1. /\ live' \in edits /\ stage'.content \in {target} \cup edits /\ stage'.gen = g
          /\ live' # Absent
      BY <1>4, <1>6, <2>1, <2>2 DEF Exchange, Exchanged
    <3>2. Exchanged(g)'
      BY <1>3, <2>1, <3>1 DEF Exchanged, ReconciliationFits
    <3>3. ReconciliationFits("rec_settle", Absent, parent, target)'
      BY DEF ReconciliationFits
    <3>4. CASE Step(p, "rec_reread")
      <4>1. PICK x : x = actor[p].content
        OBVIOUS
      <4>2. ReconciliationFits("rec_reread", x, parent, target)'
        BY <1>3, <2>1, <3>1 DEF ReconciliationFits
      <4> QED
        BY <1>7, <2>1, <3>1, <3>2, <3>4, <4>1, <4>2
    <3> QED
      BY <1>7, <1>8, <2>1, <3>1, <3>2, <3>3, <3>4 DEF RestoreCaptured
  <2>3. CASE UNCHANGED <<live, stage>> /\ Found(p, Absent, "rec_settle")
    BY <1>7, <2>3 DEF ReconciliationFits
  <2> QED
    BY <1>7, <1>8, <2>2, <2>3 DEF RestoreCaptured
<1>9. CASE RereadLive(p)
  <2>1. stage.content \in {target} \cup edits /\ live \in edits /\ UNCHANGED <<live, stage>>
    BY <1>5, <1>9 DEF RereadLive, At, ReconciliationFits, fileVars
  <2>2. PICK x : x = live
    OBVIOUS
  <2>3. ReconciliationFits("rec_remove", x, parent, target)'
    BY <1>3, <2>1, <2>2 DEF ReconciliationFits
  <2> QED
    BY <1>7, <1>9, <2>1, <2>2, <2>3 DEF RereadLive, ReconciliationFits
<1>10. CASE RemoveStage(p)
  <2>1. /\ actor[p].content \in {parent, target} \cup edits /\ live \in {actor[p].content} \cup edits
    BY <1>5, <1>10 DEF RemoveStage, At, ReconciliationFits
  <2>2. live' = live /\ stage' \in {stage, NoStage}
    BY <1>10 DEF RemoveStage
  <2>3. Exchanged(g)' /\ live' # Absent
    BY <1>0, <1>3, <1>4, <1>6, <2>1, <2>2 DEF Exchanged, NoStage
  <2>4. CASE stage' = NoStage /\ Step(p, "rec_settle")
    <3>1. PICK x : x = actor[p].content
      OBVIOUS
    <3>2. ReconciliationFits("rec_settle", x, parent, target)'
      BY <1>3, <2>1, <2>2, <2>4, <3>1 DEF ReconciliationFits, NoStage
    <3> QED
      BY <1>7, <2>3, <2>4, <3>1, <3>2
  <2>5. CASE Found(p, Absent, "rec_settle")
    BY <1>7, <2>3, <2>5 DEF ReconciliationFits
  <2> QED
    BY <1>10, <2>4, <2>5 DEF RemoveStage
<1> QED
  BY <1>8, <1>9, <1>10

-----------------------------------------------------------------------------
(* Settlement. *)

\* An intent is settled as committed only with its target live, or an edit made since, and as
\* failed only with what was desired live.
LEMMA SettleFits ==
  ASSUME Full, StoreStep, NEW g \in DOMAIN generations,
         NEW outcome \in {"committed", "failed", "ambiguous"},
         MaySettle(g, outcome), Settle(g, outcome), UNCHANGED <<rawFiles, live, stage, edits>>,
         g \in Incomplete /\ outcome = "committed" =>
           stage.content = Absent /\ live \in {DigestOf(g)} \cup edits,
         g \in Incomplete /\ outcome = "failed" =>
           stage.content = Absent /\ live \in {DigestOf(Desired)} \cup edits
  PROVE  StoreFit'
<1>1. claims' = claims
  BY DEF Settle
<1>2. CASE Status(g) = outcome
  <2>1. UNCHANGED <<generations, authority>>
    BY <1>2 DEF Settle
  <2> QED
    BY <1>1, <2>1, StoreStill DEF Desired
<1>3. CASE Status(g) # outcome
  <2>1. generations[g].life = "accepted" /\ generations[g].parent = Desired /\ g \in Incomplete
    BY <1>3 DEF MaySettle, Status, Incomplete, Unresolved
  <2>2. /\ Desired \in DOMAIN generations /\ Desired # 0 /\ Desired # g
        /\ \A h \in Incomplete : h = g
        /\ \A h \in DOMAIN generations : DigestOf(h) # Absent
    BY <2>1, Ground DEF Full
  <2>3. /\ IntentFounded /\ ClaimsFree /\ RawKept /\ FilesFit
    BY DEF Full, StoreFit
  <2>4. \A h \in DOMAIN generations : generations[h].life \in Unresolved <=> h = g
    BY <2>1, <2>2 DEF Incomplete, Unresolved
  <2>10. \A h \in DOMAIN generations : generations[h] \in Generation
    BY DEF Full, IInv, StoreInv, StoreTyped
  <2>11. outcome = "committed" =>
           /\ generations' = [generations EXCEPT ![g].life = "pending_restart",
                                                ![Desired].life = "superseded"]
           /\ authority' = [desired |-> g, version |-> authority.version + 1, drifted |-> FALSE]
    BY <1>3 DEF Settle
  <2>12. outcome # "committed" =>
           generations' = [generations EXCEPT ![g].life = outcome] /\ authority' = authority
    BY <1>3 DEF Settle
  <2>13. outcome = "committed" =>
           /\ DOMAIN generations' = DOMAIN generations
           /\ generations'[g] = [generations[g] EXCEPT !.life = "pending_restart"]
           /\ generations'[Desired] = [generations[Desired] EXCEPT !.life = "superseded"]
           /\ \A h \in DOMAIN generations \ {g, Desired} : generations'[h] = generations[h]
    BY <2>2, <2>10, <2>11
  <2>14. outcome # "committed" =>
           /\ DOMAIN generations' = DOMAIN generations
           /\ generations'[g] = [generations[g] EXCEPT !.life = outcome]
           /\ \A h \in DOMAIN generations \ {g} : generations'[h] = generations[h]
    BY <2>10, <2>12
  <2>5. \A h \in DOMAIN generations :
          /\ DigestOf(h)' = DigestOf(h)
          /\ generations'[h].parent = generations[h].parent /\ generations'[h].raw = generations[h].raw
    BY <2>2, <2>10, <2>13, <2>14 DEF DigestOf, Generation
  <2>6. DOMAIN generations' = DOMAIN generations
    BY <2>13, <2>14
  <2>8. CASE outcome = "committed"
    <3>1. Desired' = g /\ generations'[g].life = "pending_restart"
      BY <2>2, <2>8, <2>10, <2>11, <2>13 DEF Desired, Generation
    <3>2. Incomplete' = {}
      <4>1. \A h \in DOMAIN generations : generations'[h].life \notin Unresolved
        BY <2>2, <2>4, <2>8, <2>10, <2>13 DEF Unresolved, Generation
      <4> QED
        BY <2>6, <4>1 DEF Incomplete
    <3>3. DigestOf(Desired)' = DigestOf(g)
      BY <2>1, <2>5, <3>1 DEF Incomplete, DigestOf
    <3>4. IntentFounded'
      BY <2>1, <2>3, <2>5, <2>6, <3>1, <3>2 DEF IntentFounded, Incomplete
    <3>5. ClaimsFree' /\ RawKept'
      BY <1>1, <2>1, <2>3, <3>1, <3>2, <3>3, Ground DEF Full, ClaimsFree, RawKept
    <3>6. FilesFit'
      <4>1. stage'.content = Absent /\ live' \in {DigestOf(Desired)'} \cup edits'
        BY <2>1, <2>8, <3>3
      <4>2. Desired' # 0 /\ live' # Absent /\ Absent \notin edits'
        BY <2>1, <2>3, <3>1, Ground DEF Full, FilesFit
      <4> QED
        BY <3>2, <4>1, <4>2 DEF FilesFit
    <3> QED
      BY <3>4, <3>5, <3>6 DEF StoreFit
  <2>9. CASE outcome \in {"failed", "ambiguous"}
    <3>1. /\ generations' = [generations EXCEPT ![g].life = outcome] /\ authority' = authority
          /\ Desired' = Desired
      BY <2>9, <2>12 DEF Desired
    <3>2. generations'[g].life = outcome /\ \A h \in DOMAIN generations \ {g} : generations'[h] = generations[h]
      BY <2>9, <2>10, <2>14 DEF Generation
    <3>3. Incomplete' = IF outcome = "failed" THEN {} ELSE {g}
      BY <2>4, <2>6, <2>9, <3>2 DEF Incomplete, Unresolved
    <3>4. DigestOf(Desired)' = DigestOf(Desired) /\ Incomplete' \subseteq {g}
      BY <2>2, <2>5, <3>1, <3>3 DEF DigestOf
    <3>5. IntentFounded'
      BY <2>1, <2>2, <2>3, <2>5, <2>6, <3>1, <3>4 DEF IntentFounded
    <3>6. ClaimsFree'
      BY <1>1, <2>1, <2>3, <2>5, <3>1, <3>4 DEF ClaimsFree
    <3>7. RawKept'
      <4>1. DigestOf(Desired) \in rawFiles /\ {DigestOf(g), DigestOf(Desired)} \subseteq rawFiles
        BY <2>1, <2>2, <2>3 DEF RawKept
      <4>2. DigestOf(generations[g].parent)' = DigestOf(Desired)
        BY <2>1, <2>2, <2>5, <3>1 DEF DigestOf
      <4>3. \A h \in Incomplete' : DigestOf(h)' = DigestOf(g) /\ DigestOf(generations[h].parent)' = DigestOf(Desired)
        BY <2>5, <3>4, <4>2
      <4> QED
        BY <3>1, <3>4, <4>1, <4>3 DEF RawKept
    <3>8. FilesFit'
      <4>1. \A h \in Incomplete' : Exchanged(h)'
        BY <2>1, <2>3, <2>5, <3>4 DEF FilesFit, Exchanged
      <4> QED
        BY <2>1, <2>2, <2>3, <2>9, <3>1, <3>3, <3>4, <4>1 DEF FilesFit
    <3> QED
      BY <3>5, <3>6, <3>7, <3>8 DEF StoreFit
  <2> QED
    BY <2>8, <2>9
<1> QED
  BY <1>2, <1>3

\* A process that has just settled goes on to prune, under the lock.
LEMMA PruneFits ==
  ASSUME Full, NEW p \in Procs, NEW job \in {"load", "loaded", "apply", "replace", "settled"},
         Prune(p, job), lock' = p
  PROVE  ProcFit(p)' /\ \A q \in Procs \ {p} : actor'[q] = actor[q]
<1>1. actor \in [Actors -> Activity] /\ p \in Actors /\ Procs \subseteq Actors
  BY ActorGround, Ground DEF Full
<1>2. /\ actor'[p].pc = "prune" /\ actor'[p].job = job /\ actor'[p].content = Absent
      /\ \A q \in Procs \ {p} : actor'[q] = actor[q]
  BY <1>1 DEF Prune, Activity
<1> QED
  BY <1>2
  DEF ProcFit, HoldsLock, JobFits, RawReads, Replaces, Reconciles, Held, Reading, Pruning,
      Reconciling, Replacing, Observing

\* The settlement of a reconciliation.
LEMMA SettleReconciledFits ==
  ASSUME Full, IInv', StoreStep, NEW p \in Procs, SettleReconciled(p)
  PROVE  Full'
<1>0. PICK g : g = actor[p].seen.intent
  OBVIOUS
<1>1. /\ actor \in [Actors -> Activity] /\ p \in Actors /\ Procs \subseteq Actors
      /\ actor[p].pc = "rec_settle" /\ ProcFit(p) /\ Stands(actor[p], generations, Desired)
  BY ActorGround, Ground DEF Full, SettleReconciled, At
<1>2. lock = p /\ g \in DOMAIN generations /\ actor[p].job # "settled" /\ actor[p].job # "none"
      /\ actor[p].job \in {"load", "loaded", "apply", "replace"}
  BY <1>0, <1>1 DEF ProcFit, HoldsLock, JobFits, Held, Reconciling, Pruning, Observing, Stands
<1>3. UNCHANGED <<rawFiles, live, stage, edits>>
  BY DEF SettleReconciled, fileVars
<1>4. Kept(generations, generations')
  BY DEF StoreStep
<1>5. ASSUME StoreFit', lock' \in {Absent, p}, ProcFit(p)', \A q \in Procs \ {p} : actor'[q] = actor[q]
      PROVE  Full'
  BY <1>1, <1>2, <1>4, <1>5, Together DEF Guarded
<1>6. CASE MaySettle(g, Verdict(p))
  <2>1. PICK o : o = Verdict(p)
    OBVIOUS
  <2>2. o \in {"committed", "failed", "ambiguous"} /\ Settle(g, o) /\ MaySettle(g, o)
    BY <1>0, <1>6, <2>1 DEF Verdict, SettleReconciled
  <2>3. /\ g \in Incomplete /\ o = "committed" => stage.content = Absent /\ live \in {DigestOf(g)} \cup edits
        /\ g \in Incomplete /\ o = "failed" => stage.content = Absent /\ live \in {DigestOf(Desired)} \cup edits
    <3>1. CASE g \in Incomplete
      <4>1. ReconciliationFits("rec_settle", actor[p].content, DigestOf(Desired), DigestOf(g))
        BY <1>0, <1>1, <3>1 DEF ProcFit, Reconciles, Reconciling
      <4>2. actor[p].content # Absent =>
              stage.content = Absent /\ live \in {actor[p].content} \cup edits
        BY <4>1 DEF ReconciliationFits
      <4>3. o = "committed" => actor[p].content = DigestOf(g)
        BY <1>0, <2>1 DEF Verdict, TargetOf
      <4>4. o = "failed" => actor[p].content = DigestOf(Desired)
        <5>1. generations[g].parent = Desired
          BY <3>1 DEF Full, StoreFit, IntentFounded
        <5> QED
          BY <1>0, <2>1, <5>1 DEF Verdict, ParentOf
      <4>5. DigestOf(g) # Absent /\ DigestOf(Desired) # Absent
        BY <3>1, Ground DEF Full
      <4> QED
        BY <4>2, <4>3, <4>4, <4>5
    <3> QED
      BY <3>1
  <2>4. StoreFit'
    BY <1>2, <1>3, <2>2, <2>3, SettleFits
  <2>5. CASE o = "ambiguous"
    <3>1. lock' = Absent /\ AfterAmbiguous(p)
      BY <1>0, <1>6, <2>1, <2>5 DEF SettleReconciled
    <3>2. /\ actor'[p].pc \in {"compose", "idle"} /\ actor'[p].content = Absent
          /\ actor'[p].pc = "compose" => actor'[p].job = "load"
          /\ actor'[p].job # "settled"
          /\ \A q \in Procs \ {p} : actor'[q] = actor[q]
      <4>1. \/ actor' = [actor EXCEPT ![p] = [Resting EXCEPT !.pc = "compose", !.job = "load"]]
            \/ actor' = [actor EXCEPT ![p] = Resting]
        BY <3>1 DEF AfterAmbiguous, Rest
      <4>2. \/ actor'[p] = [Resting EXCEPT !.pc = "compose", !.job = "load"]
            \/ actor'[p] = Resting
        BY <1>1, <4>1
      <4>3. \A q \in Procs \ {p} : actor'[q] = actor[q]
        BY <1>1, <4>1
      <4>4. CASE actor'[p] = [Resting EXCEPT !.pc = "compose", !.job = "load"]
        BY <4>3, <4>4 DEF Resting
      <4>5. CASE actor'[p] = Resting
        BY <4>3, <4>5 DEF Resting
      <4> QED
        BY <4>2, <4>4, <4>5
    <3>3. ProcFit(p)'
      BY <3>2, LooseFits DEF JobFits, Held, Pruning, Reconciling, Replacing, Observing
    <3> QED
      BY <1>5, <2>4, <3>1, <3>2, <3>3
  <2>6. CASE o # "ambiguous"
    <3>1. Prune(p, actor[p].job) /\ lock' = lock
      BY <1>0, <1>6, <2>1, <2>6 DEF SettleReconciled
    <3> QED
      BY <1>2, <1>5, <2>4, <3>1, PruneFits
  <2> QED
    BY <2>5, <2>6
<1>7. CASE ~MaySettle(g, Verdict(p))
  <2>1. Leave(p) /\ UNCHANGED storeVars
    BY <1>0, <1>7 DEF SettleReconciled
  <2>2. /\ actor'[p] = Resting /\ \A q \in Procs \ {p} : actor'[q] = actor[q]
    BY <1>1, <2>1 DEF Leave, Rest
  <2> QED
    BY <1>2, <1>3, <2>1, <2>2, RestFits, CalmStep DEF Leave, storeVars, Desired
<1> QED
  BY <1>6, <1>7

\* A replacement under way is the one of the unsettled intent.
LEMMA OwnIntent ==
  ASSUME Full, NEW p \in Procs, actor[p].pc \in Replacing
  PROVE  /\ Own(p) \in Incomplete /\ DigestOf(Own(p)) = actor[p].target
         /\ generations[Own(p)].parent = actor[p].parent /\ actor[p].parent = Desired
         /\ ReplacementFits(actor[p].pc, DigestOf(Desired), DigestOf(Own(p)))
<1>1. PICK g \in Incomplete : /\ generations[g].parent = actor[p].parent /\ DigestOf(g) = actor[p].target
                              /\ ReplacementFits(actor[p].pc, DigestOf(Desired), DigestOf(g))
  BY DEF Full, ProcFit, Replaces
<1>2. g \in Known(actor[p].parent, actor[p].target)
  BY <1>1, Ground DEF Full, Known
<1>3. \A h \in Known(actor[p].parent, actor[p].target) : h = g
  BY <1>1, <1>2 DEF Full, StoreFit, IntentFounded, Known
<1>4. Own(p) = g
  BY <1>2, <1>3 DEF Own
<1> QED
  BY <1>1, <1>4 DEF Full, StoreFit, IntentFounded

\* The settlement of an apply.
LEMMA SettleApplyFits ==
  ASSUME Full, IInv', StoreStep, NEW p \in Procs, SettleApply(p)
  PROVE  Full'
<1>0. PICK g : g = Own(p)
  OBVIOUS
<1>1. /\ actor \in [Actors -> Activity] /\ p \in Actors /\ Procs \subseteq Actors
      /\ actor[p].pc = "settle" /\ ProcFit(p)
  BY ActorGround, Ground DEF Full, SettleApply, At
<1>2. lock = p /\ g \in Incomplete /\ g \in DOMAIN generations
      /\ stage.content = Absent /\ live \in {DigestOf(g)} \cup edits
  BY <1>0, <1>1, OwnIntent, Ground DEF Full, ProcFit, HoldsLock, Held, Replacing, ReplacementFits
<1>3. UNCHANGED <<rawFiles, live, stage, edits>>
  BY DEF SettleApply, fileVars
<1>4. CASE MaySettle(g, "committed")
  <2>1. /\ Settle(g, "committed") /\ lock' = lock
        /\ actor' = [actor EXCEPT ![p] = [Resting EXCEPT !.pc = "look", !.job = "settled"]]
    BY <1>0, <1>4 DEF SettleApply
  <2>2. StoreFit'
    BY <1>2, <1>3, <1>4, <2>1, SettleFits
  <2>3. /\ actor'[p].pc = "look" /\ actor'[p].job = "settled" /\ actor'[p].content = Absent
        /\ \A q \in Procs \ {p} : actor'[q] = actor[q]
    BY <1>1, <2>1 DEF Resting
  <2>4. ProcFit(p)'
    BY <1>2, <2>1, <2>3
    DEF ProcFit, HoldsLock, JobFits, RawReads, Replaces, Reconciles, Held, Reading, Pruning,
        Reconciling, Replacing, Observing
  <2> QED
    BY <1>1, <1>2, <2>1, <2>2, <2>3, <2>4, Together DEF Guarded, StoreStep
<1>5. CASE ~MaySettle(g, "committed")
  <2>1. Leave(p) /\ UNCHANGED storeVars
    BY <1>0, <1>5 DEF SettleApply
  <2>2. /\ actor'[p] = Resting /\ \A q \in Procs \ {p} : actor'[q] = actor[q]
    BY <1>1, <2>1 DEF Leave, Rest
  <2> QED
    BY <1>2, <1>3, <2>1, <2>2, RestFits, CalmStep DEF Leave, storeVars, Desired
<1> QED
  BY <1>4, <1>5

-----------------------------------------------------------------------------
(* The replacement of the live file. *)

\* A replacement goes on to position c.
LEMMA ReplacesOn ==
  ASSUME Full, NEW p \in Procs, actor[p].pc \in Replacing, NEW c \in Replacing, Step(p, c),
         NEW g, NEW parent, NEW target,
         g = Own(p), parent = DigestOf(Desired), target = DigestOf(g),
         lock' = p, UNCHANGED generations, Desired' = Desired, ReplacementFits(c, parent, target)'
  PROVE  ProcFit(p)' /\ \A q \in Procs \ {p} : actor'[q] = actor[q]
<1>1. /\ actor \in [Actors -> Activity] /\ p \in Actors /\ Procs \subseteq Actors /\ ProcFit(p)
  BY ActorGround, Ground DEF Full
<1>2. /\ actor'[p].pc = c /\ actor'[p].content = actor[p].content /\ actor'[p].job = actor[p].job
      /\ actor'[p].parent = actor[p].parent /\ actor'[p].target = actor[p].target
      /\ \A q \in Procs \ {p} : actor'[q] = actor[q]
  BY <1>1 DEF Step, Activity
<1>3. HoldsLock(p)' /\ JobFits(p)' /\ RawReads(p)' /\ Reconciles(actor[p])'
  BY <1>1, <1>2
  DEF ProcFit, HoldsLock, JobFits, RawReads, Reconciles, ReconciliationFits, Reading, Reconciling,
      Pruning, Replacing, Observing
<1>4. /\ g \in Incomplete /\ generations[g].parent = actor[p].parent /\ target = actor[p].target
  BY OwnIntent
<1>5. /\ Incomplete' = Incomplete /\ generations'[g].parent = actor'[p].parent
      /\ DigestOf(g)' = actor'[p].target
      /\ DigestOf(Desired)' = parent /\ DigestOf(g)' = target
  BY <1>2, <1>4 DEF DigestOf, Incomplete
<1>6. Replaces(actor[p])'
  BY <1>2, <1>4, <1>5 DEF Replaces, ReplacementFits
<1> QED
  BY <1>2, <1>3, <1>6 DEF ProcFit

\* A replacement that failed is reconciled, from the start and without the lock.
LEMMA FailFits ==
  ASSUME Full, NEW p \in Procs, actor[p].pc \in Replacing, Fail(p)
  PROVE  ProcFit(p)' /\ \A q \in Procs \ {p} : actor'[q] = actor[q]
<1>1. /\ actor \in [Actors -> Activity] /\ p \in Actors /\ Procs \subseteq Actors /\ ProcFit(p)
  BY ActorGround, Ground DEF Full
<1>2. /\ actor'[p].pc = "read" /\ actor'[p].job = "replace" /\ actor'[p].content = actor[p].content
      /\ \A q \in Procs \ {p} : actor'[q] = actor[q]
  BY <1>1 DEF Fail, Activity
<1>3. actor[p].content = Absent
  BY <1>1 DEF ProcFit, RawReads, Reading, Reconciling, Pruning, Replacing
<1> QED
  BY <1>2, <1>3, LooseFits DEF JobFits, Held, Pruning, Reconciling, Replacing, Observing

\* The target is staged, exchanged with the live file, and what was captured is checked.
LEMMA ReplaceFits ==
  ASSUME Full, IInv', NEW p \in Procs,
         StageTarget(p) \/ SwapLive(p) \/ CheckCaptured(p) \/ VerifyLive(p)
  PROVE  Full'
<1>0. PICK g, target, parent : g = Own(p) /\ target = DigestOf(g) /\ parent = DigestOf(Desired)
  OBVIOUS
<1>1. actor[p].pc \in Replacing /\ p \in Actors /\ ProcFit(p)
  BY Ground DEF Full, StageTarget, SwapLive, CheckCaptured, VerifyLive, At, Replacing
<1>2. /\ g \in Incomplete /\ actor[p].target = target /\ DigestOf(actor[p].parent) = parent
      /\ ReplacementFits(actor[p].pc, parent, target)
  BY <1>0, <1>1, OwnIntent
<1>3. /\ UNCHANGED <<generations, claims, edits, rawFiles>> /\ Desired' = Desired
      /\ DigestOf(Desired)' = parent /\ DigestOf(g)' = target
  BY <1>0 DEF StageTarget, SwapLive, CheckCaptured, VerifyLive, storeVars, fileVars, Desired, DigestOf
<1>4. parent \in Digests /\ target \in Digests /\ Absent \notin Digests \cup edits
  BY <1>0, <1>2, Ground DEF Full, StoreFit, FilesFit
<1>5. live # Absent /\ Exchanged(g)
  BY <1>2 DEF Full, StoreFit, FilesFit
<1>6. lock = p
  BY <1>1 DEF ProcFit, HoldsLock, Held
<1>7. ASSUME \/ Fail(p)
             \/ \E c \in Replacing : Step(p, c) /\ lock' = p /\ ReplacementFits(c, parent, target)',
             \/ UNCHANGED <<live, stage>>
             \/ live' # Absent /\ Exchanged(g)'
      PROVE  Full'
  <2>1. ProcFit(p)' /\ \A q \in Procs \ {p} : actor'[q] = actor[q]
    <3>1. CASE Fail(p)
      BY <1>1, <3>1, FailFits
    <3>2. ASSUME NEW c \in Replacing, Step(p, c), lock' = p, ReplacementFits(c, parent, target)'
          PROVE  ProcFit(p)' /\ \A q \in Procs \ {p} : actor'[q] = actor[q]
      BY <1>0, <1>1, <1>3, <3>2, ReplacesOn
    <3> QED
      BY <1>7, <3>1, <3>2
  <2>2. lock' \in {Absent, p}
    BY <1>7 DEF Fail
  <2>3. CASE UNCHANGED <<live, stage>>
    BY <1>3, <1>6, <2>1, <2>2, <2>3, CalmStep
  <2>4. CASE live' # Absent /\ Exchanged(g)'
    BY <1>2, <1>3, <1>6, <2>1, <2>2, <2>4, ExchangeStep
  <2> QED
    BY <1>7, <2>3, <2>4
<1>8. CASE StageTarget(p)
  <2>1. stage.content = Absent /\ live \in {parent} \cup edits /\ live' = live
    BY <1>2, <1>8 DEF StageTarget, At, ReplacementFits
  <2>2. CASE /\ Step(p, "swap") /\ stage' = [gen |-> Own(p), content |-> actor[p].target]
             /\ lock' = lock
    <3>1. stage'.gen = g /\ stage'.content = target
      BY <1>0, <1>2, <2>2
    <3>2. Exchanged(g)' /\ ReplacementFits("swap", parent, target)'
      BY <1>3, <2>1, <3>1 DEF Exchanged, ReplacementFits
    <3> QED
      BY <1>4, <1>5, <1>6, <1>7, <2>1, <2>2, <3>2 DEF Replacing
  <2>3. CASE Fail(p) /\ UNCHANGED stage
    BY <1>7, <2>1, <2>3
  <2> QED
    BY <1>8, <2>2, <2>3 DEF StageTarget
<1>9. CASE SwapLive(p)
  <2>1. stage.content = target /\ live \in {parent} \cup edits
    BY <1>2, <1>9 DEF SwapLive, At, ReplacementFits
  <2>2. CASE Exchange(Own(p)) /\ Step(p, "captured") /\ lock' = lock
    <3>1. stage'.gen = g /\ stage'.content = live /\ live' = target
      BY <1>0, <2>1, <2>2 DEF Exchange
    <3>2. Exchanged(g)' /\ ReplacementFits("captured", parent, target)'
      BY <1>3, <1>5, <2>1, <3>1 DEF Exchanged, ReplacementFits
    <3>3. live' # Absent
      BY <1>4, <1>5, <2>1, <3>1
    <3> QED
      BY <1>6, <1>7, <2>2, <3>2, <3>3 DEF Replacing
  <2>3. CASE Fail(p) /\ live' = live /\ stage' \in {stage, NoStage}
    <3>1. Exchanged(g)'
      BY <1>3, <1>4, <1>5, <2>1, <2>3 DEF Exchanged, NoStage
    <3> QED
      BY <1>5, <1>7, <2>3, <3>1
  <2> QED
    BY <1>9, <2>2, <2>3 DEF SwapLive
<1>10. CASE CheckCaptured(p)
  <2>1. stage.content \in {parent} \cup edits /\ live \in {target} \cup edits
    BY <1>2, <1>10 DEF CheckCaptured, At, ReplacementFits
  <2>2. CASE stage.content = parent /\ live' = live /\ stage' \in {stage, NoStage}
    <3>1. live \in {target} \cup edits
      BY <2>1, <2>2
    <3>2. Exchanged(g)' /\ live' # Absent
      BY <1>3, <1>4, <1>5, <2>2, <3>1 DEF Exchanged, NoStage
    <3>3. CASE Fail(p)
      BY <1>7, <3>2, <3>3
    <3>4. CASE stage' = NoStage /\ Step(p, "verify") /\ lock' = lock
      <4>1. ReplacementFits("verify", parent, target)'
        BY <1>3, <2>2, <3>1, <3>4 DEF ReplacementFits, NoStage
      <4> QED
        BY <1>6, <1>7, <3>2, <3>4, <4>1 DEF Replacing
    <3> QED
      BY <1>2, <1>10, <2>2, <3>3, <3>4 DEF CheckCaptured
  <2>3. CASE stage.content # parent
    <3>1. stage.content \in edits /\ stage.content # Absent /\ live \in {target} \cup edits /\ stage.gen = g
      BY <1>4, <1>5, <2>1, <2>3 DEF Exchanged
    <3>2. CASE live' = stage.content /\ stage' = NoStage /\ Fail(p)
      <4>1. Exchanged(g)' /\ live' # Absent
        BY <1>3, <3>1, <3>2 DEF Exchanged, NoStage
      <4> QED
        BY <1>7, <3>2, <4>1
    <3>3. CASE Exchange(stage.gen) /\ Fail(p)
      <4>1. stage'.gen = g /\ stage'.content = live /\ live' \in edits /\ live' # Absent
        BY <3>1, <3>3 DEF Exchange
      <4>2. Exchanged(g)' /\ live' # Absent
        BY <1>3, <3>1, <4>1 DEF Exchanged
      <4> QED
        BY <1>7, <3>3, <4>2
    <3>4. CASE UNCHANGED <<live, stage>> /\ Fail(p)
      BY <1>7, <3>4
    <3> QED
      BY <1>2, <1>10, <2>3, <3>2, <3>3, <3>4 DEF CheckCaptured
  <2> QED
    BY <1>2, <1>10, <2>2, <2>3 DEF CheckCaptured
<1>11. CASE VerifyLive(p)
  <2>1. stage.content = Absent /\ live \in {target} \cup edits /\ UNCHANGED <<live, stage>>
    BY <1>2, <1>11 DEF VerifyLive, At, ReplacementFits, fileVars
  <2>2. ReplacementFits("settle", parent, target)'
    BY <1>3, <2>1 DEF ReplacementFits
  <2> QED
    BY <1>6, <1>7, <1>11, <2>1, <2>2 DEF VerifyLive, Replacing
<1> QED
  BY <1>8, <1>9, <1>10, <1>11

-----------------------------------------------------------------------------
(* An apply is accepted, and the baseline is adopted. *)

\* A step under the lock that leaves every raw file a generation still keeps.
LEMMA RawStep ==
  ASSUME Full, NEW p \in Procs, IInv', UNCHANGED <<generations, claims, live, stage, edits>>,
         Desired' = Desired, \A q \in Procs \ {p} : actor'[q] = actor[q],
         lock \in {Absent, p}, lock' \in {Absent, p}, rawFiles \cap Referenced \subseteq rawFiles',
         ProcFit(p)'
  PROVE  Full'
<1>1. StoreFit'
  BY StoreStill
<1>2. Kept(generations, generations') /\ Guarded(p)
  BY DEF Kept, Guarded
<1> QED
  BY <1>1, <1>2, Together, Ground DEF Full

\* The target of an apply is written to the raw directory, under the lock.
LEMMA RetainTargetFits ==
  ASSUME Full, IInv', NEW p \in Procs, RetainTarget(p)
  PROVE  Full'
<1>1. /\ actor \in [Actors -> Activity] /\ p \in Actors /\ Procs \subseteq Actors
      /\ actor[p].pc = "apply_lock" /\ ProcFit(p) /\ actor[p].job = "apply"
  BY ActorGround, Ground DEF Full, RetainTarget, At, Stands, Asking
<1>2. actor[p].content = Absent
  BY <1>1 DEF ProcFit, RawReads, Reading, Reconciling, Pruning
<1>3. UNCHANGED <<generations, claims, live, stage, edits>> /\ Desired' = Desired
  BY DEF RetainTarget, storeVars, Desired
<1>4. CASE Busy /\ Rest(p) /\ UNCHANGED rawFiles
  BY <1>1, <1>2, <1>3, <1>4, AfterFits, CalmStep DEF Busy
<1>5. CASE Acquire(p) /\ Step(p, "begin") /\ rawFiles' = (rawFiles \cap Referenced) \cup {actor[p].target}
  <2>1. /\ actor'[p].pc = "begin" /\ actor'[p].job = "apply" /\ actor'[p].content = Absent
        /\ actor'[p].target = actor[p].target
        /\ \A q \in Procs \ {p} : actor'[q] = actor[q]
    BY <1>1, <1>2, <1>5 DEF Step, Activity
  <2>2. lock = Absent /\ lock' = p /\ actor[p].target \in rawFiles'
    BY <1>5 DEF Acquire
  <2>3. ProcFit(p)'
    BY <2>1, <2>2
    DEF ProcFit, HoldsLock, JobFits, RawReads, Replaces, Reconciles, Reading, Reconciling, Pruning,
        Replacing, Observing
  <2> QED
    BY <1>3, <1>5, <2>1, <2>2, <2>3, RawStep
<1>6. CASE lock = Absent /\ Leave(p) /\ rawFiles' = rawFiles \cap Referenced
  <2>1. ProcFit(p)' /\ \A q \in Procs \ {p} : actor'[q] = actor[q]
    BY <1>1, <1>2, <1>6, AfterFits DEF Leave
  <2> QED
    BY <1>3, <1>6, <2>1, RawStep DEF Leave
<1> QED
  BY <1>4, <1>5, <1>6 DEF RetainTarget

\* A new intent changes what is desired to what no claim is on; a refused apply takes back
\* only a raw file that no generation keeps.
LEMMA BeginApplyFits ==
  ASSUME Full, IInv', StoreStep, NEW p \in Procs, BeginApply(p)
  PROVE  Full'
<1>0. PICK e, d : e = actor[p].parent /\ d = actor[p].target
  OBVIOUS
<1>1. /\ actor \in [Actors -> Activity] /\ p \in Actors /\ Procs \subseteq Actors
      /\ actor[p].pc = "begin" /\ ProcFit(p) /\ actor[p].job = "apply"
      /\ d \in Digests /\ Desired # 0
  BY <1>0, ActorGround, Ground DEF Full, BeginApply, At, Stands, Asking, Unfounded
<1>2. actor[p].content = Absent /\ lock = p /\ d \in rawFiles
  BY <1>0, <1>1 DEF ProcFit, RawReads, HoldsLock, Held, Reading, Reconciling, Pruning
<1>3. UNCHANGED <<claims, live, stage, edits>> /\ Desired' = Desired
  BY DEF BeginApply, Desired
<1>4. CASE Leave(p) /\ UNCHANGED generations /\ rawFiles' \in {rawFiles, Unreferenced(d)}
  <2>1. ProcFit(p)' /\ \A q \in Procs \ {p} : actor'[q] = actor[q]
    BY <1>1, <1>2, <1>4, AfterFits DEF Leave
  <2>2. rawFiles \cap Referenced \subseteq rawFiles'
    BY <1>4 DEF Unreferenced
  <2> QED
    BY <1>2, <1>3, <1>4, <2>1, <2>2, RawStep DEF Leave
<1>5. CASE /\ Known(e, d) = {} /\ MayBegin(e, d) /\ Step(p, "stage") /\ UNCHANGED <<rawFiles, lock>>
           /\ generations' = Append(generations,
                  [digest |-> d, parent |-> e, life |-> "accepted", raw |-> TRUE])
  <2>1. generations \in Seq(Generation)
    BY DEF Full, IInv, StoreInv, StoreTyped
  <2>2. PICK n : n = Len(generations) + 1
    OBVIOUS
  <2>3. /\ n \notin DOMAIN generations /\ DOMAIN generations' = DOMAIN generations \cup {n}
        /\ generations'[n] = [digest |-> d, parent |-> e, life |-> "accepted", raw |-> TRUE]
        /\ \A g \in DOMAIN generations : generations'[g] = generations[g]
    BY <1>5, <2>1, <2>2
  <2>4. /\ Incomplete = {} /\ Desired = e /\ d \notin claims
    BY <1>5 DEF MayBegin
  <2>5. Incomplete' = {n}
    BY <2>3, <2>4 DEF Incomplete, Unresolved
  <2>6. /\ Desired \in DOMAIN generations /\ Desired # n /\ DigestOf(Desired)' = DigestOf(Desired)
        /\ DigestOf(n)' = d /\ generations'[n].parent = Desired
    BY <1>1, <1>3, <2>3, <2>4, Ground DEF Full, DigestOf
  <2>7. IntentFounded /\ ClaimsFree /\ RawKept /\ FilesFit
    BY DEF Full, StoreFit
  <2>8. stage.content = Absent /\ live \in {DigestOf(Desired)} \cup edits /\ live # Absent /\ Absent \notin edits
    BY <1>1, <2>4, <2>7 DEF FilesFit
  <2>9. IntentFounded'
    <3>1. ASSUME NEW g \in DOMAIN generations',  NEW h \in DOMAIN generations',
                 generations'[g].parent = generations'[h].parent, DigestOf(g)' = DigestOf(h)'
          PROVE  g = h
      <4>1. \A k \in DOMAIN generations : generations[k].parent = e /\ generations[k].digest = d => FALSE
        BY <1>5 DEF Known, DigestOf
      <4> QED
        BY <2>3, <2>7, <3>1, <4>1 DEF IntentFounded, DigestOf
    <3>2. generations'[Desired'].raw /\ generations'[n].raw
      BY <1>1, <1>3, <2>3, <2>6, <2>7 DEF IntentFounded
    <3> QED
      BY <1>3, <2>5, <2>6, <3>1, <3>2 DEF IntentFounded
  <2>10. ClaimsFree'
    BY <1>1, <1>3, <2>4, <2>5, <2>6, <2>7 DEF ClaimsFree
  <2>11. RawKept'
    <3>1. DigestOf(Desired) \in rawFiles
      BY <1>1, <2>7 DEF RawKept
    <3>2. DigestOf(generations[n].parent)' = DigestOf(Desired)
      BY <1>3, <2>6 DEF DigestOf
    <3> QED
      BY <1>2, <1>3, <1>5, <2>5, <2>6, <3>1, <3>2 DEF RawKept
  <2>12. FilesFit'
    <3>1. Exchanged(n)'
      BY <1>3, <2>6, <2>8 DEF Exchanged
    <3> QED
      BY <1>1, <1>3, <2>5, <2>7, <2>8, <3>1 DEF FilesFit
  <2>13. /\ actor'[p].pc = "stage" /\ actor'[p].job = "apply" /\ actor'[p].content = Absent
         /\ actor'[p].parent = e /\ actor'[p].target = d
         /\ \A q \in Procs \ {p} : actor'[q] = actor[q]
    BY <1>0, <1>1, <1>2, <1>5 DEF Step, Activity
  <2>14. ReplacementFits("stage", DigestOf(Desired), DigestOf(n))'
    BY <1>3, <2>6, <2>8 DEF ReplacementFits
  <2>15. Replaces(actor[p])'
    BY <2>4, <2>5, <2>6, <2>13, <2>14 DEF Replaces
  <2>16. ProcFit(p)'
    BY <1>2, <1>5, <2>13, <2>15
    DEF ProcFit, HoldsLock, JobFits, RawReads, Reconciles, Reading, Reconciling, Pruning,
        Observing
  <2>17. Guarded(p) /\ Kept(generations, generations')
    BY <1>2, <1>5 DEF Guarded, StoreStep
  <2> QED
    BY <1>1, <2>9, <2>10, <2>11, <2>12, <2>13, <2>16, <2>17, Together DEF StoreFit
<1> QED
  BY <1>0, <1>4, <1>5 DEF BeginApply

\* The live file found first is copied before it is adopted, under the same lock.
LEMMA BindBaselineFits ==
  ASSUME Full, IInv', NEW p \in Procs, BindBaseline(p)
  PROVE  Full'
<1>1. /\ actor \in [Actors -> Activity] /\ p \in Actors /\ Procs \subseteq Actors
      /\ actor[p].pc = "bind" /\ ProcFit(p)
  BY ActorGround, Ground DEF Full, BindBaseline, At
<1>2. /\ actor[p].content = Absent /\ actor[p].job # "settled"
      /\ actor[p].job \in {"load", "loaded", "apply", "replace"}
  BY <1>1 DEF ProcFit, RawReads, JobFits, Reading, Reconciling, Pruning, Observing
<1>3. UNCHANGED <<generations, claims, live, stage, edits>> /\ Desired' = Desired
  BY DEF BindBaseline, storeVars, Desired
<1>4. CASE Busy /\ Rest(p) /\ UNCHANGED rawFiles
  BY <1>1, <1>2, <1>3, <1>4, AfterFits, CalmStep DEF Busy
<1>5. CASE Step(p, "read") /\ UNCHANGED <<lock, rawFiles>>
  <2>1. /\ actor'[p].pc = "read" /\ actor'[p].job = actor[p].job /\ actor'[p].content = Absent
        /\ \A q \in Procs \ {p} : actor'[q] = actor[q]
    BY <1>1, <1>2, <1>5 DEF Step, Activity
  <2>2. ProcFit(p)'
    BY <1>1, <1>2, <2>1, LooseFits
    DEF ProcFit, JobFits, Held, Pruning, Reconciling, Replacing, Observing
  <2> QED
    BY <1>3, <1>5, <2>1, <2>2, CalmStep
<1>6. CASE /\ lock = Absent /\ lock' = p /\ Found(p, live, "adopt")
           /\ rawFiles' = (rawFiles \cap Referenced) \cup {live}
  <2>1. /\ actor'[p].pc = "adopt" /\ actor'[p].job = actor[p].job /\ actor'[p].content = live
        /\ \A q \in Procs \ {p} : actor'[q] = actor[q]
    BY <1>1, <1>6 DEF Found, Activity
  <2>2. ProcFit(p)'
    BY <1>2, <1>6, <2>1
    DEF ProcFit, HoldsLock, JobFits, RawReads, Replaces, Reconciles, Reading, Reconciling, Pruning,
        Replacing, Observing
  <2> QED
    BY <1>3, <1>6, <2>1, <2>2, RawStep
<1>7. CASE lock = Absent /\ Leave(p) /\ rawFiles' \in {rawFiles, rawFiles \cap Referenced}
  <2>1. ProcFit(p)' /\ \A q \in Procs \ {p} : actor'[q] = actor[q]
    BY <1>1, <1>2, <1>7, AfterFits DEF Leave
  <2>2. rawFiles \cap Referenced \subseteq rawFiles'
    BY <1>7
  <2> QED
    BY <1>3, <1>7, <2>1, <2>2, RawStep DEF Leave
<1> QED
  BY <1>4, <1>5, <1>6, <1>7 DEF BindBaseline

\* The first generation is the live file, and what was written to it before is its content.
LEMMA AdoptBaselineFits ==
  ASSUME Full, IInv', StoreStep, NEW p \in Procs, AdoptBaseline(p)
  PROVE  Full'
<1>1. /\ actor \in [Actors -> Activity] /\ p \in Actors /\ Procs \subseteq Actors
      /\ actor[p].pc = "adopt" /\ ProcFit(p) /\ actor[p].content \in Digests
  BY ActorGround, Ground DEF Full, AdoptBaseline, At, Stands
<1>2. actor[p].content \in rawFiles /\ lock = p
  BY <1>1 DEF ProcFit, RawReads, HoldsLock, Held
<1>3. UNCHANGED <<claims, rawFiles, live, stage, edits>>
  BY DEF AdoptBaseline, fileVars
<1>4. CASE Leave(p) /\ UNCHANGED <<generations, authority>>
  <2>1. /\ actor'[p] = Resting /\ \A q \in Procs \ {p} : actor'[q] = actor[q]
    BY <1>1, <1>4 DEF Leave, Rest
  <2> QED
    BY <1>2, <1>3, <1>4, <2>1, RestFits, CalmStep DEF Leave, Desired
<1>5. CASE /\ live = actor[p].content /\ Desired = 0 /\ Prune(p, "loaded") /\ UNCHANGED lock
           /\ generations' = <<[digest |-> live, parent |-> 0,
                                life |-> "pending_restart", raw |-> TRUE]>>
           /\ authority' = [desired |-> 1, version |-> 1, drifted |-> FALSE]
  <2>1. /\ DOMAIN generations' = {1} /\ generations'[1].raw /\ generations'[1].digest = live
        /\ generations'[1].life = "pending_restart" /\ Desired' = 1
    BY <1>5 DEF Desired
  <2>2. Incomplete' = {} /\ DigestOf(Desired)' = live
    BY <2>1 DEF Incomplete, Unresolved, DigestOf
  <2>3. IntentFounded /\ ClaimsFree /\ RawKept /\ FilesFit
    BY DEF Full, StoreFit
  <2>4. IntentFounded'
    BY <2>1, <2>2 DEF IntentFounded
  <2>5. ClaimsFree' /\ RawKept'
    BY <1>2, <1>3, <1>5, <2>1, <2>2, <2>3 DEF ClaimsFree, RawKept
  <2>6. FilesFit'
    BY <1>3, <1>5, <2>1, <2>2, <2>3 DEF FilesFit, Unknown
  <2>7. ProcFit(p)' /\ \A q \in Procs \ {p} : actor'[q] = actor[q]
    BY <1>2, <1>5, PruneFits
  <2> QED
    BY <1>1, <1>2, <1>5, <2>4, <2>5, <2>6, <2>7, Together DEF StoreFit, Guarded, StoreStep
<1> QED
  BY <1>4, <1>5 DEF AdoptBaseline

-----------------------------------------------------------------------------
(* Pruning. *)

\* A step that changes at most the life of generations, and the raw mark of those that are
\* neither desired nor unsettled, and gives claims up.
LEMMA StoreRelabeled ==
  ASSUME Full, DOMAIN generations' = DOMAIN generations,
         \A g \in DOMAIN generations : /\ generations'[g].digest = generations[g].digest
                                       /\ generations'[g].parent = generations[g].parent,
         \A g \in DOMAIN generations : g \in Incomplete \cup {Desired} =>
           generations'[g].raw = generations[g].raw,
         Incomplete' = Incomplete, Desired' = Desired, claims' \subseteq claims,
         UNCHANGED <<rawFiles, live, stage, edits>>
  PROVE  StoreFit'
<1>1. /\ Incomplete \subseteq DOMAIN generations /\ (Desired # 0 => Desired \in DOMAIN generations)
      /\ Incomplete # {} => Desired # 0
      /\ \A g \in DOMAIN generations : DigestOf(g)' = DigestOf(g)
  BY Ground DEF Full, DigestOf
<1>2. Desired # 0 => DigestOf(Desired)' = DigestOf(Desired)
  BY <1>1 DEF DigestOf
<1>3. IntentFounded /\ ClaimsFree /\ RawKept /\ FilesFit
  BY DEF Full, StoreFit
<1>4. IntentFounded'
  BY <1>1, <1>3 DEF IntentFounded
<1>5. ClaimsFree'
  BY <1>1, <1>2, <1>3 DEF ClaimsFree
<1>6. RawKept'
  <2>1. \A g \in Incomplete : generations[g].parent = Desired
    BY <1>3 DEF IntentFounded
  <2>2. \A g \in Incomplete : DigestOf(generations[g].parent)' = DigestOf(generations[g].parent)
    BY <1>1, <1>2, <2>1 DEF DigestOf
  <2> QED
    BY <1>1, <1>2, <1>3, <2>2 DEF RawKept
<1>7. FilesFit'
  <2>1. \A g \in Incomplete : Exchanged(g)'
    BY <1>1, <1>2, <1>3 DEF FilesFit, Exchanged
  <2> QED
    BY <1>1, <1>2, <1>3, <2>1 DEF FilesFit
<1> QED
  BY <1>4, <1>5, <1>6, <1>7 DEF StoreFit

\* The claims left behind, and then what the history no longer keeps, are listed.
LEMMA ListPruneFits ==
  ASSUME Full, IInv', NEW p \in Procs, ListPrune(p)
  PROVE  Full'
<1>1. /\ actor \in [Actors -> Activity] /\ p \in Actors /\ Procs \subseteq Actors
      /\ actor[p].pc \in {"prune", "prune_lock", "prune_claims"} /\ ProcFit(p)
  BY ActorGround, Ground DEF Full, ListPrune, At
<1>2. /\ actor[p].content = Absent /\ actor[p].job \in {"load", "loaded", "apply", "replace", "settled"}
      /\ actor[p].pc = "prune_lock" => actor[p].job # "settled"
      /\ actor[p].pc # "prune_lock" => lock = p
  BY <1>1
  DEF ProcFit, RawReads, JobFits, HoldsLock, Held, Reading, Reconciling, Pruning, Observing,
      ListPrune, At
<1>3. /\ UNCHANGED <<generations, claims, live, stage, edits, rawFiles>> /\ Desired' = Desired
      /\ Absent \notin claims
  BY Ground DEF Full, ListPrune, storeVars, fileVars, Desired
<1>4. ASSUME /\ actor'[p].pc \in {"prune_claims", "prune_more"}
             /\ actor'[p].job \in {"load", "loaded", "apply", "replace", "settled"}
             /\ actor'[p].content = Absent
             /\ actor'[p].pc = "prune_claims" => actor'[p].todo = claims
             /\ \A q \in Procs \ {p} : actor'[q] = actor[q],
             lock' = p, lock \in {Absent, p}
      PROVE  Full'
  <2>1. ProcFit(p)'
    BY <1>3, <1>4
    DEF ProcFit, HoldsLock, JobFits, RawReads, Replaces, Reconciles, Reading, Reconciling, Pruning,
        Replacing, Observing
  <2> QED
    BY <1>3, <1>4, <2>1, CalmStep
<1>5. ASSUME NEW job \in {"load", "loaded", "apply", "replace", "settled"}, List(p, job),
             lock' = p, lock \in {Absent, p}
      PROVE  Full'
  <2>1. /\ actor'[p].pc = (IF claims = {} THEN "prune_more" ELSE "prune_claims")
        /\ actor'[p].todo = (IF claims = {} THEN PruneCandidates ELSE claims)
        /\ actor'[p].job = job /\ actor'[p].content = Absent
        /\ \A q \in Procs \ {p} : actor'[q] = actor[q]
    BY <1>1, <1>2, <1>5 DEF List, Activity
  <2> QED
    BY <1>4, <1>5, <2>1
<1>6. CASE At(p, "prune") /\ List(p, actor[p].job) /\ UNCHANGED lock
  BY <1>2, <1>5, <1>6 DEF At
<1>7. CASE At(p, "prune_lock") /\ Acquire(p) /\ List(p, "loaded")
  BY <1>5, <1>7 DEF Acquire
<1>8. CASE At(p, "prune_lock") /\ Busy /\ Step(p, "compose")
  <2>1. /\ actor'[p].pc = "compose" /\ actor'[p].job = actor[p].job /\ actor'[p].content = Absent
        /\ \A q \in Procs \ {p} : actor'[q] = actor[q]
    BY <1>1, <1>2, <1>8 DEF Step, Activity
  <2>2. ProcFit(p)'
    BY <1>2, <1>8, <2>1, LooseFits
    DEF At, JobFits, Held, Pruning, Reconciling, Replacing, Observing
  <2> QED
    BY <1>3, <1>8, <2>1, <2>2, CalmStep DEF Busy
<1>9. CASE /\ At(p, "prune_claims") /\ UNCHANGED lock
           /\ actor' = [actor EXCEPT ![p].pc = "prune_more", ![p].todo = PruneCandidates]
  <2>1. /\ actor'[p].pc = "prune_more" /\ actor'[p].job = actor[p].job /\ actor'[p].content = Absent
        /\ \A q \in Procs \ {p} : actor'[q] = actor[q]
    BY <1>1, <1>2, <1>9 DEF Activity
  <2> QED
    BY <1>2, <1>4, <1>9, <2>1 DEF At
<1> QED
  BY <1>6, <1>7, <1>8, <1>9 DEF ListPrune

\* A step of a prune that goes on where it is, under the lock.
LEMMA PrunesOn ==
  ASSUME Full, NEW p \in Procs, actor[p].pc \in {"prune_claims", "prune_more"},
         NEW x, NEW t, actor'[p] = [actor[p] EXCEPT !.content = x, !.todo = t],
         \A q \in Procs \ {p} : actor'[q] = actor[q], lock' = lock,
         x \in claims' \cup {Absent},
         actor[p].pc = "prune_claims" => t \subseteq claims' \ {x}
  PROVE  ProcFit(p)' /\ lock = p /\ lock' = p
<1>1. actor \in [Actors -> Activity] /\ p \in Actors /\ ProcFit(p)
  BY ActorGround, Ground DEF Full
<1>2. /\ actor'[p].pc = actor[p].pc /\ actor'[p].job = actor[p].job
      /\ actor'[p].content = x /\ actor'[p].todo = t
  BY <1>1 DEF Activity
<1>3. lock = p
  BY <1>1 DEF ProcFit, HoldsLock, Held, Pruning
<1> QED
  BY <1>1, <1>2, <1>3
  DEF ProcFit, HoldsLock, JobFits, RawReads, Replaces, Reconciles, Held, Reading, Reconciling,
      Pruning, Replacing, Observing

\* A claim is made on what nothing desired, or about to be, needs.
LEMMA ClaimPruneFits ==
  ASSUME Full, IInv', StoreStep, NEW p \in Procs, ClaimPrune(p)
  PROVE  Full'
<1>1. /\ actor \in [Actors -> Activity] /\ p \in Actors /\ Procs \subseteq Actors
      /\ actor[p].pc \in {"prune_claims", "prune_more"} /\ ProcFit(p) /\ actor[p].content = Absent
      /\ Desired # 0
  BY ActorGround, Ground DEF Full, ClaimPrune, Stands, Unfounded
<1>2. PICK d \in actor[p].todo, taken \in BOOLEAN :
        /\ taken <=> At(p, "prune_claims") \/ ~Protected(d)
        /\ claims' = IF taken THEN claims \cup {d} ELSE claims
        /\ actor' = [actor EXCEPT ![p].todo = @ \ {d}, ![p].content = IF taken THEN d ELSE Absent]
  BY DEF ClaimPrune
<1>3. UNCHANGED <<generations, rawFiles, live, stage, edits, lock>> /\ Desired' = Desired
  BY DEF ClaimPrune, fileVars, Desired
<1>4. PICK x, t : x = (IF taken THEN d ELSE Absent) /\ t = actor[p].todo \ {d}
  OBVIOUS
<1>5. /\ actor'[p] = [actor[p] EXCEPT !.content = x, !.todo = t]
      /\ \A q \in Procs \ {p} : actor'[q] = actor[q]
  BY <1>1, <1>2, <1>4 DEF Activity
<1>6. actor[p].pc = "prune_claims" => actor[p].todo \subseteq claims
  BY <1>1 DEF ProcFit, RawReads
<1>7. Absent \notin Digests /\ claims \subseteq Digests /\ actor[p].todo \subseteq Digests
  BY <1>1, ActorGround, Ground DEF Full
<1>8. ProcFit(p)' /\ lock = p /\ lock' = p
  <2>1. x \in claims' \cup {Absent}
    BY <1>2, <1>4
  <2>2. actor[p].pc = "prune_claims" => t \subseteq claims' \ {x}
    BY <1>2, <1>4, <1>6 DEF At
  <2> QED
    BY <1>1, <1>3, <1>5, <2>1, <2>2, PrunesOn
<1>9. ClaimsFree'
  <2>1. \A y \in claims' : y \in claims \/ ~Protected(y)
    BY <1>2, <1>6 DEF At
  <2>2. Incomplete' = Incomplete /\ \A g : DigestOf(g)' = DigestOf(g)
    BY <1>3 DEF Incomplete, DigestOf
  <2> QED
    BY <1>1, <1>3, <2>1, <2>2 DEF Full, StoreFit, ClaimsFree, Protected
<1>10. IntentFounded' /\ RawKept' /\ FilesFit'
  <2>1. Incomplete' = Incomplete /\ (\A g : DigestOf(g)' = DigestOf(g))
    BY <1>3 DEF Incomplete, DigestOf
  <2> QED
    BY <1>3, <2>1 DEF Full, StoreFit, IntentFounded, RawKept, FilesFit, Exchanged
<1> QED
  BY <1>1, <1>5, <1>8, <1>9, <1>10, Together DEF StoreFit, Guarded, StoreStep

\* What is removed is claimed, and so is nothing that must be kept.
LEMMA RemoveRawFits ==
  ASSUME Full, IInv', StoreStep, NEW p \in Procs, RemoveRaw(p)
  PROVE  Full'
<1>0. PICK d : d = actor[p].content
  OBVIOUS
<1>1. /\ actor \in [Actors -> Activity] /\ p \in Actors /\ Procs \subseteq Actors
      /\ actor[p].pc \in {"prune_claims", "prune_more"} /\ ProcFit(p)
      /\ Desired # 0
  BY ActorGround, Ground DEF Full, RemoveRaw, Stands, Unfounded
<1>2. /\ UNCHANGED <<generations, live, stage, edits, lock>> /\ Desired' = Desired
      /\ rawFiles \ {d} \subseteq rawFiles' /\ claims \ {d} \subseteq claims' /\ claims' \subseteq claims
  BY <1>0 DEF RemoveRaw, Desired
<1>3. /\ d \in claims \cup {Absent}
      /\ actor[p].pc = "prune_claims" => actor[p].todo \subseteq claims \ {d}
  BY <1>0, <1>1 DEF ProcFit, RawReads
<1>4. ProcFit(p)' /\ lock = p /\ lock' = p /\ \A q \in Procs \ {p} : actor'[q] = actor[q]
  <2>1. PICK t : t = actor[p].todo
    OBVIOUS
  <2>2. CASE UNCHANGED <<claims, actor>>
    <3>1. actor'[p] = [actor[p] EXCEPT !.content = d, !.todo = t]
      BY <1>0, <1>1, <2>1, <2>2 DEF Activity
    <3> QED
      BY <1>1, <1>2, <1>3, <2>1, <2>2, <3>1, PrunesOn
  <2>3. CASE actor' = [actor EXCEPT ![p].content = Absent]
    <3>1. actor'[p] = [actor[p] EXCEPT !.content = Absent, !.todo = t]
      BY <1>1, <2>1, <2>3 DEF Activity
    <3>2. \A q \in Procs \ {p} : actor'[q] = actor[q]
      BY <1>1, <2>3
    <3>3. actor[p].pc = "prune_claims" => t \subseteq claims' \ {Absent}
      BY <1>2, <1>3, <2>1, Ground DEF Full
    <3> QED
      BY <1>1, <1>2, <3>1, <3>2, <3>3, PrunesOn
  <2> QED
    BY <2>2, <2>3 DEF RemoveRaw
<1>5. Incomplete' = Incomplete /\ (\A g : DigestOf(g)' = DigestOf(g))
  BY <1>2 DEF Incomplete, DigestOf
<1>6. IntentFounded' /\ ClaimsFree' /\ FilesFit'
  BY <1>1, <1>2, <1>5 DEF Full, StoreFit, IntentFounded, ClaimsFree, FilesFit, Exchanged
<1>7. RawKept'
  <2>1. /\ DigestOf(Desired) # d /\ \A g \in Incomplete : DigestOf(g) # d /\ generations[g].parent = Desired
    BY <1>1, <1>3, Ground DEF Full, StoreFit, ClaimsFree, IntentFounded
  <2> QED
    BY <1>1, <1>2, <1>5, <2>1 DEF Full, StoreFit, RawKept
<1> QED
  BY <1>1, <1>4, <1>6, <1>7, Together DEF StoreFit, Guarded, StoreStep

\* The generations that a completed prune marks are superseded or failed.
LEMMA CompletePruneFits ==
  ASSUME Full, IInv', StoreStep, NEW p \in Procs, CompletePrune(p)
  PROVE  Full'
<1>0. PICK d : d = actor[p].content
  OBVIOUS
<1>1. /\ actor \in [Actors -> Activity] /\ p \in Actors /\ Procs \subseteq Actors
      /\ actor[p].pc \in {"prune_claims", "prune_more"} /\ ProcFit(p)
  BY ActorGround, Ground DEF Full, CompletePrune
<1>2. /\ UNCHANGED <<rawFiles, live, stage, edits, lock>> /\ Desired' = Desired
      /\ claims \ {d} \subseteq claims' /\ claims' \subseteq claims
      /\ actor' = [actor EXCEPT ![p].content = Absent]
  BY <1>0 DEF CompletePrune, Desired, fileVars
<1>3. actor[p].pc = "prune_claims" => actor[p].todo \subseteq claims \ {d}
  BY <1>0, <1>1 DEF ProcFit, RawReads
<1>4. ProcFit(p)' /\ lock = p /\ lock' = p /\ \A q \in Procs \ {p} : actor'[q] = actor[q]
  <2>1. PICK t : t = actor[p].todo
    OBVIOUS
  <2>2. actor'[p] = [actor[p] EXCEPT !.content = Absent, !.todo = t]
    BY <1>1, <1>2, <2>1 DEF Activity
  <2>3. \A q \in Procs \ {p} : actor'[q] = actor[q]
    BY <1>1, <1>2
  <2>4. actor[p].pc = "prune_claims" => t \subseteq claims' \ {Absent}
    BY <1>2, <1>3, <2>1, Ground DEF Full
  <2> QED
    BY <1>1, <1>2, <2>2, <2>3, <2>4, PrunesOn
<1>5. /\ DOMAIN generations' = DOMAIN generations
      /\ \A g \in DOMAIN generations :
           /\ generations'[g].digest = generations[g].digest
           /\ generations'[g].parent = generations[g].parent
           /\ generations'[g].life = generations[g].life
           /\ generations[g].life \notin {"superseded", "failed"} => generations'[g].raw = generations[g].raw
  <2>1. \A g \in DOMAIN generations : generations[g] \in Generation
    BY DEF Full, IInv, StoreInv, StoreTyped
  <2> QED
    BY <1>0, <2>1 DEF CompletePrune, Generation
<1>6. Incomplete' = Incomplete
  BY <1>5 DEF Incomplete
<1>7. \A g \in DOMAIN generations : g \in Incomplete \cup {Desired} => generations'[g].raw = generations[g].raw
  <2>1. Desired # 0 => generations[Desired].life \in {"pending_restart", "effective"}
    BY DEF Full, IInv, StoreInv, Lineage
  <2> QED
    BY <1>5, <2>1, Ground DEF Full, Incomplete, Unresolved
<1>8. StoreFit'
  BY <1>2, <1>5, <1>6, <1>7, StoreRelabeled
<1> QED
  BY <1>1, <1>4, <1>8, Together DEF Guarded, StoreStep

\* The end of a prune takes what no generation keeps, and returns the lock.
LEMMA EndPruneFits ==
  ASSUME Full, IInv', NEW p \in Procs, EndPrune(p)
  PROVE  Full'
<1>1. /\ actor \in [Actors -> Activity] /\ p \in Actors /\ Procs \subseteq Actors
      /\ actor[p].pc = "prune_more" /\ ProcFit(p) /\ actor[p].content = Absent
  BY ActorGround, Ground DEF Full, EndPrune, At
<1>2. lock = p /\ lock' = Absent
  BY <1>1 DEF ProcFit, HoldsLock, Held, Pruning, EndPrune
<1>3. /\ UNCHANGED <<generations, claims, live, stage, edits>> /\ Desired' = Desired
      /\ rawFiles \cap Referenced \subseteq rawFiles'
  BY DEF EndPrune, storeVars, Desired
<1>4. ProcFit(p)' /\ \A q \in Procs \ {p} : actor'[q] = actor[q]
  <2>1. CASE actor[p].job # "settled" /\ AfterReconcile(p)
    BY <1>1, <2>1, AfterFits
  <2>2. CASE Rest(p)
    <3>1. actor'[p] = Resting /\ \A q \in Procs \ {p} : actor'[q] = actor[q]
      BY <1>1, <2>2 DEF Rest
    <3> QED
      BY <3>1, RestFits
  <2> QED
    BY <2>1, <2>2 DEF EndPrune
<1> QED
  BY <1>2, <1>3, <1>4, RawStep

-----------------------------------------------------------------------------
(* Observation and the worker change no file, no claim and no intent. *)

\* A step that leaves the files, the claims, the intents and the lock alone.
LEMMA QuietStep ==
  ASSUME Full, NEW p \in Actors, IInv', StoreFit', Kept(generations, generations'),
         UNCHANGED <<lock, rawFiles, claims, live, stage, edits>>,
         Incomplete' = Incomplete, Desired' = Desired,
         \A q \in Procs \ {p} : actor'[q] = actor[q], p \in Procs => ProcFit(p)'
  PROVE  Full'
BY Together DEF Guarded

\* What follows an observation, whether it succeeded or not.
LEMMA IgnoredFits ==
  ASSUME Full, NEW p \in Procs, actor[p].pc \in {"look"} \cup Observing, lock' = lock, Ignored(p)
  PROVE  ProcFit(p)' /\ \A q \in Procs \ {p} : actor'[q] = actor[q]
<1>1. /\ actor \in [Actors -> Activity] /\ p \in Actors /\ Procs \subseteq Actors /\ ProcFit(p)
      /\ actor[p].job \in {"apply", "replace", "settled"}
  BY ActorGround, Ground DEF Full, ProcFit, JobFits
<1>2. CASE actor[p].job = "replace" /\ Rest(p)
  <2>1. actor'[p] = Resting /\ \A q \in Procs \ {p} : actor'[q] = actor[q]
    BY <1>1, <1>2 DEF Rest
  <2> QED
    BY <2>1, RestFits
<1>3. CASE /\ actor[p].job # "replace"
           /\ actor' = [actor EXCEPT ![p].seen = NoSnapshot, ![p].content = Absent,
                          ![p].pc = IF actor[p].job = "apply" THEN "check" ELSE "prune"]
  <2>1. /\ actor'[p].pc = (IF actor[p].job = "apply" THEN "check" ELSE "prune")
        /\ actor'[p].job = actor[p].job /\ actor'[p].content = Absent
        /\ \A q \in Procs \ {p} : actor'[q] = actor[q]
    BY <1>1, <1>3 DEF Activity
  <2>2. actor[p].job = "settled" => lock' = p
    BY <1>1 DEF ProcFit, HoldsLock
  <2> QED
    BY <1>1, <1>3, <2>1, <2>2
    DEF ProcFit, HoldsLock, JobFits, RawReads, Replaces, Reconciles, Held, Reading, Reconciling,
        Pruning, Replacing, Observing
<1> QED
  BY <1>2, <1>3 DEF Ignored

\* A command that is still observing.
LEMMA LooksFits ==
  ASSUME Full, NEW p \in Procs, actor[p].pc \in {"look"} \cup Observing, lock' = lock,
         NEW c \in {"live", "relive", "drift", "redrift", "effective"}, NEW x, NEW s,
         actor' = [actor EXCEPT ![p].pc = c, ![p].seen = s, ![p].content = x],
         c = "effective" => x = Absent
  PROVE  ProcFit(p)' /\ \A q \in Procs \ {p} : actor'[q] = actor[q]
<1>1. /\ actor \in [Actors -> Activity] /\ p \in Actors /\ Procs \subseteq Actors /\ ProcFit(p)
      /\ actor[p].job \in {"apply", "replace", "settled"}
  BY ActorGround, Ground DEF Full, ProcFit, JobFits
<1>2. /\ actor'[p].pc = c /\ actor'[p].job = actor[p].job /\ actor'[p].content = x
      /\ \A q \in Procs \ {p} : actor'[q] = actor[q]
  BY <1>1 DEF Activity
<1>3. actor[p].job = "settled" => lock' = p
  BY <1>1 DEF ProcFit, HoldsLock
<1> QED
  BY <1>1, <1>2, <1>3
  DEF ProcFit, HoldsLock, JobFits, RawReads, Replaces, Reconciles, Held, Reading, Reconciling,
      Pruning, Replacing, Observing

\* However an observation goes on.
LEMMA ObservationFits ==
  ASSUME Full, NEW p \in Actors, lock' = lock,
         p \in Procs => actor[p].pc \in {"look"} \cup Observing,
         \/ \E s : Observed(p, s) \/ Runtime(p, s)
         \/ Unobserved(p)
         \/ \E c \in {"live", "relive", "drift", "redrift"} : \E x, s :
              actor' = [actor EXCEPT ![p].pc = c, ![p].seen = s, ![p].content = x]
  PROVE  /\ p \in Procs => ProcFit(p)'
         /\ \A q \in Procs \ {p} : actor'[q] = actor[q]
<1>1. actor \in [Actors -> Activity] /\ Procs \subseteq Actors /\ Worker \notin Procs
  BY Ground, ActorGround DEF Full
<1>2. CASE p \in Procs
  <2>1. p # Worker
    BY <1>1, <1>2
  <2>2. Ignored(p) => ProcFit(p)' /\ \A q \in Procs \ {p} : actor'[q] = actor[q]
    BY <1>2, IgnoredFits
  <2>3. ASSUME NEW c \in {"live", "relive", "drift", "redrift", "effective"}, NEW x, NEW s,
               actor' = [actor EXCEPT ![p].pc = c, ![p].seen = s, ![p].content = x],
               c = "effective" => x = Absent
        PROVE  ProcFit(p)' /\ \A q \in Procs \ {p} : actor'[q] = actor[q]
    BY <1>2, <2>3, LooksFits
  <2>4. ASSUME NEW s, Runtime(p, s)
        PROVE  ProcFit(p)' /\ \A q \in Procs \ {p} : actor'[q] = actor[q]
    <3>1. CASE Observed(p, s)
      <4>1. Ignored(p)
        BY <2>1, <3>1 DEF Observed
      <4> QED
        BY <2>2, <4>1
    <3>2. CASE actor' = [actor EXCEPT ![p].pc = "effective", ![p].seen = s, ![p].content = Absent]
      BY <2>3, <3>2
    <3> QED
      BY <2>4, <3>1, <3>2 DEF Runtime
  <2> QED
    BY <2>1, <2>2, <2>3, <2>4 DEF Observed, Unobserved
<1>3. CASE p \notin Procs
  BY <1>1, <1>3 DEF Observed, Runtime, Unobserved, Rest, Actors
<1> QED
  BY <1>2, <1>3

\* The authority is read, and then the live file.
LEMMA LookFits ==
  ASSUME Full, IInv', NEW p \in Actors, ReadRuntimeAuthority(p) \/ LookAtLive(p)
  PROVE  Full'
<1>1. /\ p \in Procs => ProcFit(p)'
      /\ \A q \in Procs \ {p} : actor'[q] = actor[q]
  <2>1. /\ actor \in [Actors -> Activity] /\ lock' = lock
        /\ p \in Procs => actor[p].pc \in {"look"} \cup Observing
    BY ActorGround DEF Full, ReadRuntimeAuthority, LookAtLive, At, Observing
  <2>2. CASE ReadRuntimeAuthority(p)
    <3>1. CASE Observed(p, Snapshot(p))
      BY <2>1, <3>1, ObservationFits
    <3>2. CASE actor' = [actor EXCEPT ![p].pc = "live", ![p].seen = Snapshot(p)]
      <4>1. actor' = [actor EXCEPT ![p].pc = "live", ![p].seen = Snapshot(p), ![p].content = actor[p].content]
        BY <2>1, <3>2 DEF Activity
      <4> QED
        BY <2>1, <4>1, ObservationFits
    <3> QED
      BY <2>2, <3>1, <3>2 DEF ReadRuntimeAuthority
  <2>3. CASE LookAtLive(p)
    <3>1. PICK c \in {"drift", "redrift"} : actor' = [actor EXCEPT ![p].pc = c, ![p].content = live]
      BY <2>3 DEF LookAtLive
    <3>2. actor' = [actor EXCEPT ![p].pc = c, ![p].seen = actor[p].seen, ![p].content = live]
      BY <2>1, <3>1 DEF Activity
    <3> QED
      BY <2>1, <3>1, <3>2, ObservationFits
  <2> QED
    BY <2>2, <2>3
<1>2. /\ UNCHANGED <<generations, lock, rawFiles, claims, live, stage, edits>>
      /\ Incomplete' = Incomplete /\ Desired' = Desired
  BY DEF ReadRuntimeAuthority, LookAtLive, storeVars, fileVars, Incomplete, Desired
<1>3. StoreFit' /\ Kept(generations, generations')
  BY <1>2, StoreStill DEF Kept
<1> QED
  BY <1>1, <1>2, <1>3, QuietStep

\* A drift that is recorded.
LEMMA DriftFits ==
  ASSUME Full, IInv', NEW p \in Actors, ObserveDrift(p)
  PROVE  Full'
<1>1. /\ p \in Procs => ProcFit(p)'
      /\ \A q \in Procs \ {p} : actor'[q] = actor[q]
  <2>1. actor \in [Actors -> Activity] /\ actor[p].pc \in {"drift", "redrift"} /\ lock' = lock
    BY ActorGround DEF Full, ObserveDrift
  <2>2. \/ Runtime(p, actor[p].seen) \/ Runtime(p, Snapshot(p)) \/ Unobserved(p)
        \/ actor' = [actor EXCEPT ![p].seen = Snapshot(p), ![p].content = Absent, ![p].pc = "relive"]
    BY DEF ObserveDrift
  <2>3. ASSUME NEW s, NEW x,
               actor' = [actor EXCEPT ![p].seen = s, ![p].content = x, ![p].pc = "relive"]
        PROVE  actor' = [actor EXCEPT ![p].pc = "relive", ![p].seen = s, ![p].content = x]
    BY <2>1, <2>3 DEF Activity
  <2>5. \/ \E y : Observed(p, y) \/ Runtime(p, y)
        \/ Unobserved(p)
        \/ \E c \in {"live", "relive", "drift", "redrift"} : \E y, z :
             actor' = [actor EXCEPT ![p].pc = c, ![p].seen = z, ![p].content = y]
    BY <2>2, <2>3, ZenonT(60) DEF Observing
  <2>6. p \in Procs => actor[p].pc \in {"look"} \cup Observing
    BY <2>1 DEF Observing
  <2> QED
    BY <2>1, <2>5, <2>6, ObservationFits
<1>2. UNCHANGED <<generations, lock, rawFiles, claims, live, stage, edits>> /\ Incomplete' = Incomplete
  BY DEF ObserveDrift, fileVars, Incomplete
<1>3. Desired' = Desired
  BY DEF Full, IInv, StoreInv, StoreTyped, ObserveDrift, Desired
<1>4. StoreFit' /\ Kept(generations, generations')
  BY <1>2, <1>3, StoreStill DEF Kept
<1> QED
  BY <1>1, <1>2, <1>3, <1>4, QuietStep

\* A generation that is recorded as effective.
LEMMA EffectiveFits ==
  ASSUME Full, IInv', StoreStep, NEW p \in Actors, ObserveEffective(p)
  PROVE  Full'
<1>1. /\ p \in Procs => ProcFit(p)'
      /\ \A q \in Procs \ {p} : actor'[q] = actor[q]
  BY ObservationFits DEF ObserveEffective, Observing, At
<1>2. UNCHANGED <<lock, rawFiles, claims, live, stage, edits>>
  BY DEF ObserveEffective, fileVars
<1>3. Desired' = Desired
  BY DEF Full, IInv, StoreInv, StoreTyped, ObserveEffective, Desired
<1>4. \A g \in DOMAIN generations : generations[g] \in Generation
  BY DEF Full, IInv, StoreInv, StoreTyped
<1>5. CASE UNCHANGED generations
  <2>1. Incomplete' = Incomplete /\ StoreFit'
    BY <1>2, <1>3, <1>5, StoreStill DEF Incomplete
  <2> QED
    BY <1>1, <1>2, <1>3, <2>1, QuietStep DEF StoreStep
<1>6. CASE /\ generations' = [generations EXCEPT ![Desired].life = "effective"]
           /\ generations[Desired].life = "pending_restart"
  <2>1. /\ DOMAIN generations' = DOMAIN generations
        /\ \A g \in DOMAIN generations :
             /\ generations'[g].digest = generations[g].digest
             /\ generations'[g].parent = generations[g].parent
             /\ generations'[g].raw = generations[g].raw
             /\ g # Desired => generations'[g].life = generations[g].life
             /\ g = Desired => generations'[g].life = "effective"
    BY <1>4, <1>6 DEF Generation
  <2>2. Incomplete' = Incomplete
    BY <1>6, <2>1 DEF Incomplete, Unresolved
  <2>3. StoreFit'
    BY <1>2, <1>3, <2>1, <2>2, StoreRelabeled
  <2> QED
    BY <1>1, <1>2, <1>3, <2>2, <2>3, QuietStep DEF StoreStep
<1> QED
  BY <1>5, <1>6 DEF ObserveEffective

\* The worker's own steps.
LEMMA WorkerFits ==
  ASSUME Full, IInv', StartCheck \/ Reserve \/ FinishRun \/ StopWorker
  PROVE  Full'
<1>1. Worker \in Actors /\ Worker \notin Procs /\ Procs \subseteq Actors
  BY Ground DEF Full, Actors
<1>2. \A q \in Procs : actor'[q] = actor[q]
  BY <1>1, ActorGround DEF Full, StartCheck, Reserve, FinishRun, StopWorker, Rest
<1>3. /\ UNCHANGED <<generations, lock, rawFiles, claims, live, stage, edits>>
      /\ Incomplete' = Incomplete /\ Desired' = Desired
  BY DEF StartCheck, Reserve, FinishRun, StopWorker, storeVars, fileVars, Incomplete, Desired
<1>4. StoreFit' /\ Kept(generations, generations')
  BY <1>3, StoreStill DEF Kept
<1> QED
  BY <1>1, <1>2, <1>3, <1>4, QuietStep

\* A command that has loaded what is desired ends, or becomes the worker.
LEMMA LaunchFits ==
  ASSUME Full, IInv', NEW p \in Procs, Compose(p) \/ LaunchWorker(p)
  PROVE  Full'
<1>1. /\ actor \in [Actors -> Activity] /\ p \in Actors /\ Procs \subseteq Actors /\ ProcFit(p)
      /\ Worker \in Actors /\ Worker \notin Procs
  BY Ground, ActorGround DEF Full, Actors
<1>2. /\ UNCHANGED <<generations, lock, rawFiles, claims, live, stage, edits>> /\ Desired' = Desired
  BY DEF Compose, LaunchWorker, storeVars, fileVars, Desired
<1>3. ProcFit(p)' /\ \A q \in Procs \ {p} : actor'[q] = actor[q]
  <2>1. CASE actor' = [actor EXCEPT ![p] = Resting, ![Worker].pc = "idle"] \/ Rest(p)
    <3>1. actor'[p] = Resting /\ \A q \in Procs \ {p} : actor'[q] = actor[q]
      BY <1>1, <2>1 DEF Rest
    <3> QED
      BY <3>1, RestFits
  <2>2. CASE /\ actor[p].pc = "compose"
             /\ actor' = [actor EXCEPT ![p].pc = "launch", ![p].target = DigestOf(Desired)]
    <3>1. /\ actor'[p].pc = "launch" /\ actor'[p].job = actor[p].job
          /\ actor'[p].content = actor[p].content
          /\ \A q \in Procs \ {p} : actor'[q] = actor[q]
      BY <1>1, <2>2 DEF Activity
    <3>2. actor[p].content = Absent /\ actor[p].job \in {"load", "loaded", "apply", "replace"}
      BY <1>1, <2>2 DEF ProcFit, RawReads, JobFits, Reading, Reconciling, Pruning, Observing
    <3> QED
      BY <3>1, <3>2, LooseFits DEF JobFits, Held, Pruning, Reconciling, Replacing, Observing
  <2> QED
    BY <2>1, <2>2 DEF Compose, LaunchWorker, At
<1> QED
  BY <1>2, <1>3, CalmStep

-----------------------------------------------------------------------------
(* Whoever writes the live file, a process that dies, and the initial state. *)

\* An edit is written: wherever a process counts on the live file, it counts on the edits too.
LEMMA EditFits ==
  ASSUME Full, IInv', EditLive
  PROVE  Full'
<1>1. live' \in edits' /\ edits \subseteq edits' /\ live' # Absent /\ (Absent \notin edits => Absent \notin edits')
  BY ConfigConstants DEF EditLive
<1>2. /\ UNCHANGED <<generations, claims, rawFiles, stage, lock, actor>> /\ Desired' = Desired
      /\ Incomplete' = Incomplete /\ \A g : DigestOf(g)' = DigestOf(g)
  BY DEF EditLive, storeVars, Desired, Incomplete, DigestOf
<1>3. IntentFounded' /\ ClaimsFree' /\ RawKept'
  BY <1>2 DEF Full, StoreFit, IntentFounded, ClaimsFree, RawKept
<1>4. FilesFit'
  <2>1. \A g \in Incomplete : Exchanged(g)'
    BY <1>1, <1>2 DEF Full, StoreFit, FilesFit, Exchanged
  <2> QED
    BY <1>1, <1>2, <2>1 DEF Full, StoreFit, FilesFit
<1>5. ASSUME NEW q \in Procs
      PROVE  ProcFit(q)'
  <2>1. ProcFit(q)
    BY DEF Full
  <2>2. HoldsLock(q)' /\ JobFits(q)' /\ RawReads(q)'
    BY <1>2, <2>1 DEF ProcFit, HoldsLock, JobFits, RawReads
  <2>3. ASSUME NEW pc, NEW parent, NEW target, ReplacementFits(pc, parent, target)
        PROVE  ReplacementFits(pc, parent, target)'
    BY <1>1, <1>2, <2>3 DEF ReplacementFits
  <2>4. Replaces(actor[q])'
    <3>1. PICK pc, s : s = actor[q] /\ pc = s.pc
      OBVIOUS
    <3>2. CASE pc \in Replacing
      <4>1. PICK g \in Incomplete : /\ generations[g].parent = s.parent /\ DigestOf(g) = s.target
                                    /\ ReplacementFits(pc, DigestOf(Desired), DigestOf(g))
        BY <2>1, <3>1, <3>2 DEF ProcFit, Replaces
      <4>2. PICK parent, target : parent = DigestOf(Desired) /\ target = DigestOf(g)
        OBVIOUS
      <4>3. ReplacementFits(pc, parent, target)'
        BY <2>3, <4>1, <4>2
      <4>4. ReplacementFits(pc, DigestOf(Desired), DigestOf(g))'
        BY <1>2, <4>2, <4>3 DEF ReplacementFits
      <4> QED
        BY <1>2, <3>1, <4>1, <4>4 DEF Replaces
    <3> QED
      BY <1>2, <3>1, <3>2 DEF Replaces
  <2>5. Reconciles(actor[q])'
    BY <1>1, <1>2, <2>1 DEF ProcFit, Reconciles, ReconciliationFits
  <2> QED
    BY <2>2, <2>4, <2>5 DEF ProcFit
<1> QED
  BY <1>3, <1>4, <1>5 DEF Full, StoreFit

\* A process that dies frees the lock, and leaves the files as they are.
LEMMA CrashFits ==
  ASSUME Full, IInv', NEW p \in Procs, Crash(p)
  PROVE  Full'
<1>1. /\ UNCHANGED <<generations, claims, live, stage, edits, rawFiles>> /\ Desired' = Desired
  BY DEF Crash, storeVars, fileVars, Desired
<1>2. lock' = lock \/ (lock \in {Absent, p} /\ lock' \in {Absent, p})
  BY DEF Crash
<1>3. actor'[p] = Resting /\ \A q \in Procs \ {p} : actor'[q] = actor[q]
  BY ActorGround, Ground DEF Full, Crash, Rest
<1> QED
  BY <1>1, <1>2, <1>3, RestFits, CalmStep

\* Nothing is desired, nothing is staged, and every command rests.
LEMMA InitFull == Init => Full
<1>1. SUFFICES ASSUME Init PROVE Full
  OBVIOUS
<1>2. IInv
  BY <1>1, InitInv
<1>3. generations = <<>> /\ claims = {} /\ Desired = 0 /\ Incomplete = {}
  BY <1>1 DEF Init, Desired, Incomplete
<1>4. IntentFounded /\ ClaimsFree /\ RawKept
  BY <1>3 DEF IntentFounded, ClaimsFree, RawKept
<1>5. FilesFit
  BY <1>1, <1>3, ConfigConstants DEF Init, FilesFit, NoStage, Unknown, Contents
<1>6. ASSUME NEW p \in Procs
      PROVE  ProcFit(p)
  <2>1. actor[p] = Resting
    BY <1>1, ConfigConstants DEF Init, Actors
  <2> QED
    BY <2>1
    DEF Resting, ProcFit, HoldsLock, JobFits, RawReads, Replaces, Reconciles, Held, Reading, Pruning,
        Reconciling, Replacing, Observing
<1> QED
  BY <1>2, <1>4, <1>5, <1>6 DEF Full, StoreFit

\* Every step keeps the whole invariant.
LEMMA NextFull == Full /\ [Next]_vars => Full'
<1>1. SUFFICES ASSUME Full, [Next]_vars PROVE Full'
  OBVIOUS
<1>2. StoreStep /\ IInv'
  BY <1>1, NextStep, NextInv DEF Full
<1>3. ASSUME NEW p \in Procs, ConfigStep(p)
      PROVE  Full'
  <2>1. CASE ReadAuthority(p) \/ ReconcileReplacement(p)
    BY <1>1, <1>2, <2>1, ReadAuthorityFits, ReconcileReadFits
  <2>2. CASE RestoreCaptured(p) \/ RereadLive(p) \/ RemoveStage(p) \/ SettleReconciled(p)
    BY <1>1, <1>2, <2>2, RestoreFits, SettleReconciledFits
  <2>3. CASE CheckApply(p) \/ RetainTarget(p) \/ BeginApply(p)
    BY <1>1, <1>2, <2>3, CheckApplyFits, RetainTargetFits, BeginApplyFits
  <2>4. CASE \/ StageTarget(p) \/ SwapLive(p) \/ CheckCaptured(p) \/ VerifyLive(p) \/ SettleApply(p)
    BY <1>1, <1>2, <2>4, ReplaceFits, SettleApplyFits
  <2>5. CASE BindBaseline(p) \/ AdoptBaseline(p)
    BY <1>1, <1>2, <2>5, BindBaselineFits, AdoptBaselineFits
  <2>6. CASE ListPrune(p) \/ ClaimPrune(p) \/ RemoveRaw(p) \/ CompletePrune(p) \/ EndPrune(p)
    BY <1>1, <1>2, <2>6, ListPruneFits, ClaimPruneFits, RemoveRawFits, CompletePruneFits, EndPruneFits
  <2> QED
    BY <1>3, <2>1, <2>2, <2>3, <2>4, <2>5, <2>6 DEF ConfigStep
<1>4. CASE \E p \in Procs : StartCommand(p) \/ StartApply(p) \/ Compose(p) \/ LaunchWorker(p) \/ Crash(p)
  BY <1>1, <1>2, <1>4, StartFits, LaunchFits, CrashFits
<1>5. CASE \E p \in Actors : ObserveStep(p)
  BY <1>1, <1>2, <1>5, LookFits, DriftFits, EffectiveFits DEF ObserveStep
<1>6. CASE StartCheck \/ Reserve \/ FinishRun \/ StopWorker \/ EditLive
  BY <1>1, <1>2, <1>6, WorkerFits, EditFits
<1>7. CASE UNCHANGED vars
  <2>1. UNCHANGED <<generations, claims, rawFiles, live, stage, edits, lock, actor, authority>>
    BY <1>7 DEF vars, storeVars, fileVars
  <2>2. Desired' = Desired /\ Incomplete' = Incomplete /\ Kept(generations, generations')
    BY <2>1 DEF Desired, Incomplete, Kept
  <2>3. Worker \in Actors /\ Worker \notin Procs
    BY <1>1, Ground DEF Full, Actors
  <2> QED
    BY <1>1, <1>2, <2>1, <2>2, <2>3, StoreStill, QuietStep
<1> QED
  BY <1>1, <1>3, <1>4, <1>5, <1>6, <1>7 DEF Next

\* Whenever a generation is desired, its bytes are in the raw directory, and so are both
\* sides of an unsettled intent: no prune, completed claim or refused apply takes them.
THEOREM RawFilesKept == Spec => []RawKept
<1>1. Full => RawKept
  BY DEF Full, StoreFit
<1> QED
  BY <1>1, InitFull, NextFull, PTL DEF Spec

\* Once nothing is unsettled, the live file is the desired configuration or what a third
\* party wrote, however the exchanges before it ended.
THEOREM EditsAccounted == Spec => []LiveAccounted
<1>1. Full => LiveAccounted
  BY DEF Full, StoreFit, FilesFit, LiveAccounted
<1> QED
  BY <1>1, InitFull, NextFull, PTL DEF Spec

\* The swap file of a reconciliation, and of a replacement, before a step that changes it.
LEMMA ExchangeReads ==
  ASSUME Full, NEW p \in Procs
  PROVE  /\ At(p, "stage") => stage.content = Absent
         /\ At(p, "swap") => ~Unknown(stage.content)
         /\ At(p, "captured") => stage.content = DigestOf(actor[p].parent) \/ stage.content \in edits
         /\ At(p, "captured") => ~Unknown(DigestOf(actor[p].parent))
         /\ At(p, "rec_remove") => ~Unknown(stage.content) \/ live \in edits
<1>1. \A g \in DOMAIN generations : ~Unknown(DigestOf(g))
  BY DEF Unknown
<1>2. Desired # 0 => Desired \in DOMAIN generations
  BY Ground DEF Full
<1>3. CASE actor[p].pc \in Replacing
  <2>1. PICK g \in Incomplete : /\ generations[g].parent = actor[p].parent
                                /\ ReplacementFits(actor[p].pc, DigestOf(Desired), DigestOf(g))
    BY <1>3 DEF Full, ProcFit, Replaces
  <2>2. actor[p].parent = Desired /\ g \in DOMAIN generations /\ Desired # 0
    BY <2>1, Ground DEF Full, StoreFit, IntentFounded
  <2> QED
    BY <1>1, <1>2, <1>3, <2>1, <2>2 DEF ReplacementFits, At, Replacing
<1>4. CASE At(p, "rec_remove")
  <2>1. PICK g : g = actor[p].seen.intent
    OBVIOUS
  <2>2. /\ g \in Incomplete
        /\ ReconciliationFits("rec_remove", actor[p].content, DigestOf(Desired), DigestOf(g))
    BY <1>4, <2>1 DEF Full, ProcFit, Reconciles, Reconciling, At
  <2>3. g \in DOMAIN generations /\ Desired # 0
    BY <2>2, Ground DEF Full
  <2> QED
    BY <1>1, <1>2, <1>4, <2>2, <2>3 DEF ReconciliationFits, At
<1> QED
  BY <1>3, <1>4 DEF At, Replacing

\* Every step gives an edit up for another edit only.
LEMMA EditsStep ==
  ASSUME Full, [Next]_vars
  PROVE  Lost # {} => live' \in edits'
<1>1. ASSUME UNCHANGED <<live, stage>> \/ ({live, stage.content} \subseteq {live', stage'.content})
      PROVE  Lost = {}
  BY <1>1 DEF Lost
<1>2. ~Unknown(Absent)
  BY DEF Unknown
<1>3. CASE EditLive
  BY <1>3 DEF EditLive
<1>4. ASSUME NEW p \in Procs, RestoreCaptured(p)
      PROVE  Lost = {}
  BY <1>1, <1>4 DEF RestoreCaptured, Exchange
<1>5. ASSUME NEW p \in Procs, RemoveStage(p)
      PROVE  Lost # {} => live' \in edits'
  BY <1>5, ExchangeReads DEF RemoveStage, Lost
<1>6. ASSUME NEW p \in Procs, StageTarget(p)
      PROVE  Lost = {}
  BY <1>1, <1>2, <1>6, ExchangeReads DEF StageTarget, Lost
<1>7. ASSUME NEW p \in Procs, SwapLive(p)
      PROVE  Lost = {}
  <2>1. CASE Exchange(Own(p))
    BY <1>1, <2>1 DEF Exchange
  <2>2. CASE live' = live
    BY <1>7, <2>2, ExchangeReads DEF SwapLive, Lost
  <2> QED
    BY <1>7, <2>1, <2>2 DEF SwapLive
<1>8. ASSUME NEW p \in Procs, CheckCaptured(p)
      PROVE  Lost # {} => live' \in edits'
  <2>1. CASE live' = live /\ stage.content = DigestOf(actor[p].parent)
    BY <1>8, <2>1, ExchangeReads DEF CheckCaptured, Lost
  <2>2. CASE UNCHANGED <<live, stage>>
    BY <1>1, <2>2
  <2>3. CASE live' = stage.content /\ stage.content # DigestOf(actor[p].parent)
    BY <1>8, <2>3, ExchangeReads DEF CheckCaptured
  <2> QED
    BY <1>8, <2>1, <2>2, <2>3 DEF CheckCaptured, Exchange
<1>9. \/ UNCHANGED <<live, stage>> \/ EditLive
      \/ \E p \in Procs : \/ RestoreCaptured(p) \/ RemoveStage(p) \/ StageTarget(p)
                          \/ SwapLive(p) \/ CheckCaptured(p)
  <2>1. CASE \E p \in Procs : ConfigStep(p)
    BY <2>1 DEF ConfigStep, fileVars, ReadAuthority, ReconcileReplacement, RereadLive, SettleReconciled,
                CheckApply, RetainTarget, BeginApply, VerifyLive, SettleApply, BindBaseline, AdoptBaseline,
                ListPrune, ClaimPrune, RemoveRaw, CompletePrune, EndPrune
  <2>2. CASE \E p \in Procs : StartCommand(p) \/ StartApply(p) \/ Compose(p) \/ LaunchWorker(p) \/ Crash(p)
    BY <2>2 DEF StartCommand, StartApply, Compose, LaunchWorker, Crash, fileVars
  <2>3. CASE \E p \in Actors : ObserveStep(p)
    BY <2>3 DEF ObserveStep, ReadRuntimeAuthority, LookAtLive, ObserveDrift, ObserveEffective, fileVars
  <2>4. CASE StartCheck \/ Reserve \/ FinishRun \/ StopWorker
    BY <2>4 DEF StartCheck, Reserve, FinishRun, StopWorker, fileVars
  <2>5. CASE UNCHANGED vars
    BY <2>5 DEF vars, fileVars
  <2> QED
    BY <2>1, <2>2, <2>3, <2>4, <2>5 DEF Next
<1> QED
  BY <1>1, <1>3, <1>4, <1>5, <1>6, <1>7, <1>8, <1>9

\* No step of a command or of the worker replaces an edit by a configuration of the
\* controller's: an edit is given up only for what a third party wrote as well.
THEOREM EditsGivenUp == Spec => EditsKept
<1>1. Full /\ [Next]_vars => (Lost # {} => live' \in edits')
  BY EditsStep
<1>2. Full /\ [Next]_vars => [Lost # {} => live' \in edits']_vars
  BY <1>1
<1> QED
  BY <1>2, InitFull, NextFull, PTL DEF Spec, EditsKept
==============================================================================
