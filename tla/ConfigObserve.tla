---------------------------- MODULE ConfigObserve ----------------------------
(***************************************************************************)
(* ConfigurationService.ReconcileRuntime, which any command and the worker  *)
(* may run at any time and without the lock, and the gate a new run passes: *)
(* the worker's heartbeat, the check, and the reservation of the store that *)
(* accepts the check's authority only as it was read.                       *)
(***************************************************************************)
EXTENDS ConfigApply

\* CheckNewAdmission, in every cycle of the worker.
StartCheck ==
  /\ At(Worker, "idle")
  /\ actor' = [actor EXCEPT ![Worker].pc = "look", ![Worker].job = "check"]
  /\ UNCHANGED <<storeVars, fileVars, lock, loaded, edits, troubles>>

\* An apply goes on whether the observation succeeded or not.
Ignored(p) ==
  IF actor[p].job = "replace" THEN Rest(p)
  ELSE actor' = [actor EXCEPT ![p].seen = NoSnapshot, ![p].content = Absent,
                   ![p].pc = IF actor[p].job = "apply" THEN "check" ELSE "prune"]

Unobserved(p) == IF p = Worker THEN Rest(p) ELSE Ignored(p)

\* project: only what is ready, and still live, lets a new run in.
Observed(p, seen) ==
  IF p # Worker THEN Ignored(p)
  ELSE IF /\ seen.intent = 0 /\ seen.effective
          /\ live = DigestOf(seen.desired) /\ loaded = DigestOf(seen.desired)
  THEN actor' = [actor EXCEPT ![p].pc = "reserve", ![p].seen = seen, ![p].content = Absent]
  ELSE Rest(p)

\* The worker's heartbeat, stale or not, and the live file.
Runtime(p, seen) ==
  LET exact == /\ seen.intent = 0 /\ loaded = DigestOf(seen.desired)
               /\ live = DigestOf(seen.desired) /\ DigestOf(seen.desired) \in rawFiles
  IN \/ /\ exact
        /\ actor' = [actor EXCEPT ![p].pc = "effective", ![p].seen = seen, ![p].content = Absent]
     \/ (~exact \/ At(Worker, "down")) /\ Observed(p, seen)

\* The authority first, ...
ReadRuntimeAuthority(p) ==
  /\ At(p, "look")
  /\ IF Intent # 0 THEN Observed(p, Snapshot(p))
     ELSE actor' = [actor EXCEPT ![p].pc = "live", ![p].seen = Snapshot(p)]
  /\ UNCHANGED <<storeVars, fileVars, lock, loaded, edits, troubles>>

\* ... then, in observeDriftTransition, the live file.
LookAtLive(p) ==
  /\ actor[p].pc \in {"live", "relive"}
  /\ actor' = [actor EXCEPT ![p].pc = IF At(p, "live") THEN "drift" ELSE "redrift",
                            ![p].content = live]
  /\ UNCHANGED <<storeVars, fileVars, lock, loaded, edits, troubles>>

\* ObserveConfigurationDrift records only transitions.
ObserveDrift(p) ==
  LET seen == actor[p].seen
      now  == actor[p].content # DigestOf(seen.desired)
  IN /\ actor[p].pc \in {"drift", "redrift"}
     /\ IF Desired = seen.desired
        THEN /\ authority' = IF now = authority.drifted THEN authority
                             ELSE [authority EXCEPT !.drifted = now, !.version = @ + 1]
             /\ Runtime(p, seen)
        ELSE /\ IF At(p, "redrift") THEN Unobserved(p)
                ELSE IF Intent = 0
                THEN actor' = [actor EXCEPT ![p].seen = Snapshot(p), ![p].content = Absent,
                                            ![p].pc = "relive"]
                ELSE Runtime(p, Snapshot(p))
             /\ UNCHANGED authority
     /\ UNCHANGED <<generations, claims, active, fileVars, lock, loaded, edits, troubles>>

ObserveEffective(p) ==
  LET seen == actor[p].seen IN
  /\ At(p, "effective")
  /\ IF /\ Incomplete = {} /\ Desired = seen.desired
        /\ generations[Desired].life = "pending_restart"
     THEN /\ generations' = [generations EXCEPT ![Desired].life = "effective"]
          /\ authority' = [authority EXCEPT !.version = @ + 1]
          /\ Observed(p, [desired |-> Desired, effective |-> TRUE,
                          version |-> authority.version + 1, intent |-> 0])
     ELSE UNCHANGED <<authority, generations>> /\ Observed(p, Snapshot(p))
  /\ UNCHANGED <<claims, active, fileVars, lock, loaded, edits, troubles>>

(* ----------------------------- the new run ------------------------------ *)

\* A bug: an apply accepted since the check does not stop the reservation.
FaultyMayReserve(seen) ==
  /\ Desired = seen.desired /\ authority.version = seen.version
  /\ Effective /\ ~authority.drifted

\* requireConfigurationAdmissionAuthorityTx.
MayReserve(seen) ==
  /\ Incomplete = {} /\ Desired = seen.desired /\ authority.version = seen.version
  /\ Effective /\ ~authority.drifted

Reserve ==
  /\ At(Worker, "reserve")
  /\ IF MayReserve(actor[Worker].seen) /\ Cardinality(active) < MaxRuns
     THEN active' = active \cup {loaded} ELSE UNCHANGED active
  /\ Rest(Worker)
  /\ UNCHANGED <<authority, generations, claims, fileVars, lock, loaded, edits, troubles>>

FinishRun ==
  /\ \E r \in active : active' = active \ {r}
  /\ UNCHANGED <<authority, generations, claims, fileVars, lock, loaded, actor, edits, troubles>>

(* ------------------------------ the worker ------------------------------ *)

\* The command has loaded what is desired.  A worker takes its process lock
\* before it runs, with what was loaded.
Compose(p) ==
  /\ At(p, "compose")
  /\ \/ Rest(p)
     \/ /\ Desired # 0 /\ DigestOf(Desired) \in rawFiles
        /\ At(Worker, "down") /\ \A q \in Procs : ~At(q, "launch")
        /\ actor' = [actor EXCEPT ![p].pc = "launch", ![p].target = DigestOf(Desired)]
  /\ UNCHANGED <<storeVars, fileVars, lock, loaded, edits, troubles>>

LaunchWorker(p) ==
  /\ At(p, "launch")
  /\ loaded' = actor[p].target
  /\ actor' = [actor EXCEPT ![p] = Resting, ![Worker].pc = "idle"]
  /\ UNCHANGED <<storeVars, fileVars, lock, edits, troubles>>

\* A worker that ends, or dies, leaves its last heartbeat.
StopWorker ==
  /\ ~At(Worker, "down")
  /\ actor' = [actor EXCEPT ![Worker] = [Resting EXCEPT !.pc = "down"]]
  /\ UNCHANGED <<storeVars, fileVars, lock, loaded, edits, troubles>>

ObserveStep(p) ==
  ReadRuntimeAuthority(p) \/ LookAtLive(p) \/ ObserveDrift(p) \/ ObserveEffective(p)
==============================================================================
