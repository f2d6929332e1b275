----------------------------- MODULE ConfigState -----------------------------
(***************************************************************************)
(* The controller's configuration: the generations the store keeps, the raw *)
(* files that back them, the live file an operator may edit, and the        *)
(* processes that read and change them.  A configuration is its digest;     *)
(* Foreign are live files the reader refuses.  An operation is named by its *)
(* parent generation and its target digest, so every generation is also the *)
(* receipt of the operation that made it, and an intent is the generation   *)
(* that is accepted or ambiguous.                                           *)
(***************************************************************************)
EXTENDS Naturals, FiniteSets, Sequences

CONSTANTS
  Procs,           \* controller commands: apply, status, start of the worker
  Worker,          \* the running worker
  Digests,         \* valid configurations
  Foreign,         \* contents ReadLive refuses
  Absent,          \* no file, no digest
  Baseline,        \* the live file the controller first finds
  Compatible,      \* <<frozen, candidate>>: candidate keeps what a run admitted under frozen needs
  KeepRaw,         \* ConfigurationRawRetainCount
  MaxGenerations,
  MaxRuns,         \* nonterminal runs
  Edits,           \* contents a third party may write
  MaxTroubles      \* crashes and failing file operations

Actors   == Procs \cup {Worker}
Contents == Digests \cup Foreign

ASSUME ConfigConstants ==
  /\ Worker \notin Procs /\ Foreign \cap Digests = {} /\ Absent \notin Contents \cup Procs
  /\ \A d \in Digests : <<d, d>> \in Compatible
  /\ KeepRaw \in Nat \ {0} /\ MaxGenerations \in Nat /\ MaxTroubles \in Nat /\ MaxRuns \in Nat
  /\ Baseline \in Digests /\ Edits \subseteq Contents

VARIABLES
  authority,   \* configuration_authority: desired and version; drifted when the
               \* last drift event of the desired generation is drift_entered
  generations, \* configuration_generations, by generation_id
  claims,      \* configuration_raw_prune_claims
  active,      \* frozen configurations of the nonterminal runs
  binding,     \* baseline.json and its anchor row
  rawFiles,    \* the raw directory
  live,        \* the live file
  stage,       \* the swap file of an operation: its generation and content
  lock,        \* the mutation lock: its holder
  loaded,      \* the digest the worker's last heartbeat names
  actor,       \* what each process is doing
  edits,       \* the contents third parties have written to the live file
  troubles

storeVars == <<authority, generations, claims, active>>
fileVars  == <<binding, rawFiles, live, stage>>
vars == <<storeVars, fileVars, lock, loaded, actor, edits, troubles>>

Life == {"accepted", "pending_restart", "effective", "superseded", "failed", "ambiguous"}
Unresolved == {"accepted", "ambiguous"}

Desired     == authority.desired
DigestOf(g) == generations[g].digest
Incomplete  == {g \in DOMAIN generations : generations[g].life \in Unresolved}
Intent      == IF Incomplete = {} THEN 0
               ELSE CHOOSE g \in Incomplete : \A h \in Incomplete : h <= g

\* effective_generation_id is written with the lifecycle, and a commit moves
\* desired_generation_id alone: the two are equal as long as this holds.
Effective == generations[Desired].life = "effective"

\* What ConfigurationAuthority reads.
\* Only the worker's gate asks for the last two.
Snapshot(p) == [desired |-> Desired, intent |-> Intent,
                effective |-> p = Worker /\ Effective,
                version |-> IF p = Worker THEN authority.version ELSE 0]

Supported(d) == \A r \in active : <<r, d>> \in Compatible
Referenced   == {DigestOf(g) : g \in {h \in DOMAIN generations : generations[h].raw}}
NoStage      == [gen |-> 0, content |-> Absent]
Staged(g)    == IF stage.gen = g THEN stage.content ELSE Absent

NoSnapshot == [desired |-> 0, effective |-> FALSE, version |-> 0, intent |-> 0]
Resting == [pc |-> "idle", job |-> "none", parent |-> 0, target |-> Absent,
            seen |-> NoSnapshot, content |-> Absent, todo |-> {}]

At(p, s)     == actor[p].pc = s
Step(p, s)   == actor' = [actor EXCEPT ![p].pc = s]
Rest(p)      == actor' = [actor EXCEPT ![p] = Resting]

Trouble   == troubles < MaxTroubles /\ troubles' = troubles + 1
NoTrouble == UNCHANGED troubles

Init ==
  /\ authority = [desired |-> 0, version |-> 0, drifted |-> FALSE]
  /\ generations = <<>> /\ claims = {} /\ active = {}
  /\ binding = Absent /\ rawFiles = {} /\ live = Baseline /\ stage = NoStage
  /\ lock = Absent /\ loaded = Absent /\ edits = {} /\ troubles = 0
  /\ actor = [p \in Actors |-> IF p = Worker THEN [Resting EXCEPT !.pc = "down"] ELSE Resting]
==============================================================================
