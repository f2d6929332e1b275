----------------------------- MODULE HeavyWork ------------------------------
(***************************************************************************)
(* What the scheduler promises of heavy work (docs/architecture.md, failure *)
(* and recovery), without leases, attempts, rows or processes: at most one  *)
(* run of a repository holds a heavy-work permit; a permit is granted only  *)
(* below the host's capacity; a managed child runs only under its run's     *)
(* permit; and a permit is withdrawn, by a wait, a stop, an end of the run  *)
(* or a restart, only when the run's child has stopped.                     *)
(***************************************************************************)
EXTENDS Naturals, FiniteSets

CONSTANTS Repositories, Tasks, RepositoryOf, Nobody

VARIABLES
  holder,   \* holder[b]: the run holding repository b's permit, or Nobody
  running,  \* runs with a live managed child
  limit     \* the heavy capacity in force

contractVars == <<holder, running, limit>>

Granted == {b \in Repositories : holder[b] # Nobody}
Holds(r) == holder[RepositoryOf[r]] = r

ContractInit ==
  /\ holder = [b \in Repositories |-> Nobody]
  /\ running = {}
  /\ limit \in Nat \ {0}

Grant(r) ==
  /\ holder[RepositoryOf[r]] = Nobody
  /\ Cardinality(Granted) < limit
  /\ holder' = [holder EXCEPT ![RepositoryOf[r]] = r]
  /\ UNCHANGED <<running, limit>>

Launch(r) ==
  /\ Holds(r) /\ r \notin running
  /\ running' = running \cup {r}
  /\ UNCHANGED <<holder, limit>>

Stop(r) ==
  /\ r \in running
  /\ running' = running \ {r}
  /\ UNCHANGED <<holder, limit>>

\* Releases, the end of a run, and the reconciliation of a starting process,
\* which may also bring a new capacity; lowering it takes nothing away.
Withdraw ==
  /\ \E W \in SUBSET Granted :
       /\ \A b \in W : holder[b] \notin running
       /\ holder' = [b \in Repositories |-> IF b \in W THEN Nobody ELSE holder[b]]
  /\ limit' \in Nat \ {0}
  /\ UNCHANGED running

ContractNext ==
  \/ \E r \in Tasks : Grant(r) \/ Launch(r) \/ Stop(r)
  \/ Withdraw

Contract == ContractInit /\ [][ContractNext]_contractVars
=============================================================================
