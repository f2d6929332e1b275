# TLA+ models of the Agent Loop Controller

The controller (`src/`) admits Linear issues, turns each into a durable *run*,
drives the run through implementation, verification, review, push, pull
request, merge and cleanup, and keeps all of its authority in one SQLite
database.  Several dispatches of one worker process, operator commands in
processes of their own, managed Codex children and crashes all meet in that
database.  These modules model who may do what to a run at a time, and what
survives a crash.

Contents

1. Inventory of the system
2. Modules and how they correspond to the code
3. Runs: what each shows, its bounds, and why they are enough
4. Fairness
5. Proofs
6. Findings
7. What is abstracted, and what is not modelled
8. Plan

## 1. Inventory of the system

### Layers

| layer | directory | keeps |
|---|---|---|
| domain | `internal/domain` | the run state machine, task contracts, evidence types; no state of its own |
| application | `internal/application` | every decision about a run; its only memory is a dispatcher's set of claimed runs and the permit a `Drive` call remembers |
| store | `internal/adapters/sqlite` | all durable state: runs, transitions, attempts, verifications, reviews, leases, scheduling authorities, retry schedules, side effects, admission journal, attention events, receipts, configuration, repository life cycle, onboarding, integrity scans |
| adapters | `internal/adapters/{git,githubapp,linear,codex,process,verifier,configuration,localregistry,bootstrap}` | effects on the outside; process control files |
| commands | `cmd/agentctl` | the automatic worker's loop, the process lock, and one process per operator command |
| upgrade | `internal/localupgrade`, `cmd/local-agentctl-upgrade` | a journal of binary replacement, apart from the controller |

### Components, their state, operations and correctness

**Run state machine** (`domain/state.go`).  State: `runs.current_state`, one of
24.  Operations: `Transition` (compare and set), `BeginRepair`.  Correct when
every durable change is an edge of the table, nothing leaves a terminal state,
and the scheduler's classification (heavy / external / human / terminal) follows
the state in the same transaction.

**Scheduling authorities** (`sqlite/scheduling.go`, schema and trigger in
`store.go`).  State: one repository slot per repository, heavy permits with an
owner nonce and a version, the `run_scheduling` projection, the capacity row.
Operations: `ConfigureHeavyCapacity`, `ReconcileSchedulingAuthorities`,
`AcquireHeavyPermit` (held, adopted, granted, waiting, needs reconciliation),
`ReleaseHeavyPermit`, `DeferSchedulingRun`, reservation with a run's creation,
and the trigger that gives everything up when a run becomes terminal.  Correct
when a slot belongs to a nonterminal run of its repository, a permit is held
only under the slot, grants respect capacity and order, and no permit is
withdrawn under a child that may be alive.

**Leases and attempts** (`store.go`).  A run lease (owner, expiry) separates
processes that change one run; an attempt row is *prepared*, *started* once the
launch is committed, then finished, or keeps *started* with the category
`process_group_exit_unproven`.

**Bounded worker** (`cmd/agentctl/admission_worker.go`).  State: the dispatches
in flight, whether the batch drains, whether an error ends the process.
Operations: fill, collect, drain, exit.  Correct when every dispatch returns, so
that maintenance runs and new dispatches start.

**Dispatcher** (`application/linear_todo_dispatch.go`).  State: claimed runs.
Operations: reconcile and select the next runnable run, claim it, obtain its
permit (`prepareRunPermit`), stop what an earlier process left running
(`ReconcileInterruptedRun`), consult its retry schedule, drive it, settle the
outcome (release, retry, defer), or admit a new issue.  With runs claimed by
siblings it works without the admission lease.

**Production driver** (`application/driver.go`).  State: the permit it
remembers between iterations.  One iteration reads the run, acquires or releases
the permit for the state read, then stops, waits, polls or calls one action.

**Local controller** (`application/local_controller.go`, `services.go`,
`repair.go`).  State: the run, its session, base and candidate commits, its
attempts, verifications, reviews and trusted feedback, the rows of what it owns,
and its directories: an artifact root with a marker and decision files, and a
worktree on a branch of its own.  `continueExpected` is a loop over one handler
per state: artifact root, provisioning, execution by Codex, verification and
commit, fresh review, repair, and the operator's decision; a repair deadline
surrounds it.  Correct when a run becomes `approval_ready` only with the exact
commit that was verified and reviewed after the last repair, when nothing it did
not make is used as its own, and when a crash between two writes is repaired or
stops the run.

**Retry schedules** (`application/retry_schedule.go`,
`sqlite/retry_schedule.go`).  One row per (run, state): scheduled with a count
and a time, attention, or superseded.  Correct when a count never passes its
budget without attention and a stale worker never extends a newer schedule.

**Delivery** (`push.go`, `pull_request.go`, `review.go`, `merge.go`,
`mergeability.go`, `review_reply.go`, `linear_completion.go`, `cleanup.go`,
`driver.go`).  State: one side-effect row per kind and head, the pull request,
approvals and feedback, the merge result, Linear observations, cleanup results,
all bound to an exact head commit.  Correct when an external effect is done at
most once per intent, a replay after a crash reads before it repeats, only the
approved head is merged, and nothing that others wrote is removed.

**Linear Todo admission** (`linear_todo_dispatch.go`, `linear_todo_admission.go`,
`linear_start.go`, `sqlite/linear_todo_admission.go`).  State: the short
admission lease, the journal of each run (reserved, mutation intended, started,
manual intervention), and the side effect of moving the issue.  Operations:
acquire, renew and release the lease, adopt or reserve, advance the journal, the
start service with one bounded retry, abandon.  Correct when one run is made per
issue, Linear is asked at most once per recorded attempt, and local work starts
only after a read that proved the move.

**Operator surface** (`operator_attention.go`, `operator_action.go`,
`operator_retry.go`, `operator_abandon.go`, `operation_receipt.go`).  State:
attention events, one action per event, receipts.  Commands run in processes of
their own; abandon, push recovery, merge acceptance and reconcile do not take
the worker's process lock.

**Configuration** (`configuration_service.go`, `configuration_authority.go`,
`sqlite/configuration_authority.go`, `adapters/configuration/files.go`).  State:
generations (one row per configuration ever accepted, with its life cycle), the
authority row that names the desired and the effective one and carries a version,
apply intents, claims of raw files being pruned; and, outside SQLite, the live
file an operator may edit, a raw copy of each retained configuration, the file an
exchange leaves behind, and one exclusive lock (on the inode of the filesystem
root, which no rename can replace) that all controller processes share.
Operations: adopt a baseline, apply (accept, exchange the live file, settle),
reconcile an intent left behind, observe drift and the worker's heartbeat, gate a
new run, prune raw files.  Correct when the bytes of what is desired, or may
become desired, are never lost, no configuration of the controller's replaces a
third party's edit (of two edits in one exchange the code keeps one, see
Findings), a running run keeps what it was admitted under, and an outcome told is
never changed.

**Repository life cycle, onboarding** (`repository_*.go`, `onboarding.go`).
State: readiness snapshots; removal intents; an onboarding saga with claimed
steps.

**Integrity** (`sqlite/integrity*.go`): scans and rechecks that count rows
breaking the rules of the other components.

**Managed processes** (`adapters/process`): starts a group, records it, stops
it and proves its exit.

### Interactions

    operator commands ──(run lease)──────────────┐
                                                 ▼
    bounded worker ─► Dispatch ─► Drive ─► CommandService ─► LocalController ─► Codex child
        ▲                │           │             │                │
        └── result ──────┘           └── slots, permits, leases, attempts, retries (SQLite)

    LocalController ─(approval_ready)─► delivery handlers ─► GitHub, Linear
        ▲                                    │
        └────────(repairing, new base)───────┘

    controller commands ─(mutation lock)─► live file, raw files, swap file
         │                                     ▲        ▲
         └──► generations, authority (SQLite)  │        └── a third party with an editor
                     ▲                         │
    worker ──────────┴─ CheckNewAdmission ─────┘ ──► reservation of a new run

All sharing goes through SQLite transactions, except the dispatcher's claims (a
mutex inside one process), the process lock (one worker or continue command at
a time), the mutation lock and the files of the configuration, and the children,
which outlive the process that started them.

### What is hard here

- A transaction of one dispatch (reconciliation above all) rewrites the rows of
  runs other dispatches are driving.
- `Drive` remembers a permit across iterations, and the row may be replaced
  behind it.
- A crash leaves a child, its attempt, its lease and its permit; the next
  process must stop the child before it uses the permit.
- Lease expiry says nothing about the child's exit.
- A dispatch that never returns stops the whole worker, because nothing is
  started while a batch drains, not even for a run whose turn it is.
- Operator commands act on a run while the worker drives it.
- A request to GitHub or Linear takes effect and its answer is lost, or it takes
  effect later than the next read.
- Humans, GitHub and Linear move between any two steps of a delivery handler.
- A repair makes a new head while evidence, approvals and replies name an old one.
- A crash falls between a write to the disk or to the worktree and its row, and
  somebody else makes the path between a look at it and its use.
- The configuration lives in SQLite and in a file anybody may edit; the check that
  admits a run, an apply and a reconciliation each read both, one after the other.
- A step with several effects fails half way: abandonment whose child stop
  fails, a launch committed without a process, a transition without its
  attention event.

PROJECT.json lists each of these at its line, with the properties about it.

## 2. Modules

| module | models | correspondence |
|---|---|---|
| `RunState` | `domain/state.go`, the classification of `application/scheduling.go` | the 24 states and their edges verbatim; `Phase` is the quotient the scheduler uses, and `PhaseStep` is derived from the full table |
| `Scheduling` | the store's scheduling, lease and attempt transactions | one operator per transaction; guards in the code's order; the trigger is part of every terminal transition |
| `SchedulingProofs`, `SupervisorProofs`, `RetryScheduleProofs` | proofs about `Scheduling`, `Supervisor` and `RetrySchedule` | |
| `HeavyWork` | the contract: who may run heavy work | three variables, no rows or processes |
| `Supervisor` | worker, dispatcher, driver, local controller, abandon and resume commands, crashes | one action per store transaction or child event; `wk[w]` is a goroutine with its program counter and locals |
| `RetrySchedule` | the retry schedules of one run, its dispatches, the attention outbox, the operator's retry | one action per store transaction; `d` is the dispatch in progress with its locals, `op` the operator's process |
| `Admission` | the admission path of `Dispatch` and the start service | one action per store transaction or request to Linear; `d[w]` is a dispatch with its step and locals |
| `AdmissionProofs` | proofs about `Admission` | |
| `LocalState`, `LocalWorkspace`, `LocalExecute`, `LocalReview`, `LocalLoop` | the loop of the local controller: frame and state, artifact root and provisioning, attempts and decisions, verification and review and repair, the loop and its environment | one action per durable write of a handler; `ctl` is the handler in progress |
| `LocalLoopProofs` | proofs about `LocalLoop` | |
| `DeliveryState`, `DeliveryPublish`, `DeliveryReview`, `DeliveryMerge`, `DeliveryFinish`, `Delivery` | delivery: state, push and pull request, GitHub reconciliation and replies, merge, Linear completion and cleanup, the moves of others | one action per store transaction or request; `job` is the handler in progress |
| `DeliveryProofs` | proofs about `Delivery`, and that it implements `MergeGate` | |
| `MergeGate` | the promise of delivery: who merges what | five variables, no rows or requests |
| `ConfigState`, `ConfigApply`, `ConfigObserve`, `Configuration` | the configuration: state, commands (baseline, reconcile, apply, prune), observation and the gate of new runs, crashes and edits | one action per store transaction, file operation or read; `actor[p]` is a process with its position and locals |
| `ConfigurationProofs`, `ConfigurationFileProofs` | proofs about `Configuration`: its rows, and its files | |
| `MCScheduling`, `MCSupervisor`, `MCRetry`, `MCAdmission`, `MCLocalLoop`, `MCDelivery`, `MCConfiguration` | constants of the runs | |

`Supervisor` EXTENDS `Scheduling`: its actions are the store's operators called
with the owner nonce of the running process, plus the process's own state.
`StoreSpec` in `Scheduling` is the most liberal client: any operation, any
owner, any version, in any order, so what it preserves holds of every program
over the store.

Variables of `Scheduling`:

| variable | code |
|---|---|
| `phase[r]` | class of `runs.current_state`; "absent" before the run exists |
| `attn[r]` | an operator attention event exists for the latest transition |
| `lease[r]` | `lease_owner`, `lease_expires_unix` |
| `attempt[r]` | status of the run's unfinished attempt |
| `slot[b]`, `permit[r]`, `sched[r]`, `capacity` | `repository_slots`, `heavy_permits`, `run_scheduling`, `heavy_capacity_authority` |
| `now` | the clock |

Program counters of a dispatch goroutine in `Supervisor`:

    idle → scan → claim → prepare → (recover → stop → finish →) check
         → drive ⇄ act / (enter → leasing → local → launch → spawn → running → local → leave)
         → exit → settle → (defer →) done → idle

`scan` to `check` is `Dispatch` up to `resume`; `drive`, `act` and `exit` are
iterations and the deferred release of `Drive`; `enter` to `leave` is
`CommandService.Continue` with the `LocalController` below it; `settle` is what
`Dispatch` does with the outcome.  `scan → admit → enter` is the path of a new
issue.  A crash resets every goroutine and keeps the store and the children.

`RetrySchedule` EXTENDS `RunState` and works on the run's real states, since a
schedule belongs to a (run, state).  It is not composed with `Supervisor`, which
keeps only the status of the present state's schedule.  One dispatch at a time
is what the dispatcher's claim and the worker's process lock give; the operator's
retry, decision and abandon run beside it.  Program counters of a dispatch:

    idle → gate → drive → (clear) → idle
                    └─ reread → settle → (notify) → idle

`gate` is the reading of the run's schedule (attention, not yet due, due, not
readable); `drive` moves the run along the transition table; `clear` deletes the
schedule the drive was made under; `reread` and `settle` are `currentRetryRun`
and `handleRunFailure` / `markRetryAttention`; `notify` appends the attention
event.  `path` tells the dispatch under the admission lease from the one
without, which differ in what they do when the run has moved.  Its variables:

| variable | code |
|---|---|
| `state`, `seq` | `runs.current_state`, the sequence of its last transition |
| `rows[p]` | the row of phase `state_p` in `automatic_retry_schedules`; `wait` is the time left until `next_eligible_at`, `stamp` is `attention_at` |
| `outbox`, `current` | `operator_attention_outbox`, and its latest event |
| `up`, `crashes` | the worker process: running, crashed, or ended by a dispatch error |

`HeavyWork` is the contract `docs/architecture.md` describes: a permit is granted
below capacity, children run under it, and it is withdrawn only when the child has
stopped, also at the end of a run.  `Supervisor` implements it under the refinement
mapping in `HeavyWorkContract`: the holder of a repository is the run with a permit,
the running tasks are the runs with a live child, the limit is the capacity.
Adoption, leases, retries and reconciliations without effect on permits are
stutters.  One kind of step is no step of the contract, and `ForcedEnd` names it: a
run with a live child becomes terminal, because an operator abandons it although the
stop of its child failed, or because an attempt has been marked as one whose exit
is not proven.  So there are two statements.  `ContractUnlessForced` says that every
other step keeps the contract whatever fails; `ImplementsContract` that all of
`Supervisor` implements it, which is so where stops are proven (`StopsProven`).  Run
`worker_abandon` shows the forced end against the documented promise.

### Admission

Two or more dispatches, the crash of the process that owns them, and Linear.  A
dispatch walks

    idle → select → resume → adopt_renew → adopt ──────────────────┐
              └→ scan_renew → scan → read_renew → reserve_renew    │
                   → reserve → permit → start_renew ◄──────────────┘
    start_renew → intent → mutation_renew
       → read → begin → (retry →) claim → mutate → reread → observe     the start service
       → after_renew → mark → local_renew → release → local → idle

and leaves it through `stop_effect`, `stop_run` and `fail`.  Each `…renew` is a
compare-and-set of the lease; a dispatch that has lost it returns, and what it
reports goes to the run only while the lease is its own.

| variable | code |
|---|---|
| `lease` | `linear_todo_admission_lease`; no row is version 0, so versions begin anew |
| `run`, `since`, `parked` | `runs.current_state`, `run_scheduling.runnable_since`, the retry schedule in attention |
| `journal`, `side` | `linear_todo_admission_journal.status`, the side effect `linear_move_to_started` |
| `told` | an attention event about the run exists |
| `issue`, `late`, `sent` | Linear: the issue, requests that may still be applied, requests made |
| `epoch` | the process; all its dispatches share one owner nonce |

`Supervisor` has the same path as one step (`scan → admit → enter`): it is about
what happens to permits and children, `Admission` about the issue.

### Local controller

The run's lease admits one controller, so one handler runs at a time.  `ctl.at`
is the next durable thing it does, or the next look at something others can change.
A failing call sends it to `retry` or to `error`, where the deadline is enforced
before the loop returns: after an error of a retryable class the worker calls again,
after any other the run is `parked` (`ClassifyAutomaticRetryFailure`, and
`AttentionKept` of `RetrySchedule`), so nobody looks at its deadline either.

    loop → root → root_reserve → root_make → root → root_write → root     received
    loop → provision → reserve_worktree → make → add → set_workspace → own_branch → own_worktree → provisioned
    loop → execute → (recover → recovered | lost →) launch → child → save_session → finish → apply
    loop → accept → accepted                                the operator's decision
    loop → verify → precommit → commit → set_candidate → check → verified
    loop → review → review_launch → review_child → review_finish → review_save → judge → (bind →) handoff
    loop → approve                                          validation of approval_ready

| variable | code |
|---|---|
| `st`, `cand`, `session`, `workspace` | the run's row |
| `rows` | `owned_resources` |
| `log` | what the transitions record: the heads repairs began from, the decisions accepted |
| `attempts`, `batch`, `review`, `fb` | `attempts`, `verifications`, `reviews`, `trusted_review_feedback` |
| `disk`, `commits` | the artifact root and its marker, the worktree, the branch, where others have put something; the commits with parent and subject |
| `expired` | the repair deadline has passed |

The root is looked at once (`LookAtRoot`), then reserved and made; `Provision` looks
at the worktree's path and branch and fetches, `AddWorktree` runs git.  Somebody else
may make either directory in between (`ForeignDirectory`), empty or not, and as in
the code an empty one at a reserved path is taken over.

Times are compared by the code only with the last repair and the last decision,
so a record carries how many of them it has seen (`round`, `repairs`).

### Delivery

The run's claim admits one handler.  `job.at` is its next call; `seen` is what a
read of GitHub, Linear or the branch returned and the handler has not acted on
yet, so every read is stale when used.  `hub` is what a read would find, and
`OutsideStep` changes it: checks end or are rerun, somebody pushes, closes,
merges, approves, requests changes, dismisses, resolves, comments, deletes the
branch, completes or cancels or edits the issue.

| variable | code |
|---|---|
| `st`, `head`, `outside` | the run's state and candidate head, the reason of a manual stop |
| `side`, `posts`, `policy` | `side_effects` by kind and head, posts of a reply, the review topology kept with a refused merge |
| `pr`, `approval`, `fb` | `pull_requests`, `human_approvals`, `review_feedback` |
| `merge`, `owned`, `linear`, `cleanup` | `merges`, `owned_resources`, `linear_completion_observations`, `cleanup_results` |

A repair is one step of this module (`Repair`: the head moves on by one, or the
run stops); the local controller's own steps are in `LocalLoop`, which in turn
sees delivery as `RequestRepair` and `FeedbackDrift`.

`MergeGate` says what delivery promises: a controller merges at most once, only
a commit a human signed, records nothing but what is merged, and is done only
after that.  `Delivery` implements it with

    signed <- hub.signed, merged <- the head of a merged pull request, by <- hub.by,
    recorded <- merge.head, done <- st = "completed"

### Configuration

Processes that run a command, the worker, and a third party with an editor.  A
process walks

    idle → read ─────→ look → live → drift → (relive → redrift →) (effective →) check   apply
             │           ▲
             ├→ reconcile → (rec_swap → rec_reread →) (rec_remove →) rec_settle → prune
             └→ bind → adopt → prune                                          the first start
    check → apply_lock → begin → stage → swap → captured → verify → settle → look → prune
    prune → (prune_claims →) prune_more → compose → launch                     the worker's start

and the worker `idle → look → live → drift → … → reserve → idle` in every cycle;
`look` reads the authority, `live` the live file.  What
is done to files is done under `lock`, which is tried, never waited for, and
which the kernel frees when its holder dies; the observations and the worker's
check take no lock.  `seen` and `content` are what a process read, so a step that
uses them is stale by as much as the others have done since.

| variable | code |
|---|---|
| `authority` | `configuration_authority`: desired generation and version; `drifted`: the last drift event of the desired generation |
| `generations` | `configuration_generations` with `configuration_apply_intents`: digest, parent, life cycle, `raw_retained` |
| `claims` | `configuration_raw_prune_claims` |
| `active` | the frozen configurations of the nonterminal runs |
| `binding`, `rawFiles`, `live`, `stage` | `baseline.json`, the raw directory, the live file, `.agentctl-config-swap-…` |
| `lock` | the flock of `AcquireMutation` |
| `loaded` | the digest in the worker's last heartbeat |
| `edits` | no state of the program: what third parties have written to the live file so far |

A configuration is its digest, and an operation is its parent generation and its
target digest, which is what `configurationApplyReceiptFor` derives the operation
id from.  `effective_generation_id` is not a variable: it is written in the
transaction that makes the desired generation `effective` and in no other.

`Admission` has the gate as a free refusal of a candidate; `Configuration` has
the admission as `StartCheck … Reserve`.  The reservation's transaction is where
the two meet: `MayReserve` is `requireConfigurationAdmissionAuthorityTx`.

## 3. Runs

| run | instance | shows |
|---|---|---|
| `sched_shared` | 2 runs of one repository (one from an older database), 2 owners, capacity up to 2, clock to 1, versions to 2 | slots and permits stay with the run entitled to them under quarantine, adoption, reconciliation and the terminal trigger; no permit is taken from a launched attempt |
| `worker_one_run` | 1 run, 2 goroutines, 2 process starts, crash, failing drives, unproven stops, abandon and resume | a live child is always covered by a permit, is alone, is launched only under lease, permit and claim; recovery precedes driving; the contract is kept but for forced ends |
| `worker_two_runs` | 2 runs of 2 repositories, capacity 1, 2 process starts, crash | the contract across siblings: one dispatch's reconciliation, adoption and grants never give away what another's child runs under; grants respect the capacity and the waiting order (for changing capacities: theorem `SupervisorGrants`) |
| `worker_abandon` | 1 run, unproven stops and the abandon command | a counterexample to the documented release after a proven stop |
| `worker_starved` | 2 runs of 2 repositories, capacity 1, 2 goroutines, no fault, fairness | a counterexample to the documented service of an idle repository |
| `retry` | 1 run over 6 states, 2 retries with a doubled delay, classes process start and terminal, both paths, 1 crash, operator retry, decision and abandon, fairness | a retry is driven exactly under the schedule that made it due; the budget bounds automatic attempts; a grant follows a report; attention is lifted by nobody but the operator; a scheduled retry is made, a parked run is reported |
| `admission` | 2 issues of 2 repositories, 2 dispatches, 2 process starts, 2 faults of any of ten kinds, fairness | Linear is asked at most once per recorded attempt and only under a durable intent; local work rests on a proven move; an abandoned run is left alone; the first run in order is started, stopped or reported |
| `local` | 4 commits, 2 repairs, 1 decision, 9 attempts, 1 fault of any of seven kinds, directories others make, the deadline, fairness | an approved run has its exact head verified and reviewed after the last repair; candidates are the controller's own commits; outcomes are those of attempts made after the last repair and decision; no directory with contents of somebody else is used; repairs end or the run is parked |
| `delivery` | 2 heads, 3 reviews, 2 posts, 2 Linear observations, 1 fault, every move of others, fairness | merges are authorised, replies are made once and before the merge, each state rests on the evidence for the current head, a completed run is delivered, foreign commits are kept, `MergeGate` is implemented, and an undisturbed run leaves the states the driver works in |
| `configuration` | 2 commands and the worker, 2 valid configurations, 2 contents a third party writes, 3 generations, 1 retained raw file, 1 run, any number of edits, 1 crash or failing operation | raw files of what is or may become desired survive pruning, crashes and refused applies; no configuration of the controller's replaces an edit; a run's configuration and the apply's acceptance exclude each other; outcomes are final |
| `edit_lost` | 1 command, 2 generations, 2 contents a third party writes, no fault | a counterexample to the documented restoration of a concurrent edit |
| `merge_lost` | see Findings | a counterexample |

No run repeats the type invariants that `SchedulingProofs`, `AdmissionProofs`,
`LocalLoopProofs` and `DeliveryProofs` prove; those of `RetrySchedule` and
`Configuration` are parts of their inductive invariants (`Rows`, `Dispatching`;
`StoreTyped`, `ActorTyped`).

Bounds, each in the guards or constants: `MaxTime` (clock), `MaxVersion`
(permit versions), `MaxEpoch` (starts of the worker), `MaxCapacity`.
Live children need none: there is at most one of a run (`SingleChild`).

*Why they are enough.*  Every rule of the store is about one run, a pair of
runs of one repository, or a pair competing for capacity: two runs exhibit all
three.  Adoption needs an old and a new owner: two owners, two process starts.
A lease expires after one tick (`LeaseTTL` = 1), so one tick separates a live
from an expired lease, an eligible from an ineligible run and a pending from a
due retry.  A version is used again after one deletion, so two or three suffice;
`MCOne` allows four since a resumed run is granted permits repeatedly.  The
worker keeps one goroutine more than its capacity, which the assumption
`WorkersAssumption` states.

In `RetrySchedule`: `MaxSequence` bounds durable transitions, `MaxStamp`
attention records, `MaxCount` the count an operator retries from, `MaxCrashes`
crashes; `Visited` is the part of the state machine the instance walks.  Rules
about a schedule involve its own state, the state the run has moved to and the
state it is announced in: the verification states, a human wait, manual
intervention, a state that is retryable by the operator and the terminal one
give each a representative.  `MaxAttempts` 2 makes the first failure a retry, the
second one with a longer delay, and the third an exhaustion.

`admission`: a stale lease needs another dispatch to take it, so two dispatches;
the rules about a repository and the choice of the first run need two issues.
Two faults together are, for instance, a lost answer and a crash, or an expiry
and a late request.  Each process start is a new owner, two suffice for an old
and a new one.

`local`: two repairs are needed for feedback on a repaired head and for evidence
of an earlier repair; a decision makes a resume; four commits are the first, two
repairs and one that a fault adds.  Directories of others are not counted among the
faults, so they meet a crash between the reservation and the making of a path,
without which nothing foreign is ever taken over.

`delivery`: an approval or a reply can be stale only when there is a second head, so
two heads; three reviews let a human change his mind about the second.  A foreign
push counts as a fault, and so do a crash, a failed call and a late move: the run
has one of them at a time.  Two in one behaviour, and a post that fails twice, are
left to `DeliveryProofs`, which has every safety property of the run for any number.

`configuration`: a stale read needs one process between another's steps, so two
commands and the worker.  Three generations are the baseline, an apply and an
apply back, which is the shortest history in which the digest of a settled
generation becomes desired again, and with one retained file the second apply
already prunes.  Two contents of a third party are a first edit and one that
replaces it; both are refused by `ReadLive`, so a third party that writes a valid
configuration is covered by the theorems only.  `Compatible` lets a run admitted
under `a` continue under `b` and not the other way round, so an apply can be refused for a run.  The fault is, for
instance, a crash after an exchange, or a failing synchronisation of its
reconciliation; both in one behaviour are left to `ConfigurationFileProofs`.  The version
is only compared with the one the worker last read,
which `VIEW` says; the two commands are interchangeable (`SYMMETRY`).

`sched_shared`, `admission`, `configuration` and `edit_lost` check deadlock.  The others do not: their clock,
process starts, transitions, attempts or moves of others are bounded, so the
modelled system stops there without that being the program's; and a delivered,
failed or stopped run really is at rest.  Goroutines are interchangeable (`SYMMETRY`);
runs are not, since the scheduler orders them, and liveness runs use no symmetry.

## 4. Fairness

`FairSpec` of `Supervisor`, under which `worker_starved` is a counterexample, assumes
weak fairness of filling the batch, of each goroutine's next
step, of children's exits, of the clock and of restarting a stopped worker
(launchd).  Go schedules every runnable goroutine; children have timeouts.
Strong fairness is assumed of two choices the model leaves open: that external
polling ends in a wait (`ActWait`: `Drive` calls an action only while the
delivery step has something to do) and that heavy work leaves for another phase
(`LeavesHeavyWork`: repair rounds and transition counts are limited by policy).
Crashes, errors and operator commands are never fair.

`FairSpec` of `RetrySchedule` assumes weak fairness of the worker's steps, of
its restart (launchd) and of time.  That the worker goes on is one assumption
for all its steps, so a drive is not required to end in any particular way; it
is bounded by `MaxSequence`.

`FairSpec` of `Admission` assumes it of each dispatch's next step, which includes
starting the next dispatch (the worker polls), and of the expiry of leases.  That
a late request is ever applied, that a human moves an issue, and all faults are
left open.

`FairSpec` of `LocalLoop` assumes it of the controller as a whole and of the repair
deadline, which is a time.  That the worker calls again is assumed only of a run
it does call again: after a crash, after a return, and after an error of a retryable
class.  A run with any other error behind it is parked, `Continue` is not enabled,
and `RepairEnds` says of it no more than that.  `FairSpec` of `Delivery` assumes it
of the driver's steps together; nothing that GitHub, Linear or a human does is
assumed, so `DeliverySettles` says only that the run reaches a state in which others
have to move, as long as none of them has taken something away it rests on
(`Disturbed`).

## 5. Proofs

`SchedulingProofs` proves, for every set of runs, repositories and owners and
every bound, of the most liberal client `StoreSpec`:

| theorem | property |
|---|---|
| `TypeCorrect` | `TypeOK` |
| `SlotsAuthorized` | `SlotAuthority` |
| `PermitsUnderSlots` | `PermitUnderSlot` |
| `ActiveKeepsSlot` | `ActiveOwnsSlot` |
| `StartedPermitsKept` | `StartedKeepsPermit` |
| `GrantsOrdered` | `GrantsWithinCapacity` |

The inductive invariant is

    StoreInv == TypeOK /\ SlotAuthority /\ PermitUnderSlot /\ ActiveOwnsSlot

`PermitUnderSlot` needs `SlotAuthority`: a reconciliation first deletes the
slots of terminal runs, and only because no terminal run holds one
(`ReconcileKeepsSlots`) does every permit keep the slot it stands on.
`ActiveOwnsSlot` needs both: a reservation writes the slot, so it must have been
free, which for a nonterminal run of this version it is not.  There is one lemma
per transaction that can disturb the invariant (adopt, grant, reserve,
transition, reconcile) and a frame lemma for the rest; the action properties
follow from the invariant's type part and the same case analysis, with a lemma
on the number of permits (`FiniteSetTheorems`) for the capacity.

`SupervisorProofs` proves, of `Spec` in `Supervisor`, for any set of runs and
repositories, any number of goroutines, process starts and children, and any
faults:

| theorem | property |
|---|---|
| `StoreAuthorities` | `TypeOK`, `SlotAuthority`, `PermitUnderSlot`, `ActiveOwnsSlot` |
| `ChildrenCovered` | `ChildCovered` |
| `OneChild` | `SingleChild` |
| `LaunchesAuthorized` | `LaunchAuthority` |
| `RecoveredBeforeDrive` | `RecoveryBeforeDrive` |
| `SupervisorGrants` | `GrantsWithinCapacity` |
| `SupervisorKeepsStarted` | `StartedKeepsPermit` |
| `SupervisorKeepsContract` | `ContractUnlessForced` |
| `ContractWhereStopsProven` | `ImplementsContract`, assuming `StopsProven` |

    SupInv == StoreInv /\ Shape /\ Alone /\ Commanded /\ WorkersFit /\ RunsFit

`StoreInv` is the invariant above: the worker and the commands perform the
transactions of `StoreSpec`, some of them together (a start configures and
reconciles, an abandonment ends the run and its lease), so most of its lemmas
serve again.  The safety of children is in
`RunsFit`, which is about each run whoever dispatches it: a live child has a
started attempt, and a started attempt has the permit, until the run is terminal.
To launch a child one must know there is none, and that knowledge is in
`WorkersFit`: what each position of a goroutine says of its run, above all
`Fresh` after recovery (a started attempt belongs to a goroutine of this process,
one whose kill was unproven keeps its permit with this process).  It survives
the steps of siblings because a run is dispatched by one of them (`Alone`), because
a live lease keeps the operator's commands out (`Commanded`), and because
reconciliation and adoption spare the permits of this process.  The frame lemmas say
that once for every kind of step: `StepFits`, `QuietFits`, `AttemptStep`,
`TransitionFits`, `SelectFits`, and `ApartFits` for the goroutines of other runs.

`RecoveryBeforeDrive` does not say that a run that is driven has no attempt of
unproven exit: with three goroutines a sibling that selected the run before may
claim it after another's kill stayed unproven, and drive it.  Nothing is lost by
that, since the permit is with this process and `execute` refuses a new attempt
beside an unproven one (`local_controller.go:997`, `2421`), and this is what
the property says.

The refinement classifies what a step does to permits and children: nothing or
less (`Wanes`, which spares runs with a started attempt), one permit more
(`Gains`), one running run more or less (`Launches`, `Stops`), or a run's end with
its permit (`Ends`); every action has one of these effects (`EveryEffect`), and they
are `Withdraw`, `Grant`, `Launch` and `Stop` of `HeavyWork`, except an end under a
live child, which is shown to be a `ForcedEnd`.  For the second theorem
an attempt is never unproven and a command never commits past a failed stop.  The two
action properties of the store follow from the same classification.  The
mapping takes the permit's holder of a repository, which is a function only
because of `PermitUnderSlot` (`HolderIs`); that the holders are within the limit
is an injection of them into the permitted runs (`HoldersCounted`).

`RetryScheduleProofs` proves, of `Spec` in `RetrySchedule`, for any set of
visited states, any classes of failures, any policy and any bounds:

| theorem | property |
|---|---|
| `RetriesUnderSchedule` | `DrivenUnderSchedule` |
| `AttentionPermanent` | `AttentionKept` |
| `AttemptsWithinBudget` | `AttemptsBounded` |
| `GrantsAreAnnounced` | `GrantAnnounced` |

The invariant `RetryInv` of the first two adds three facts to `DrivenUnderSchedule`: an attention
has no time left to wait for (so the clock leaves it alone), a missing schedule
counts no attempt (so a dispatch that read none drives with count 0), and a
worker that is not running dispatches nothing (so a restart finds no drive).
What remains is one case per action; recording a failure has a lemma of its own,
`FailureWrites`.

The two properties of the budget have an invariant each, which adds to
`RetryInv` only what it needs.  `Counted`: a schedule still to be driven is
within the budget plus the operator's grants of its state, one that has failed
exceeds it by at most one (a grant in progress is not yet among the grants done,
so applying it makes room for the attempt it allows).  `Announced`: whoever asks for a
grant has read an announcement, and the chain back from there is long: the
event's row ran out in the state it names (`RanOut`), a row that ran out twice
was announced the first time (`Told`), because the second time it was driven
under a grant; and the outbox forgets nothing.  The module proves nothing of how long a delay is: it is a recursive function
of the attempt, whose values the prover cannot reach.

`AdmissionProofs` proves, of `Spec` in `Admission`, for any finite set of issues
over any repositories, any workers, process starts and faults:

| theorem | property |
|---|---|
| `TypeCorrect` | `TypeOK` |
| `RequestsWithinAttempts` | `RequestsCovered` |
| `WorkAfterProof` | `WorkProven` |
| `AbandonedLeftAlone` | `AbandonedStaysAlone` |

    AdmissionInv == TypeOK /\ ClaimsApart /\ DispatchBacked /\ IssueBacked

Neither property is about the lease, and the proof shows why it need not be: a
lease can be lost at any step and its version used again by a sibling.  What
holds the argument is that the steps of the start service are reached only with
the journal at `mutation_intent` (`DispatchBacked`), which no other dispatch can
change, because a claimed run is claimed once (`ClaimsApart`) and abandonment is
refused there.  So an effect in `in_flight` belongs to one dispatch and has a
request to spare, and after a crash, which forgets the claim, the effect is no
longer `intent` and nobody claims it again (`IssueBacked`).

`LocalLoopProofs` proves, of `Spec` in `LocalLoop`, for any numbers of heads,
repairs, decisions, attempts and any faults:

| theorem | property |
|---|---|
| `TypeCorrect` | `TypeOK` |
| `ApprovalsBacked` | `ApprovalBacked` |
| `CandidatesOwned` | `CandidateOwned` |
| `ForeignContentsUnused` | `NoForeignContents` |
| `OutcomesHonoured` | `OutcomeHonoured` |
| `FeedbackAnswered` | `FeedbackRepaired` |

    LocalInv == TypeOK /\ Records /\ Backed(st) /\ Working

`Records` is about the store and the worktree whoever is at work: a candidate is
acceptable, no attempt is of a later round than the present one, a workspace has
its row and its branch.  `Backed(s)` is what a run in state s has behind it.
`Working` has one part per handler: what it relies on at each of its positions,
for instance that the attempt it will apply was begun in the present round.  A
crash only leaves `Working` behind, which is why it disturbs nothing.  The lemmas
before the case analysis say what the recurring shapes of a step preserve
(`Rests`, `Went`, `Noted`, `RowKept`, `DiskKept`, `Begun`, `Settled`,
`HeadMoved`); then there is one lemma per group of actions.

Feedback outlives the candidate that answered it, so `FeedbackRepaired` needs the
past: `FeedbackInv == Chronological /\ Placed /\ \A h : Answered(h)`.  `Answered`
keeps with every answered head the commit made from it and says where that commit
is now (the candidate, or repaired since), `Chronological` that repairs begin from
ever later heads, so that an old answer is never the candidate again, and `Placed`
that no handler reviews a head whose review could be used as it is, so that the
review of the answer is not replaced by a worse one.

`ConfigurationProofs` proves, of `Spec` in `Configuration`, for any processes,
any digests and compatibility between them, any number of generations, runs,
edits and faults:

| theorem | property |
|---|---|
| `RunsSupported` | `ActiveRunSupported` |
| `OutcomesStand` | `OutcomeFinal` |

    IInv == StoreInv /\ ActorInv

`StoreInv` is the types of the rows, `Lineage` (the desired generation awaits a
restart or is effective, nothing exists before the first one, and at most one
generation is unsettled) and `ActiveRunSupported` itself.  `Lineage` is what the
two properties share: an acceptance looks at the active runs and at the one
desired digest, and while its generation is unsettled the gate admits nobody, so
the settlement that makes it desired finds only runs the acceptance looked at.
`ActorInv` is what the locals of each process still say of the rows when they are
used: `ReadsStand` (the intent and the desired generation a process read still
exist, and a replacement under way has a generation of its own), `WorkerReads`
(when the worker asks for a run, the digest it was started with is that of the
desired generation it read, so the gate compares the digest it will run under)
and `OneLaunch` (at most one command is about to become the worker, and only
while there is none).  The lock is in no part of `IInv`: these two properties do
not need it.

`ConfigurationFileProofs` proves those that do, of the same specification:

| theorem | property |
|---|---|
| `RawFilesKept` | `RawKept` |
| `EditsAccounted` | `LiveAccounted` |
| `EditsGivenUp` | `EditsKept` |

    Full == IInv /\ StoreFit /\ \A p \in Procs : ProcFit(p)

`StoreFit` is about the rows and the files: an unsettled intent changes the
desired generation and, like it, keeps its raw file (`IntentFounded`), no claim to prune is on the
digest of either (`ClaimsFree`), and the live file and the swap file are in one
of the three arrangements an exchange can leave (`Exchanged`), in each of which
the live file may be an edit.  `ProcFit` is about a
process that changes them: it holds the mutation lock (`HoldsLock`), and so what
it has read stands until it lets go: the raw file it will accept, the claims it will
remove, the intent it replaces the live file for or reconciles
(`ReplacementFits`, `ReconciliationFits`).  A crash frees the lock and
forgets the process, and leaves one of the arrangements behind.  Edits may come
between any two of these steps, as many as anybody likes, so each says what it finds
if they did.  `EditsKept` is a property of steps: only the two exchanges and the
removal of the swap file can lose content, and an exchange back takes out of the live
file either the target, which the operation named, or an edit, and then the captured edit
is live again.

`DeliveryProofs` proves, of `Spec` in `Delivery`, for any numbers of heads,
reviews, posts and observations, any moves of others and any troubles:

| theorem | property |
|---|---|
| `TypeCorrect` | `TypeOK` |
| `MergesAreAuthorized` | `MergeAuthorized` |
| `RepliesOnce` | `OneReplyPerRoot` |
| `RepliesBeforeMerge` | `ReplyBeforeMerge` |
| `EvidenceIsChained` | `EvidenceChain` |
| `CompletionIsDelivery` | `CompletedMeansDelivered` |
| `ForeignCommitsAreKept` | `ForeignCommitKept` |
| `DeliveryKeepsTheGate` | `MergeGatePromise` |

    DeliveryInv == TypeOK /\ StoreInv /\ JobInv

`StoreInv` is what the store's rows say of GitHub and Linear, whoever is at work:
beside the properties, that a merge stands (`MergeStands`), that a recorded
approval was signed (`Signed`), what the row of the pull request implies
(`Requested`), what cleanup and Linear recorded (`Finished`), and that no run
waits for an approval over unanswered feedback (`Answered`).  `JobInv` is what a
handler relies on at each of its calls although others have moved since it last
looked: only facts that no outsider can undo stand there (a merge, a signature, a posted reply,
a removed branch), and `AtSettle` has the evidence for the state
a settled effect leads to.  A crash forgets the handler, and with it all of
`JobInv`, so `StoreInv` must be enough to start from.  The refinement
needs in addition that the commit a merge lands is the one signed, which is
`MergeStands`.

Assumptions, which TLC evaluates on every run: runs are a finite set of positive
numbers, each with a repository; issues are a finite set, each with a
repository, none being `NoIssue`; the worker has one goroutine more than the
largest capacity, and no process start has the operator's owner number; owners and
bounds are natural numbers; capacity, heads, attempts, posts and the lease's
duration are positive; a retry policy is one `AutomaticRetryPolicy.validate`
accepts; the marker of an absent file is no configuration.

*Only model-checked*: liveness (`RepairEnds`, `DeliverySettles`,
`ScheduledRetryMade`, `AttentionAnnounced` and `FirstSettled`), which is beyond the
prover, as are the fairness and ENABLED it rests on; and the counterexamples of
`merge_lost`, `worker_abandon`, `worker_starved` and `edit_lost`.  Every other property a run checks is a theorem above.

## 6. Findings

Four runs end in a counterexample.

**merge_lost** (code).  The squash merge lands, its answer is lost or the process
dies before `SaveMerge`, and Linear's automation completes the issue.
`MergePullRequest` revalidates the issue before anything else (`merge.go:104`),
and a completed issue is not coding-ready there, so every later command fails
before it reads GitHub: the run stays in `merging`, no merge is recorded, and
acceptance of an external merge needs manual intervention first.
`docs/architecture.md:1258` says an ambiguous merge response is re-read.

**worker_abandon** (code and document).  A child's stop fails while its run is
abandoned; the command skips the local cleanup (`operator_abandon.go:197` to `210`)
and commits the terminal state all the same, whose trigger deletes permit and slot.
The repository's next run can be granted a permit while the child lives.
`docs/architecture.md:588` says terminal states release the permit only after
managed-child stop is proven.  That everything else does is `ContractUnlessForced`.

**worker_starved** (code and document).  Drive polls for a permit
(`driver.go:207`) that is refused because another waiting run is first in line
(`sqlite/scheduling.go:484`).  A dispatch has returned, so the batch drains and
the worker starts nothing until that drive returns (`admission_worker.go:193`),
which it never does, and the first in line, in an idle repository, waits with a permit
free.  `docs/architecture.md:598` says that one supervisor beyond the capacity is
retained so that waiting runs cannot starve an idle repository.

**edit_lost** (code and document).  An edit made before the exchange is captured
by it; a second edit made before the exchange back (`files.go:854` to `860`) is taken out
of the live file by that exchange, and the removal of the swap file ends it.
`docs/architecture.md:751` says an unexpected concurrent edit is restored instead of
overwritten.  Of two edits the earlier one is live afterwards.  That it takes two
edits, and never a configuration of the controller's own, is `EditsKept`.

Behaviours met while modelling that no run is spent on:

*Worker and retries.*

- A permit can be parked.  Drive A works for a run that has just left heavy work
  for an external wait.  Before A's next iteration releases the permit, sibling B
  reconciles and deletes it.  A's release matches no row and A keeps the
  remembered permit (`driver.go:178`).  When the run re-enters heavy work A skips
  acquisition (`driver.go:197`), and `enterHeavyWork` obtains a permit of another
  version that nobody remembers or releases: the state `integrity.go:381` reports
  as `heavy_permit_lifecycle_violation`.  The next reconciliation heals it.
- A retry of the last attempt the budget allows fails with a class that is not
  retryable, or in a run that has moved.  `ApplyRetryFailure` stores an attention
  row whose count exceeds the budget and whose reason is the failure's
  (`sqlite/retry_schedule.go:128`); the rules a row is read by accept such a count
  only with reason `retry_budget_exhausted`.  Every later read of the run's
  schedules fails and ends the worker, after each restart anew.  Abandoning a run
  with an operator's retry pending writes such a row too.
- Without the admission lease, a due retry that moved the run on and failed there
  is recorded under the new state with the old count; the store refuses it and the
  worker ends.  With the lease the old schedule is put in attention instead.
- The key of a retry attention does not tell two exhaustions of one state apart,
  but their payloads differ, and the outbox refuses the second; the run stays
  parked behind a failing dispatch.
- `GrantAnnounced` holds of *an* event of the state's exhausted budget, not of the
  latest: when the run has left the state and come back, the operator's retry is
  compared with the current event, which may still be the first exhaustion's.

*Admission.*

- A crash or a lost lease while the journal says `mutation_intent` leaves a run
  that `AdoptLinearTodoAdmissionReservation` refuses (it adopts reservations only)
  and that every dispatch selects first (`linear_todo_dispatch.go:1097`): it is
  reported again and again, and no other issue is admitted until an operator acts;
  `docs/operations.md:1138` has the recovery.  `FirstSettled` says it is reported.
- When the store fails to move such a run to manual intervention, the journal says
  so of a run that is received, and `requireNoAdmissionJournalCorruption` refuses
  every later write of any journal.
- Abandon is refused at `mutation_intent`, so such a run cannot be abandoned
  automatically either.
- Dispatches of one process share the lease owner, and versions begin anew after a
  release: a stale dispatch can find its version in use by a sibling's lease and
  continue under it.  The journal's compare-and-set keeps the properties.

*Local controller.*

- A repair that changes nothing ends at the head it started from.  The comment at
  `local_controller.go:1262` says the verification and fresh-review gates
  revalidate such a head; but `repair_review.go:46` excludes every candidate that
  equals the repair's base from a new review, so fresh review refuses it on every
  call until the repair deadline stops the run.
- The artifact of a decision and the transition that accepts it are two writes;
  after a crash between them the same decision is refused as a conflict
  (`local_controller.go:1206`).
- After a crash following `SetWorkspace` the rows stay *reserved*: the branch that
  reuses a workspace does not mark them owned, and push (`push.go:193`), operator
  retry (`operator_retry.go:209`) and cleanup (`cleanup.go:261`) refuse the run.
- Feedback given on h1 is bound when its repair h2 passes review.  If that review
  asks for a repair, h3's base is h2, the feedback is never bound, and delivery
  stops the run for drift (`local_controller.go:1723`).
- After an accepted decision, a resume that succeeded is resumed again after a
  crash, since only repairs separate old outcomes from new.
- The repair deadline runs from the first repair and is consumed by waiting for a
  human.
- An error of any kind while reading what `approval_ready` rests on makes the run
  `failed`.
- An empty directory that somebody else made at the reserved root, or at the
  worktree's path during the fetch (`worktree.go:47` to `73`), is taken over.
- An error that carries no retryable class parks the run (`retry_schedule.go:349`);
  a run parked in a repair stays there after its deadline, which is looked at only
  when the controller is called.
- A crash inside `writeExclusive` leaves an empty file, and a `git worktree add`
  cut short leaves a branch; every later call refuses both.

*Delivery.*

- The store keeps one approval per run and head and answers a second one with
  "conflicting immutable human approval evidence" (`store.go:4979`), which rolls
  the whole read back: a human who dismisses an approval and approves the same
  head again leaves the run in `awaiting_human_approval`.
- A push of a repaired head that fails once finds the branch at the old head, which
  is not what a fresh push expects: divergence, manual intervention.
- A root bound to head 2 is not answered if the repair moves on to head 3.
- An intent recorded, a crash, and a human's merge in between: the merge is recorded
  as the controller's squash.
- A Linear read observed as completed at the last count, followed by a crash, is
  taken for a timeout.
- A crash after `RetryMergeSideEffect` leaves an intent without an outcome, which
  goes to manual intervention.
- Cleanup stays in `cleaning` as long as the remote branch is not the candidate.

*Configuration.*

- An operation is its parent and its target, so an apply that settled as failed is
  answered from its receipt for ever: the same change can be made only after
  another one has moved the desired generation.
- `RemoveRaw` fails after the unlink when the directory does not synchronise; the
  claim is given up (`configuration_service.go:853`) while `raw_retained` stays 1
  and the file is gone.  `HasRaw` finds the truth and the next prune repairs the
  row; `RawKept` therefore speaks of what is or may become desired only.
- A file or a directory that cannot be synchronised during a reconciliation makes
  the intent ambiguous, which has no recovery in place (`docs/architecture.md:767`).

## 7. Abstractions, and what is not modelled

- A run's state is its phase in `Scheduling` and `Supervisor`: scheduling looks
  at nothing else.  What a verification or review decides is a free choice
  among the phases the transition table allows.
- One unfinished attempt per run: `execute` closes a prepared attempt before it
  begins another, and a started one blocks it.
- Renewal of a live holder's lease is folded into the clock (`TickRenewing`); a
  holder that stalls past its TTL and goes on is not modelled.
- The admission lease is a flag of a goroutine: its expiry under a stalled
  admission is not modelled.
- Retry schedules in `Supervisor` are the status of the run's current state;
  a change of state may meet any leftover (`Rekey`).
- In `RetrySchedule` the policy is a constant (the code stores it with the row
  and it is the same); a drive's failure always has the evidence its class
  needs; Linear's revalidation of an operator's retry succeeds or the retry is
  dropped; a schedule has no status *superseded*, which nothing writes any more;
  other attention events of the run than its stops and its retries, and
  deferrals, are left out.
- The Supervisor runs have no two nonterminal runs of one repository; quarantine
  is checked in `sched_shared`.
- Recovery branches of `Drive`, `enterHeavyWork` and `execute` for a started
  attempt are not repeated there: under the worker they are never reached, which
  is `RecoveryBeforeDrive`, checked and proved.
- `Admission`: which candidates pass the gates (ranking, labels, configuration and
  repository readiness) is a free refusal; the several reads of a scan are one
  renewal; states past received are *executing*; a dispatch error that ends the
  worker is `Supervisor`'s; the paths of a worker without concurrency and the run
  lease abandon takes are left out.
- `LocalLoop`: one controller, as the lease gives (a lease that is lost under a
  stalled holder is not modelled), children that have ended when their handler
  goes on (`Supervisor` has the others); a commit is known by its parent and its
  subject, as in the code, and Codex does not give a commit of its own on the expected
  parent the controller's subject (one that did would be adopted); Codex and the
  verifier are the only ones who write the worktree once it is made; a foreign
  directory appears in one step with what is in it; a parked run is left
  alone, also by the reconciliation of an interrupted attempt of it in a later dispatch; the
  deprecated `Repair` (its only caller is `cmd/agentctl/fixture_delivery.go`), and with
  it the repairs of kind `controller_legacy_repair`, are left out;
  snapshots of the task are written like the marker; refusals for malformed
  output, model policy or findings that cannot be repaired are the verdict
  *failed*; the loop's limit of 20 turns is not reached; a call the deadline cuts
  does not commit.
- `Delivery`: one inline root in a run, at most one request for changes per head; a
  pull request the store does not know yet is left alone by humans; one read of
  GitHub is one step although it is several requests; a reply whose request lands
  late is not modelled; conflicts of several trusted roots, a lease lost under the
  driver and the retention of the artifact root are left out; a failed
  synchronisation of the source checkout is a cleanup that does not start.
- `Configuration`: `ConfigurationAuthority` is one read although it is several
  queries, and a reconciliation takes the lock with its first read of the files; a
  synchronisation is one step with what it synchronises; a failing SQL statement is
  a crash, and a loss of power is not modelled; whether a heartbeat is stale is a
  free choice, and the time after which a reservation refuses the authority it
  quotes (`ValidThrough`) is left out; the later reads of the files in
  `ReconcileRuntime` and `project` are taken with the transaction before them; a change to the configuration already
  desired only records a receipt and is not started; an expected version is not
  given.  Drafts, rollback, onboarding and migration provenance, retired recovery
  intents, the locator and the database's identity are left out.
- Not modelled at all: candidate ranking and Linear's contents, repository gates
  of admission, run-progress admission (retired CI waits), manual
  continue under its own owner, lease-lost attentions, the evidence tables (queue
  snapshots, scheduling decisions), the cleanup of abandonment, verifier processes
  (no attempt row exists for them), onboarding, integrity scans, managed process
  control, the local upgrade and the adapters.  PROJECT.json gives the reason for
  every component.

## 8. Plan

In order of how much of the system's correctness rests on it:

1. *(done)* `RunState`, `Scheduling`, `Supervisor`, `HeavyWork`; proofs of the
   store's guarantees.
2. *(done)* `RetrySchedule`: schedules per (run, state), budget, attention outbox,
   operator retry.
3. *(done)* `Delivery` and `MergeGate`: intents, exact heads, crashes between
   effect and record.
4. *(done)* `Admission` and its proofs: lease, journal, mutation intent.
5. *(done)* `LocalLoop` and its proofs: provisioning, execution, verification,
   review, repair.
6. *(done)* `Configuration` and its proofs: authority, apply intents, the live file
   and raw files, the gate of new runs.
7. Repository life cycle: removal against running work; the onboarding saga;
   configuration drafts.
8. Attention, actions and receipts; abandon with its cleanup; managed process
   control; the local upgrade's journal.
9. *(done)* Proofs of the safety properties and refinements of all runs.
10. Proofs: what lasts beyond one step in `Delivery` and `Configuration` (an
   effect that was observed stays observed, an approval is never taken from another
   head, an operation has one generation) as action properties, and the
   components of 7 and 8 as they are modelled.
