# A TLA+ model of letsinfer

Letsinfer serves language models on machines that people own. This directory
holds TLA+ models of its Rust core (`src/core/`), the TLC configurations that
check them on small instances, and TLAPS proofs of the properties that should
hold for instances of every size. `PROJECT.json` relates every definition to
the lines it models and lists the runs, mutants, hazards, findings and theorems.

1. [The system](#the-system)
2. [The modules](#the-modules)
3. [The runs](#the-runs)
4. [The proofs](#the-proofs)
5. [Where code and documentation disagree](#where-code-and-documentation-disagree)
6. [What is not modelled, and the plan](#what-is-not-modelled-and-the-plan)

## The system

A machine runs up to three resident processes and a command line:

- **Node** (`core/node`) holds the durable state and runs the operations. It
  composes one manager per concern. `DatabaseManager` stores everything the
  others persist, as revisioned records in one SQLite file.
  `PlacementManager` starts and stops groups of engine processes.
  `RuntimeManager` installs engines, `BenchmarkManager` runs jobs against an
  isolated group, `CoreUpdateManager` replaces the installed release,
  `AuthenticationManager`, `PairingManager` and `AuditManager` look after keys,
  children and the audit chain. The model coordinator drives runtimes and
  placements through journalled operations (install, update, remove, pause,
  resume, restart).
- **Gateway** (`core/gateway`) answers inference requests. `GatewayManager`
  admits them against the limits of their API key, chooses a placement group,
  queues, retries and accounts for them. It learns from the node which groups
  are healthy and protected, and keeps its usage records in the node's database.
- **Watchdog** (`core/watchdog`, Linux) samples the machine, latches a trip when
  a protected placement endangers it, contains that placement, and issues the
  protection leases without which the gateway routes nothing to a group.
- **Command line, setup, installer, uninstall** (`core/cli`,
  `core/application`, `installer`) make one exchange with the node per
  command, or move the resident services from one installation to another.
- **Prefix store** (`cache/letsinfer_prefix_store`) is the persistent cache that engines
  use for the state of shared prompt prefixes.

Three things make this system hard to test. Almost no operation holds a lock
across its steps: it reads a record, calls something outside, and writes under
the revision it read. Every process may stop between any two steps and resumes
from its journals. And most operations are a sequence of outside calls, any of
which may fail with or without having had its effect.

### Inventory

| Component | Sources | Module | State |
| --- | --- | --- | --- |
| gateway admission, queue, accounting | `core/gateway/src/li_gateway_manager.rs`, `li_gateway_execution.rs`, the usage store | `Gateway` | partly |
| database manager and writer | `core/database` | `DatabaseStore`, `Database` | modelled |
| placement group lifecycle | `core/placement` (lifecycle, allocator, Linux executor), its store | `Placement` | modelled |
| core update | `core/update`, its store, native service providers | `CoreUpdate` | modelled |
| gateway transport, routing data | rest of `core/gateway` | | byte formats and I/O |
| model operations | `core/node/src/li_node_model_coordinator.rs` and its journal | `ModelCoordinator` | planned |
| node daemon, private API, outbox | rest of `core/node` | | transport, projections |
| storage adapters of the managers | `core/node` | | modelled with each manager |
| watchdog trips and containment | `core/watchdog` | `Watchdog` | planned |
| watchdog rings and event journal | `core/watchdog` | `EventJournal` | planned |
| watchdog live fanout | `core/watchdog` | `LiveFanout` | planned |
| watchdog sampling and protocol | `core/watchdog` | | kernel reads, framing |
| protection leases | `core/node`, `core/gateway` | `Protection` | planned |
| benchmark jobs | `core/benchmark`, `core/benchmark_worker` | `Benchmark` | planned |
| runtime installations | `core/runtime` | `Runtime` | planned |
| pairing and child activation | `core/pairing`, `core/application` | `Pairing` | planned |
| authentication | `core/authentication` | | one conditional write each |
| audit chain | `core/audit` | `Audit` | planned |
| prefix store | `cache/letsinfer_prefix_store` | `PrefixStore` | planned |
| cutover, setup, supervision, uninstall | `core/application` | `Cutover` | planned |
| placement launch plans, macOS executor | rest of `core/placement` | | one outcome each in `Placement` |
| installer, hardware, interface, command line, apps, tools | | | I/O, values, user interface |

"Partly" for the gateway: telemetry is reduced to its lifecycle counters, and
`cancel_queue`, which only tests call, is left out.

## The modules

### Gateway

One gateway process, translated from `li_gateway_manager.rs` and the thread in
`li_gateway_execution.rs` that drives each request through it.

*State.* The variables under the comment "GatewayState" are the fields of the
struct of that name, which one mutex guards. `usage` is the persisted collection
of completed requests, `time` the host's clock. Each request has a thread with
a program counter `pc`, the clock sample `now` of its current operation, the
usage `recent` it read from the store, its queue entry or reservation `entry`,
and the counters of `GatewayExecution`.

*Granularity.* Every operation of the manager samples the clock (and reads the
route snapshot or the store) before it locks the mutex. Each is therefore
modelled as a read step followed by one atomic step per section under the mutex,
and the sample may be old when the section runs. The route snapshot is any
subset of the model's routes, chosen where it is used: this covers every change
of route health in between. A failed clock read gives sample 0.

| Code | Actions |
| --- | --- |
| `record_received`, `admit_public`, `admit_relay`, `record_initial_failure` | `Receive`, `BeginAdmit`, `RejectAdmit`, `RecordInitialFailure` |
| `admit`, `load_recent_usage`, `admit_principal` | `CheckLoaded`, `ReadRecent`, `RefuseRecent`, `RefusePolicy`, `AdmitSelected`, `AdmitQueued`, `AdmitRefused` |
| `poll_queue`, `wait_for_reservation` | `BeginPoll`, `PollExpired`, `PollAdmitted`, `PollWaiting`, `PollError` |
| `fail_queue` | `FailQueue`, `AbandonQueue` |
| `forward`, `cancel_with_timing` | `AttemptSucceeds`, `AttemptFails`, `AttemptRetries`, `CancelExecution` |
| `complete_request`, usage store | `CompleteExecution`, `CompleteWithoutClock`, `RecordUsage` |
| `fail_reservation` | `FailExecution` |
| `retry_before_output` | `RetrySelected`, `RetryQueued`, `RetryFails` |
| host | `Tick`, `Restart` |

`select_route` is `Selected`: the routes that fit, are not cooling down and
have room, prefix holders first, then by normalised load; temperature and node
identity only break ties, so any tied route may come first.
`mark_route_failure`, `release_principal`, `reserve_route` and their siblings
keep their names.

### DatabaseStore and Database

`DatabaseStore` is what the database promises its users: records with revisions
that change only by the atomic application of a transaction, at most once under
each idempotency key, and only where the revision condition of each command
holds. `Database` is how `li_database_manager.rs` and `li_database_storage.rs`
do it: a bounded queue (`Send`), one writer that takes a message and looks its
key up (`LookUp`, or `LookUpFails` when SQLite does) *before* it opens the
immediate transaction, which commits and is announced (`Commit`), or rolls back on
a failed condition (`Reject`), on a key that another process stored in the meantime
(`Collide`) or on a storage failure (`Fail`), then answers (`Respond`). `Restart` stops the process of a manager
between any two of these; its callers are then "unsure" and may send the same
transaction again (`Resubmit`). Several managers may have the file open.
`log` and the `at` field of `seen` are history variables: no guard reads them.

A single command is a transaction with one target. Timestamps, encodings and
schema checks are left out. `MaxRevision` stands for 2^63 - 1, at which
`next_revision` refuses.

### Placement

`li_placement_lifecycle.rs` with its allocator, its store and the Linux
executor. `record` is the stored aggregate of each group, `index` the stored
resource index that all groups share. `task` is what exists on its node for each
task: the sealed plan, the container with the threads that know its process, and
the protection (off, begun, armed). `thread` is what each caller has in hand: its
operation, the record it last read or wrote, and in `at` the step that its executor
call for each task has reached.

An operation (`Stage`, `Start`, `Stop`, `Recover`, `Remove`, `Reconcile`) reads
the record and applies its guards; the steps that follow write a transitional
state (`Create`, `BeginStart`, `BeginStop`, `BeginRemove`), run the executor calls,
and write the outcome (`RecordStaged`, `Finish`, `PublishRunning`,
`PublishStopped`, `PublishRemoved`, `PublishObserved`, `StageFailed`,
`StartFailed`).

*Executor.* A call of the executor is a sequence of calls of Docker, of the
protection files that the Watchdog acknowledges and of the material store, and
another thread may come between any two. Each is an action:

| Executor call | Actions |
| --- | --- |
| stage | `StageInputs` |
| start | `CheckStatus`, `BeginProtection`, `InspectContainer`, `StartContainer`, `BindStarting`, `WaitUntilReady`, `Arm`, `ReadEndpoint` |
| rollback of a start | `RollbackDisarm`, `RollbackStart` |
| stop | `Disarm`, `StopContainer` |
| remove | `ObserveStopped`, `CheckRetired`, `Retire`, `ProveAbsent`, `RemoveMaterial` |
| observe | `ObserveTask` |

Each goes on as the state it meets decides, or fails by a fault, with or without
its effect (`Proceed`). The tasks of one phase are called together (the code starts
a thread for each) and their steps interleave; phases follow one another
(`RunPhase`, `AfterStart`, `AfterPhase`). What was seen at one step and used at a
later one is kept in `at`: `StartContainer` acts on what `InspectContainer` saw.

*Store.* `Write` is the store's conditional transaction on the aggregate and the
index. It is refused when the aggregate was replaced, when another group holds a
resource, or when another group's transaction came between the read of the index
and this one (`stale`, the conflict on the index's revision); and it may fail
before or after it took effect. `Settle` is `replace_resolving_uncertainty`, which
reads the record again and tries once more. `unresolved` notes the groups for
which that ends in an error although the write was stored.

`Crash` ends every thread and leaves tasks and records as they are. The devices,
ports and interface of a task are one slot of its node, because their leases change
together. Endpoints, failure texts, trips of the protection and containers that end
by themselves are left out.

### CoreUpdate

`li_core_update_lifecycle.rs` with the artifact, service, admission, prune and
store providers it is composed with. A release is its place in the order of
versions; the command line derives the key of an update from the release it
resolved, so releases also name the updates. `journal` is the stored record of
each update, `pointer` the `current` link, `installed` what is under
`versions/`, `bound` the release that each resident service runs.

A call goes through `Begin`, `Open`, `Admit`, then from the phase its journal
shows through `Prepare`, `CompleteCurrent`, `SnapshotServices`, `Activate`,
`Rebind` with one `RebindService` per service, `VerifyServices`, `Commit` and
`Prune`. Each of these is the provider's effect alone; the journal `Write` that
follows is a step of its own, and may fail. A failure leads through
`RollbackFailure` to `Restore` with one `RestoreService` per service, `Unwind`
and `Discard`. `Crash` stops the node, `Publish` publishes a newer release.

Rebinding and restoring share the native installation of a service
(`install_systemd`, `install_launchd`). When the supervisor accepts the restart the
service may still be down (`InstallAccepted`); when one of its commands fails the
service is as it was, down or restarted (`InstallFails`). A rebound service is
verified afterwards, a restored one is not. Services that end by themselves later
are left out.

Download, signature checks and the polling of a readiness deadline are one
outcome each.

## The runs

`tlc -config <cfg> <module>` repeats a run. `MCGateway`, `MCDatabase`,
`MCPlacement` and `MCCoreUpdate` only give the constants their values.

| Run | Configuration | Checks |
| --- | --- | --- |
| `gateway_queue` | `MCGatewayQueue.cfg` | `TypeOK`, `PrincipalExact`, `TokenBudget`, `TelemetryConserved` |
| `gateway_retry` | `MCGatewayRetry.cfg` | `QueueIndexExact`, `OwnershipExact`, `TokenBudget`, `PrincipalExact`, `RouteCapacityExact`, `DispatchRespectsCooldown` |
| `gateway_live` | `MCGatewayLive.cfg` | `EveryRequestEnds` |
| `gateway_reload` (violation) | `MCGatewayReload.cfg` | `RecentStartsInWindow` |
| `database_shared` | `MCDatabaseShared.cfg` | `TypeOK`, `NoTornTransaction`, `NoLostUpdate`, `AnswersTrue`, `ConflictIsUnapplied`, `EventsFollowCommits` |
| `database_processes` | `MCDatabaseProcesses.cfg` | `AppliedOnce`, `ReplayTableExact`, `StoreSpec`, `EveryWriteAnswered` |
| `placement_groups` | `MCPlacementGroups.cfg` | `TypeOK`, `IndexExact`, `OneGroupPerSlot`, `ProcessIsLeased`, `RunningIsReady`, `StoppedIsQuiet`, `PhasesInOrder` |
| `placement_overlap` | `MCPlacementOverlap.cfg` | `RemovedIsFinal` |
| `placement_stale_start` (violation) | `MCPlacementStale.cfg` | `RunningIsReady` |
| `update_handoff` | `MCCoreUpdateHandoff.cfg` | `TypeOK`, `OneHandoff`, `ActiveIsInstalled`, `RollbackMaterial`, `HandoffIsVerified`, `RollbackRestores`, `JournalForward` |
| `update_interrupted` (violation) | `MCCoreUpdateInterrupted.cfg` | `RolledBackIsRestored` |
| `update_replay` (violation) | `MCCoreUpdateReplay.cfg` | `UpdatedIsActive` |

### Gateway

`gateway_queue`: three requests of one key share a route with one slot and a
queue with one place; the third may not wait; the key has a concurrency limit of
two and a token limit of four, so that admission fails for each reason; the
clock has three ticks over a window of two, so that window entries expire and
waits time out; the daemon may restart once. The key's concurrency, its token
budget, with the window reloaded from the store, and the telemetry stay exact
through every exit of every handler.

`gateway_retry`: three requests of one key, two routes with one slot each, a queue
of two places, two attempts per request, two ticks, one failed clock read. A
snapshot may show one route only, so that two requests wait behind the third, and
either of them may leave the queue first: by its turn, by expiry, by a failed wait,
or to be queued again behind the other after a retry. The FIFO and its entries
agree throughout; a request owns a reservation or an entry exactly in the phases of
its thread that own one; however often it is retried or queued again, capacity,
concurrency and tokens are charged once; and no dispatch reaches a route that is
cooling down. `OwnershipExact` names the one exception in the code: `fail_queue`
returns when its clock read fails, before it removes the entry
(`li_gateway_manager.rs:817`), and the entry stays queued without a thread.

`gateway_live`: a child gateway, whose relayed requests have no principal, with
three requests for one slot and a queue of two. A failed clock read may leave an
entry at the head of the queue that nobody polls any more; every request still
ends, because the polls of each are bounded (`MAX_QUEUE_WAIT_CYCLES`).
*Fairness*: weak fairness of each request's thread (`Thread(r)`). The operating
system schedules a runnable thread; the mutex sections are short and none waits
inside. Nothing makes a caller send, a clock fail, the time pass or the daemon
restart. No symmetry is used in this run. Requests end and stay ended, so the
gateway runs switch the deadlock check off.

Three requests are the smallest number for which a queued request has another
before it and one behind it; two routes the smallest for a retry to move. Time
limits of one or two ticks separate "before", "at" and "after" each deadline.

### Database

`database_shared`: two callers of one process, a queue of one place, two
records, three keys, and templates for creating, replacing, deleting and for
replacing two records together; the process may stop between any two steps. No
transaction is torn, no exact-revision write overwrites what its caller had not
seen (unless the record was deleted in between, which resets its revision), a
caller that is told its condition conflicts, or its key was used for something
else, has not had its transaction applied, now or before, and the event stream
announces committed transactions only, in commit order. The answer "unavailable"
says less: when the look-up itself fails, the key may have been applied by an
earlier attempt (`LookUpFails`), so a caller must send it again to find out. The keys bound the run: a key commits at
most once, so three keys allow three committed transactions, enough for a
change, a deletion and a re-creation.

`database_processes`: two processes with the file open, one with two callers and
a queue of two places, the other with one caller; all may use the same key at the
same time, the look-up of a key being outside the transaction. Every
key is applied at most once, the replay table is exact, the writers implement
`DatabaseStore` (`StoreSpec`, a refinement in which the variables map to
themselves), and every accepted write is answered or its process stops, also the
one that waits in the queue while the writer is at work on another.
*Fairness*: weak fairness of each writer's steps (`WriterStep(m)`): the writer is
one thread that loops over its queue, and SQLite's busy timeout ends in the
answer "unavailable", which is a step. Restarts, reads and submissions are not
fair.

### Placement

`placement_groups`: a group of two tasks in two phases and a group of one task
that compete for one slot of a node; two threads, one operation at a time on
each group (`Overlap = FALSE`), five calls, two failing executor steps, one lost
store answer and one restart anywhere, at most three of these together. What is recorded as running, staged or
stopped is so on the machine when no operation is under way, no container outlives
its lease, phases start in order, the resource index is exact and no two groups
have one slot. Two failures are what a rollback that fails needs; five calls allow
a stage, a start that fails, a stop, a second start and a removal.

`RunningIsReady` names one exception, `unresolved`. When the final write of a start
is refused by a conflict on the index or fails, and the second attempt is stored but
reported as failed, or the read that would show the first as stored fails,
`replace_resolving_uncertainty` returns the first error and `start_failed` stops a
group that is stored as running (`li_placement_lifecycle.rs:464`).

`placement_overlap`: two threads run any operations on one group at the same
time, over four calls, with one failing executor step and one lost store answer. A
removed group stays removed. Four calls let a stale operation meet a stop and a
start that began after it.

`ProcessIsLeased` is a property of one operation at a time only. With two, it does
not hold: a start looks for a container and sees none
(`li_linux_container_provider.rs:590`); a removal stops the group, proves that there
is no container, deletes the plan and records `Removed`; then the start creates its
container (`:591`). Its rollback needs the plan that was deleted (`:642`), so a
container runs on whose leases are released. TLC finds this in `MCPlacementOverlap`
when the property is added to it.

### CoreUpdate

`update_handoff`: three releases, the two resident services of macOS, two
threads with three calls, two failures of providers, native services, store or
admission, and a restart between any two steps. At most one handoff is in flight;
`current` never points at a pruned release; what a rollback needs stays installed;
an update is journalled as verified only with every service up at the candidate,
as committed or, once activated, rolled back only with `current` at the right release
and no service at another; and a thread that read its journal long ago cannot move
it back. `RollbackRestores` does not say that the services are up: nothing looks at
a restored service once its restart was accepted, so an update may end as rolled
back with a service down (`li_core_update_service_control.rs:312`). Three releases are the smallest
number for which an update can prune a release that a second one needs.

### Mutants

Each property of each passing run has a mutant: a variant of one mapped
definition (its name is the definition's with a suffix, and it stands directly
before it) that a plausible mistake would produce, such as a queue entry left
behind, a charge repeated on a retry, an exact revision compared with "at least",
a lease released too soon. Under each mutant TLC finds the property violated.

## The proofs

`tlapm <module>.tla` checks a module's proofs. They hold for every value of the
constants that the named assumptions allow; these are ASSUMEs of the component
modules, and TLC evaluates them in every run.

| Theorem | Module | States |
| --- | --- | --- |
| `TypeAlways` | `GatewayProofs` | `Spec => []TypeOK` |
| `OwnershipAlways` | `GatewayProofs` | `Spec => []OwnershipExact` |
| `CapacityAlways` | `GatewayCapacity` | `Spec => []RouteCapacityExact` |
| `PrincipalAlways` | `GatewayCapacity` | `Spec => []PrincipalExact` |
| `QueueAlways` | `GatewayQueue` | `Spec => []QueueIndexExact` |
| `CooldownRespected` | `GatewayQueue` | `Spec => DispatchRespectsCooldown` |
| `ImplementsStore` | `DatabaseProofs` | `Spec => StoreSpec` |
| `AtMostOnce` | `DatabaseProofs` | `Spec => []AppliedOnce` |
| `ReplaysExact` | `DatabaseProofs` | `Spec => []ReplayTableExact` |
| `AnswersAreTrue` | `DatabaseProofs` | `Spec => []AnswersTrue` |
| `NoUpdateLost` | `DatabaseReads` | `Spec => []NoLostUpdate` |

### Gateway

*Assumptions*: the set of requests is finite, requests, limits and routes have
their types, `NoKey`, `NoGroup`, `NoPrefix` and `NoLimit` are none of the values
they stand beside, and the bounds are natural numbers
(`MaxBackendFailures` positive).

*Types and ownership.* `GatewayTypes` proves that the type invariant survives
every action that does not read the route a request owns. The others read
`active_requests[r]` as a route, which is one only if the thread's phase says
that it owns a reservation. So neither `TypeOK` nor `OwnershipExact` is
inductive alone, and `Sound`, their conjunction, is.

*Effects.* `GatewayProofs` sorts the actions by what they do to the
shared counters: a step of a thread keeps what it holds, admits, enqueues, leaves
the queue, dispatches, closes, moves to another route or goes back to the queue;
or no thread moves; or the daemon restarts (`Effect`). Each later invariant is
proved once per effect and not once per action.

*Capacity.* With `Sound`, a route's counter equals the number of its reservations
because each effect changes both by the same one; `Selected` chooses from the
counters under the mutex, so the bound holds although the snapshot is old.

*Principals.* The counter of a key is the number of its requests that are queued
or active. Removing one is a subtraction that saturates at zero, which is exact
only because the count is positive whenever a holder leaves: the equality must be
carried along to prove the bound. `Holding` restates the set of holders by thread
phase, through `OwnershipExact`, so that the proof follows the program counter.

*Queue.* `QueueIndexExact` is inductive with `NamesOnce`, that the FIFO names no
request twice: `remove_queued_request` takes out one position, wherever it is, and
removes the request from the FIFO only if there is no second one. A request is
appended only by a thread without an entry, by `OwnershipExact`.

*Cooldown.* `Selected` compares a route's cooldown with the clock sample of the
thread, which may be old. `SampledBefore`, that no sample is from the future, makes
the comparison hold at the time of the dispatch. A retry chooses under the cooldown
that its own failure has just set.

### Database

*Assumptions*: `ManagerOf` is a function from clients to managers, the queue
capacity and the largest revision are positive, templates are transactions
whose exact revisions are to be filled in, and `None` is neither a payload nor a
row of the replay table.

*Refinement.* Only `Commit` changes the records or the replay table, and it is
`Apply` of the message in the writer's hands. That the message is a transaction
is the type invariant `Types` (queues hold messages, a writer in its transaction
holds one), which is therefore needed for the refinement.

*At most once.* `AppliedOnce` is inductive only with `ReplayTableExact`: a commit
requires that the table has no row for its key, which rules out an earlier commit
only if every committed transaction has its row.

*Answers.* A writer answers "replayed" from the row it looked up before the
transaction was opened. The answer stays true because the log only grows.

*No lost update* needs three more facts. `InFlight`: a message in a queue or in a
writer's hands is the one message of a waiting caller. `ReadsKept`: a caller does
not read while its message is outstanding, so the message's exact revisions are
those it last read. `RevisionsGrow`: a record that was not deleted since it was
read has at least the revision that was read, and a larger one if it was changed.
An exact write that is committed found the revision its caller read, hence nobody
changed the record in between, or somebody deleted it.

### What is only model-checked

- The liveness properties `EveryRequestEnds` and `EveryWriteAnswered`: fairness
  and ENABLED are outside what the installed provers handle.
- `TokenBudget` and `NoTornTransaction`: a sum over a set of requests and a
  recursive function over the log need induction over data, which is out of reach.
- `TelemetryConserved`, `ConflictIsUnapplied`, `EventsFollowCommits` and all
  properties of `Placement` and `CoreUpdate`: not proved so far.

## Where code and documentation disagree

Each of these is a run that TLC ends with a counterexample.

1. `gateway_reload`, `li_gateway_manager.rs:1213`. The gateway's readme says that
   the one-minute window "reconstructs after daemon restart". The store returns
   the records that *completed* inside the window; the loader refuses the whole
   admission when one of them was *received* before it. After a restart, a key
   with a request that straddles the boundary is refused until that record ages
   out.
2. `placement_stale_start`, `li_placement_lifecycle.rs:738`. The placement readme
   says that an endpoint is published "only after every required placement is
   ready", and a test that concurrent operations leave no split state. An
   operation that was overtaken goes on driving the executor until its last write
   is refused, and so takes down tasks of a newer start; the group stays recorded
   as running.
3. `update_interrupted`, `li_core_update_lifecycle.rs:806`. The update readme
   says that "failures before commit restore the exact service snapshot and
   previous active Core". When the node stops after the pointer was moved and
   before that is journalled, and the resumed activation fails, the rollback finds
   no activation to undo: the update ends as rolled back with the candidate
   active.
4. `update_replay`, `li_core_cli_node_process.rs:2808`. The manual says that
   `update core <version>` activates the selected version. The key of the update
   names the release only, so a second update to a release, after another one in
   between, is answered from the first one's journal and changes nothing.

Some more came up for which there is no run of their own; the properties name the
first three as exceptions or bounds.

- `fail_queue`, "Releases one queued request after a terminal native wait or polling
  failure" (`li_gateway_manager.rs:816`), returns when its clock read fails and
  leaves the entry and its key's concurrency held until the daemon restarts
  (`AbandonQueue`; `OwnershipExact`, and `EveryRequestEnds` for those behind it).
- A second attempt of `replace_resolving_uncertainty` that is stored and reported as
  failed undoes a start that is recorded as running (`RunningIsReady`).
- A container created by a start that a removal overtook outlives its leases,
  although the provider "removes staged inputs only after exact container absence is
  proven" (`li_linux_container_provider.rs:658`): `ProcessIsLeased` is checked with
  one operation at a time on a group (see [Placement](#placement-1)).
- A service that does not come up after its restoration was accepted leaves an update
  rolled back with that service down (`RollbackRestores`).
- `remove` does not stop a failed group, and a removal that was interrupted cannot be
  resumed for a task without a sealed plan.

## What is not modelled, and the plan

Left out for good: byte formats and transport (HTTP, TLS, the watchdog protocol,
record encodings), cryptography, kernel reads, display, downloads, the offline
Python tools and the Swift applications. They have no state that changes in
steps, or no order of steps that matters.

Planned, in this order, with the hazards each is for:

1. **ModelCoordinator** over `Placement` and `Database`: the journalled model
   operations. A start that ends in a failed group returns `Ok`
   (`li_node_model_coordinator.rs:1470`); compensations reuse keys (`:2007`,
   `:1594`); an interrupted removal blocks the journals after it (`:1736`); the
   journal is closed before the operation record (`:2107`).
2. **Watchdog**: one tick step by step. A trip is latched before its target is
   contained (`li_watchdog_manager.rs:251`, `:291`); counters are committed before
   the trip they imply (`li_watchdog_linux_protection.rs:543`).
3. **EventJournal**: cleared, prepared and committed slots with a stop at every
   synchronisation (`li_watchdog_event_journal.rs:297`); replays and a clock that
   steps back (`li_watchdog_storage.rs:183`, `:231`).
4. **LiveFanout**: every published sequence is delivered once or lies in one gap
   (`li_watchdog_live_fanout.rs:574`, `:154`). A candidate for a proof.
5. **Protection**, a composition: watchdog cycles, the node's lease table and the
   gateway's cached snapshot (`li_gateway_node_protection_poller.rs:189`,
   `li_node_protection_lease.rs:437`).
6. **Benchmark** (`li_benchmark_lifecycle.rs:90`, `:99`, `:402`) with the reset in
   `li_placement_manager.rs:258`, and **Runtime** (`li_runtime_lifecycle.rs:267`,
   `:348`).
7. **Pairing** with the activation journal (`li_core_pairing_activation.rs:517`,
   `:588`, `li_pairing_manager.rs:479`, `li_core_pairing_store.rs:306`).
8. **PrefixStore** (`store.rs:553`, `:874`, `ram_tier.rs:116`) and **Audit**
   (`li_audit_manager.rs:171`, `:300`).
9. **Cutover** with uninstall (`li_core_service_cutover.rs:561`,
   `li_core_uninstall.rs:972`).

Proofs to come: `IndexExact` of `Placement`, `OneHandoff` and `ActiveIsInstalled`
of `CoreUpdate`, and delivery in `LiveFanout`.

In the modelled components these orders of steps are known and not stated as a
property: a stale thread of an update rebinds every service before its write is
refused, so that services may be down at commit (`li_core_update_lifecycle.rs:651`;
`HandoffIsVerified` says that none runs another release); admission of an update
looks once for active operations (`li_core_update_admission.rs:100`); an
incomplete rollback ends updates for good (`li_core_update_lifecycle.rs:520`);
the request window counts refused attempts in memory and completions after a
restart (`li_gateway_manager.rs:1014`).
