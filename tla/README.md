# A TLA+ verification of the EDA run orchestration lab

This directory specifies, model-checks and proves properties of the program
under `src/src/eda_lab/`: a job service that accepts static-timing runs,
executes OpenSTA for them in child processes, and must keep one account of
every run while workers crash, leases expire and children outlive their parents.
Nothing here depends on the program's own tests; every definition is translated
from the source, and `PROJECT.json` (`map`) names the lines each one stands for.

Contents

1. The system: components, state, operations, interactions
2. What is hard about it
3. The plan
4. How the models correspond to the code, module by module
5. Runs, bounds and fairness
6. What is proved, and along which argument
7. Where the code departs from its documents
8. What is only model-checked, and what is not modelled

## 1. The system

One *Run* is one static-timing job. It has up to `max_attempts` *Attempts*, each
of which is one child process of OpenSTA. All durable state is in one store,
either SQLite (`store.py`) or PostgreSQL (`postgres_store.py`); everything else
is in memory and lost with its process.

| Component | Source | State it keeps | Operations |
| --- | --- | --- | --- |
| Job service | `service.py` | `futures`, the execution pool, the thread-local attempt context | `submit`, `cancel`, `_execute`, `_heartbeat_loop`, `_record_adapter_process`, `recover_stale_runs` |
| Stores | `store.py`, `postgres_store.py` | rows of runs, attempts (lease, recovery claim, process), host sessions, execution requests, supervisors, witnesses, revisions, violations | conditional updates, each a transaction |
| Polling worker | `worker.py` | none beyond its service's futures | `drain` (recover, then claim and execute), `serve` |
| Host Agent | `host_agent.py`, `__main__.py` | a host session (id, epoch, lease) | `start`, `heartbeat`, `drain`, `serve` |
| Execution supervisor | `execution_supervisor.py` | the request it works on | `run_once`: claim a request, run the adapter, witness its end, finalize |
| OpenSTA adapter | `runner.py` | active processes and cancellation marks, by job | `run`, `cancel`, observers |
| HTTP API and client | `api.py`, `client.py` | none; the client counts its retries | submit, list, get; bounded retry on backpressure (429) only; a lost connection is raised to the caller |
| Parser and trust | `parser.py`, `models.py`, `service.py` | none (pure) | `parse_report`, `_trust_status`, `_validation_fields` |
| Resource-slot adapters, device clients | `adapters.py`, `clients.py` | one in-process lock per `resource_key`; a real adapter's connected client | `run`: acquire, open the client, execute, collect, close it, release |
| Result queries | `store.py`, `postgres_store.py`, `api.py` | revisions and their findings; a page's cursor is the client's | `list_runs`, `create_revision`, `save_findings`, `new_violations` |
| Schema migration | `store.py`, `postgres_store.py`, `__main__.py`, `api.py` | the columns of the tables | add missing columns while a store is constructed |
| Progress publication | `progress.py` | none | best-effort notifications |
| Experiment and benchmark tools | `tools/` | none the service reads | start the components, load them, write measurements |
| Web dashboard | `ui/` | none | fetches runs and shows them |
| Contract challenger | `postgres_contract_store.py` | a benchmark's tables | used by no service |

How they interact:

* **API to store to worker.** `submit` inserts a QUEUED Run. In `local` mode the
  same process executes it on its pool; in `external` mode a worker finds it by
  polling `claim_next_run`; in `supervised` mode a Host Agent claims it, leases
  the Attempt and enqueues an execution request which a separate supervisor
  process claims.
* **Executor to child.** `adapter.run` starts OpenSTA in its own session and
  process group, calls the process observer with the pid, and waits with a
  timeout. A heartbeat thread renews the Attempt's lease meanwhile.
* **Reconciler to executor.** They never speak to each other. A reconciler acts
  on rows alone: an Attempt whose lease expired is claimed, its child is looked
  at through the recorded pid, waited for, signalled or found gone, and the rows
  are closed. The executor learns of it by a conditional update that matches no
  row.
* **Store to everyone.** The only mutual exclusion between processes is the
  `WHERE` clause of an update. The clock compared with a deadline is the wall
  clock of the process that issues the statement.

What makes each component correct, in one line each:

* *Execution and recovery*: whoever executes and whoever recovers, the Attempts
  of a Run form a ledger: opened in order, each closed once, none opened while
  the child of an earlier one lives; a success has a child that was seen to end;
  signals reach orphans and nobody else; a leased Attempt is closed in the end.
* *Supervised mode*: a request is executed by one supervisor; an Attempt is closed
  as lost only with a witness that its tool has ended; a host never has more
  requests in flight than its capacity.
* *Admission*: one Run per idempotency key, the same answer for a repeated
  submission, and never more open Runs than the budget, however many API
  processes and client retries there are.
* *Adapter*: `run` returns only when its child is gone, unless an observer raised; a
  cancellation that was acknowledged is never followed by a success, whatever
  timeouts and retries come between.
* *Trust*: TRUSTED needs a complete and consistent report, a zero exit code and valid
  provenance; a damaged report never yields a slack the tool did not compute.
* *Outcome*: metrics and events agree with the Run's row, and metrics follow a success.
* *Queries*: a listing misses no Run that stays as it is while the pages are read; the
  new violations of a candidate are exactly those the baseline did not have, once the
  findings of both are stored; before, an answer errs to one side only.
* *Resource slots*: no error on any path keeps a device, and nobody's client is closed
  by another user.
* *Schema migration*: a process that uses a store it migrated finds every column, and
  tables are altered by one process at a time and not under a running operation.

## 2. What is hard about it

`PROJECT.json` (`hazards`) lists every hazard at its line. They come in five
groups.

*Half-finished protocols.* `_execute` is about ten transactions with computation,
`Popen` and `sleep` between them. A crash can fall between any two, and the rows
it leaves must be recognisable to a reconciler that was not there.

*Stale reads.* `recover_stale_runs` first lists expired leases, then stale Runs,
then reads the rows of each of them, and only then looks at the future of one,
claims it, looks at a process and writes. Its owner may be alive and slow, or done by
then, and other reconcilers do the same at the same time.

*Late owners.* A heartbeat, a result check or a finalization may be issued before
a lease expires and arrive after.

*Processes outside the database.* A child survives its parent, its pid may never
have been recorded, or may by now name another process.

*Two stores, one contract.* SQLite rolls a two-row update back when the second row
does not match; PostgreSQL's version returns from inside the transaction block
and commits the first.

## 3. The plan

The modules, in the order in which they were written: the protocol that decides what
happens to a Run first, what surrounds it afterwards.

| Modules | Model | State |
| --- | --- | --- |
| `AttemptLedger` | abstract: what a Run promises about its Attempts | done |
| `ExecutionOwnership` | local and external mode: executor, heartbeat, child, reconcilers, both stores | checked and proved |
| `SupervisedExecution` | host sessions, dispatch and capacity, execution requests, supervisors, witnesses, recovery of another session's attempts | checked and proved |
| `RunBudget`, `RunAdmission` | abstract: what submission promises; `submit` in several API processes, the store's budget, the retrying client | checked and proved |
| `ReportParser`, `RunOutcome` | the parser and the trust classification; one execution from `adapter.run` to the stored metrics, with its timeouts, cancellations and retries | checked and proved |
| `RunPages`, `FindingRevisions` | listings over a changing table, the comparison of two revisions | checked and proved |
| `ResourceSlots`, `StoreMigration` | device locks with fallible clients; schema migration by racing processes | checked and proved |

The `MC` modules give the constants their values; each `*Proofs`, `*Safety` and
`*Refinement` module extends the module it is about, and none of them reaches a
`RECURSIVE` operator.

*Composition and abstraction.* `ExecutionOwnership` implements `AttemptLedger`, and
`SupervisedExecution` implements one such ledger per job, so that both ways of
executing keep the same promise. `RunAdmission` implements `RunBudget`; it hands its
QUEUED Run to the initial state of the two. `RunOutcome` looks at one executor from the
inside, where `ExecutionOwnership` takes its child's behaviour and its verdict as given:
its `fence` stands for the whole of the other module, namely whether the attempt's
row still lets this executor close it, and is lost at any time to a fault. `RunOutcome`
extends `ReportParser`, whose operators are its judgement. `StoreParts` puts the four
small modules side by side, since they share no state.

*Left.* Every safety property a run checks is also a theorem; section 8 says what is not.

## 4. Models and code

### `ExecutionOwnership`

**Granularity.** One action is one store transaction, one process-level effect
(`Popen`, a signal, a collected exit), or one decision on rows read by a single
statement. Purely local computation is folded into the action before it. The
listing `recover_stale_runs` runs first is an action of its own (`ScanExpired`),
separate from the stale query (`ScanStale`), from `get_run` (`ReadRun`) and from
the claim, because the code gives every other process the chance to move between
any two of them. The future is looked at after the rows were read, as in lines 358 to
361: `SkipLive` and the two actions that go on, `FailRunWithoutAttempt` and
`ClaimRecovery`, judge it, and a future that is done stays done.

**State.**

| Variables | In the code |
| --- | --- |
| `run`, `runLeft` | `runs.status`; `updated_at` as the time left until the Run counts as stale |
| `att` | `attempts.status`, `"NONE"` when there is no row |
| `lease`, `leaseLeft` | `lease_token`, `lease_expires_at` |
| `claim`, `claimLeft` | `recovery_token`, `recovery_expires_at` |
| `pid`, `graceLeft` | `process_pid` with its identity and group; `orphan_deadline` |
| `child` | the operating system's view: `none`, `alive`, `signalled` (SIGTERM sent), `dead`, `reused` (its pid names a foreign process), `hit` (that foreign process was signalled), `foreign` (it belongs to another user) |
| `epc`, `en`, `eout`, `beat` | the execution thread: where it is in `_execute`, `attempt_no`, how `adapter.run` ended, whether its heartbeat thread runs |
| `rpc`, `rn`, `rexp`, `rpid` | the recovery pass: where it is, the attempt it read, its set of expired leases, whether that attempt had a pid |
| `up`, `crashes` | the process runs; crashes so far |

A token is random (`uuid4().hex`), so the process that drew it can name it as
long as no two draws of one process are alive for the same Attempt: an Attempt is
leased at most once, and a pass of recovery reaches the claim's holder-only
statements only after its own draw has replaced any earlier one.

**Time.** A stored deadline is kept as the time it has left; `Tick` lets one unit
pass for every deadline at once, and stops at the value past which no condition of
the code tells a difference (-1 for "expired", 0 for "reached"). Time may pass
between any two actions, without bound, so every order of "the lease expires" and
"the heartbeat arrives" occurs with a lease of one unit. A longer lease adds only
states in which less has happened.

**Constants.** `SharedQueue` chooses external mode (workers poll, and recover only
between drains, `worker.py` 18-51) or local mode (the submitting process executes;
recovery may be asked at any time). `AtomicFinalize` chooses SQLite (TRUE) or
PostgreSQL (FALSE). `PsAvailable` says whether the host has the `ps` command:
`Dockerfile.host-agent` starts from a slim Python image without it, and
`Dockerfile.opensta-agent` installs it.

**Actions.** In `_execute`: `ClaimNextRun` (the worker's claim), `Start` (the first
`update_run`), `RecordAttempt`, `AcquireLease`, `SpawnChild` or `FailToSpawn`,
`RecordProcess`, `ChildCollected` or `ChildTimesOut`, `CheckLease`, `Finalize`,
`SettleRetry`, `NextAttempt`; beside it `Heartbeat` and `CancelBeforeExecution`.
In `recover_stale_runs`: `ScanExpired`, `ScanStale`, `SkipLive`, `ReadRun`,
`FailRunWithoutAttempt`, `ClaimRecovery`, `LookAtChild`, `ReleaseClaim`,
`AbandonAttempt`. The environment: `ChildExits`, `PidReused`, `Crash`, `Restart`,
`Tick`. A definition whose comment begins with "Faulty:" is used by no step: it is
the form a plausible bug would give its neighbour, and is substituted for it to see
that a property notices.

**Details a reader may look for.**

* The `finally` of `_execute` and the exception of a lost fence: `Finalize` that is
  refused for a result raises inside the `try`, whose last handler tries once more
  with FAILED (so `eout` becomes `"exception"` and the action is taken again); refused
  there, the exception leaves the thread. In external mode `drain` re-raises it from
  the future and the worker process ends (`Leave`), to be started again by
  `Restart`, or drops it when it was collecting futures to free a slot (`worker.py`
  38-41, as with a concurrency of one): `Leave` allows both.
* `record_attempt` is an upsert without a fence and `update_run` looks at no
  status; both are modelled so, and both matter (section 7).
* `RecordProcess` ignores a refusal, as `_record_adapter_process` does.
* `ChildCollected` reports "rejected" for a nonzero exit code as for a report that
  does not validate: `_execute` closes both as FAILED.
* `os.kill(pid, 0)` on another user's process raises PermissionError, which
  `recover_stale_runs` does not catch: `LookAtChild` then ends the pass with its claim
  held and, in external mode, the worker, whose `drain` and `serve` do not catch it
  either. One Run is modelled; in the code the Runs that come later in the same pass
  lose it too, and since `drain` recovers before it claims, such a worker claims nothing.
* A child that exited while its parent still waits is a zombie: `os.kill(pid, 0)`
  finds it, `ps` shows another command for it.
* `graceLeft` is set when the pid is recorded and is read again by the pass that
  looks at the child, so a pass that comes early releases its claim and a later
  one, of any process, starts over.

### `SupervisedExecution`

**Scope.** `_execute` returns in this mode after it enqueued the one request of the
first Attempt, so a Run is identified with its Attempt and both with a *job*. A
session is drawn at the start of a Host Agent's process and never again, so an
`Agent` is one process from start to end and thereby one session; what the code calls
a restarted Agent is the next Agent of the same host. Agents are numbered in the
order in which they start.

| Variables | In the code |
| --- | --- |
| `run`, `runLeft`, `att`, `leased`, `leaseLeft`, `claim`, `claimLeft` | as above; the holder of a lease is not kept, since nobody but the payload carries its token |
| `owner` | `execution_host_session`, set together with `execution_id` |
| `req`, `witness` | `eda_execution_requests.status`, `eda_execution_witnesses.kind` |
| `current`, `sessLeft` | `eda_hosts.current_session_id`, the deadline of that session |
| `child` | the tool of the job: `none`, `alive`, `dead` |
| `apc`, `view`, `expired` | an Agent's main thread: where it is between heartbeat and the last future, what the recovery pass decided of each Run it read, its set of expired leases |
| `tpc`, `tagent` | the execution thread of a claimed job, and its process |
| `spc`, `sjob`, `beat` | a Supervisor in `run_once`, its request, and which of its two statements the heartbeat thread issues next |

**Actions.** An Agent: `StartAgent`, `HeartbeatAgent`, `RefreshQueued`, then recovery
(`ScanExpired`, `ListStale`, `ReadRun`, `FailRunWithoutAttempt`, `ConsultWitness`,
`ClaimRecovery`, `AbandonAttempt`, `EndRecovery`), `RetireDeliveries`, and dispatch
(`CountActive`, `ClaimNextRun` or `NothingToClaim`, `CollectFutures`). Its execution
threads: `Start`, `RecordAttempt`, `AcquireLease`, `Register`, `Enqueue`, `GiveUp`. A
Supervisor: `ClaimRequest`, `SpawnChild` or `FailToSpawn`, `RecordStarted`,
`ChildCollected` or `ChildTimesOut`, `WitnessExit` and `Finalize`, or
`WitnessFailure`; beside it `BeatSession` and `BeatAttempt`. The environment:
`ChildExits`, `CrashAgent`, `CrashSupervisor`, `RestartSupervisor`, `Tick`.

**Details.**

* An Agent that was superseded raises out of `drain`; its execution threads go on
  until the pool has shut down, so `apc = "ended"` does not stop them, a crash does.
* A refused finalization, an adapter error and an observer that raises all end the
  Supervisor's process (`"down"`). The observer raises when the request is no longer
  CLAIMED, and leaves the tool running.
* `Register` and `RefreshQueued` look at the session's lease and not at the Attempt's,
  as the statements do: both may act on a lease that has expired.
* A supervised Attempt has no `process_pid` (only the request has one), so recovery
  never looks at a process.
* The statements pick the oldest queued row; the model lets them pick any.
* A closed row's deadlines are read by no condition and stand still.

### `RunAdmission`

A client's POST is handled by a thread of some API process; `submit` is three store
statements under the lock of that process's service, between which every other process
may act.

| Variables | In the code |
| --- | --- |
| `run`, `hash` | `runs.status` (terminal statuses as `ENDED`), `spec_hash`; a job id and its idempotency key are one |
| `futures` | `JobService.futures` of each process, the ones that are not done |
| `pc`, `host`, `peer`, `verdict` | a handler thread: where it is in `submit`, in which process, for whom, what it is going to answer (202, 409 or 429) |
| `known` | history: the Run was stored when this request arrived |
| `line`, `tries`, `told` | the client: the thread it waits for, its backpressure retries, what its last call returned |
| `faults`, `reopened` | lost responses, crashes and unfenced writes so far; the last of them apart |

**Actions.** `Post`, `LookUp` (the first `get_run` and the count of the local
futures), `CreateRun` (`create_run` with its own look at the key and its count, one
transaction under SQLite's write lock or PostgreSQL's advisory lock), `Reread` (the
second `get_run`), `Schedule` (the future of the local mode), `Respond`; of the
environment `LoseResponse` and `Crash`; of execution, as far as admission sees it,
`StartLocal`, `EndLocal`, `FutureDone`, `CancelQueued`, `Claim`, `EndClaim`, `Recover`,
`Reopen`. A client that lost its answer may be called again with the same `JobSpec`;
one that heard 429 retries up to `MaxRetries` times.

**Details.** A local future leaves `futures` only after its Run ended, for the metrics
and the `finally` clause follow the finalization: the count of `LookUp` can refuse a key
that `CreateRun` would admit. `Reopen` is the unfenced write of section 7, which puts a
Run back in flight that `CreateRun` no longer counted; it is the only term by which
the budget can be exceeded. In local mode nobody but the process that inserted a Run
executes it. `Recover` looks at the futures of its own process and at no others'; the
program's own entry points recover in `PostgresWorker.drain` only, tests and tools also in
local mode.

### `ReportParser` and `RunOutcome`

A report is a sequence of the lines the parser looks for, each with the kind, the word
and the number it carries; `parse_report` and the operators below it are the code's
conditions on how often a line occurs, on which lines are adjacent, and on how the
numbers add up; `Summary` is the one group of adjacent lines from which the numbers and the
MET or VIOLATED label are taken. `TrustStatus`, `Succeeds` and `SupervisorAccepts` are the three places
where a verdict is derived from the result and the exit code.

| Variables of `RunOutcome` | In the code |
| --- | --- |
| `adapter` | which adapter the service was given |
| `pc`, `attempt`, `verdict` | the execution thread, inside `_execute` and inside `adapter.run`; `attempt_no`; the arguments of the finalization to come, and whether an `except` clause made them |
| `child`, `code`, `measured` | the tool's process, its exit code; the slack of the analysis it did (history) |
| `registered`, `mark` | the job is in `_processes`, in `_cancelled_jobs` |
| `acked` | history: some call of `cancel` returned True |
| `row`, `fence` | `runs` with its status fields; whether the attempt's row is RUNNING under this executor's lease |
| `metrics`, `event` | the metrics row; the last progress event that reached the channel |
| `blind` | a reconciler has read the Run RUNNING without an Attempt, or has since written its unfenced FAILED |

**Actions.** `Start`, `Publish`, `RecordAttempt`; the adapter: `RunSynthetic`, or
`FailToSpawn`, `Popen`, `Register`, `ObserverRaises`, `Communicate`, `Timeout`,
`GraceEnds` (SIGKILL), `Unregister`, `CheckMark`; from other threads `Cancel`; then
`ReadResult` or `LeaseLost`, `Fail`, `Retry`, `Finalize`, `SaveMetrics` or
`SaveMetricsRaises`; the environment: `ChildExits`, `Crash`; of a reconciler the fenced
`Abandon`, and `ReadBlind` and `FailBlind`, the read without an Attempt and the unfenced
`update_run(FAILED)` of `service.py` 366, which may hit a Run that is SUCCEEDED, TRUSTED
and published by then. The delay between attempts is part of `Retry`.

**Details.** A child may end with exit code zero although SIGTERM was sent, and may
ignore it; SIGKILL cannot be ignored. A cancellation mark that came during the grace
period of a timeout is still there in the next attempt, whose child it cancels without
having been signalled. `Conclude` replaces the fields the code passes to
the finalization; fields it does not pass keep their value in the row.

### `RunPages`, `FindingRevisions`, `ResourceSlots`, `StoreMigration`

* `RunPages`: `SelectIds` is the keyset query with its `LIMIT`, `ReadRun` the read of one
  selected Run by a statement of its own, `SendPage` the cut at `limit` and the cursor;
  `WriteRun` is any update or insertion, with a stamp taken at any time before
  the statement took effect, because `update_run` reads the clock before it waits.
* `FindingRevisions`: `CreateRevision` and `SaveFindings` are separate transactions;
  `Ask` reads both rows and classifies the pair, `Compare` reads the findings by a second
  statement. `settled` holds those of the two whose findings were stored at `Ask`.
* `ResourceSlots`: a caller in `run` of an adapter; `Acquire` never waits, the client is
  opened, used and closed under the lock, and each of those calls may raise
  (`OpenFails`, the second disjunct of `Execute`, `Close` that leaves its client connected).
* `StoreMigration`: the SQLite constructor checks and adds one column after the other;
  PostgreSQL's locks `eda_attempts`, then `eda_execution_requests`, and commits once, while
  `Operate`, a worker's `release_terminal_execution_requests`, locks them in the opposite
  order; `BreakDeadlock` is PostgreSQL's rollback of one of the two, which ends that
  process, since neither a constructor nor `drain` catches it; `Die` is the end of a process
  anywhere. `Api` are the processes that migrate whatever they are told.

In every module a definition whose comment begins with "Mutant of" or "Faulty:" is used
by no step.

## 5. Runs, bounds and fairness

| Run | Question | Result |
| --- | --- | --- |
| `ownership_shared` | two workers, PostgreSQL, two attempts, one crash: is every safety property kept under all interleavings? | holds; 653,582 distinct states |
| `ownership_local` | one process on SQLite, two attempts, two crashes, recovery at any time: what parts the rows of the Run and its attempt, what happens to a verdict, and is a child left behind? | holds; 109,341 distinct states |
| `ownership_liveness` | two workers, fair scheduling, one crash: is a leased attempt always closed, unless its pid went to another user? | holds; 190,002 distinct states |
| `ownership_stuck` | does a Run whose child has ended leave RUNNING? | violated |
| `supervised_sessions` | one host, two Agents that replace one another, one Supervisor, one crash: is only witnessed, current work accepted, is the tool started at most once, and is the invariant of section 6 one? | holds; 983,016 distinct states |
| `supervised_dispatch` | one Agent, one thread, two jobs, one crash: is the capacity respected? | holds; 1,616,636 distinct states |
| `supervised_delivery` | two Agents that replace one another, one Supervisor, one crash, fair scheduling: does every delivery leave its slot? | holds; 334,014 distinct states |
| `supervised_overshoot` | the same capacity with two threads | violated |
| `supervised_foreign` | two hosts: is another session's Attempt recovered only with a witness? | violated |
| `admission` | two API processes, three clients, two keys, a budget of one, one fault: does submission keep its promises, and is what is accepted taken up? | holds; 388,812 distinct states |
| `outcome` | one Run, two attempts, cancellations at any time, two faults, a reconciler that read the Run too early, reports with up to two edits: is a trusted verdict the tool's, and do row, child, metrics and events agree? | holds; 14,708 distinct states |
| `store_parts` | listings, revisions, device slots and migration: do they keep their promises? | holds; 940,857 distinct states |

What each property says is stated beside its definition. In short:
`OwnershipInv`, the inductive invariant (section 6), which includes the types; `NoAttemptBesideLiveChild`, the
"duplicate execution" the repository's experiments measure; `SuccessIsWitnessed`;
`ImplementsLedger`, the refinement of `AttemptLedger`; `SignalsOnlyOrphans`;
`ReopenedOnlyUnfenced`, which names the two writes that may change a terminal Run;
for the local profile `RowsPartOnlyUnfenced`, `LocalVerdictKept` and
`ClosedOverNoLiveChild`;
`ExpiredLeaseNeverSucceeds` and `LeasedAttemptEnds`. In the supervised mode: `SupervisedInv`, the inductive
invariant; `AcceptedIsWitnessed` and
`DeliveriesAgree` tie the four tables of a job together; `ImplementsLedgers` is the
ledger with one entry per job, that is, at most one start of the tool;
`SupersededNeverAccepted`; `CapacityRespected`; `DeliveryEnds`. Of admission:
`AdmissionInv`, its inductive invariant; `BudgetRespected`; `RepeatIsNotRefused`, for a
key that was stored before the request arrived; `ScheduledOnce`; `ImplementsBudget`, the
refinement of `RunBudget`; `AcceptedRunIsTaken`. Of one execution: `OutcomeInv`, its
inductive invariant; `TrustFollowsSuccess`; `TrustedSlackIsTheTools`, over damaged
reports; `MetricsBelongToVerdict` and `MetricsFollow`; `CancelledNeverSucceeds`;
`EndedRunHasNoChild`; `TerminalEventIsTrue`; `RunEnds`. Of the small components:
`PartsInv`, the types of the four and the inductive invariants of the first two;
`UnchangedRunIsListed`, `AnswerErrsToOneSide`, `SlotReturned`, `UserIsUndisturbed`,
`OpenedIsComplete`, `MigrationIsAlone`.

**Bounds.** Two processes are the fewest that can race; the third would repeat one
of the two roles (owner, reconciler, second reconciler: a crashed owner restarts as a
reconciler, so the three roles do meet). Two attempts exercise the retry loop, the
last-attempt branch and "an earlier attempt's child". One crash is enough to orphan a
child, to leave any row half done and to interrupt a recovery; the local run allows
two, the second of which hits the recovery. `LeaseTicks`, `ClaimTicks` and
`GraceTicks` of one unit make every deadline both open and passed (see *Time*).
`MaxCrashes` is the only cap on a counter. One Run is modelled: no statement of these
paths relates two Runs other than the order in which they are scanned. Processes are
permuted (`SYMMETRY`) in `ownership_shared` only; the liveness runs and the violation
runs are explored in full. Deadlock checking is on in the ownership
runs: a worker can always poll, a local service can always be asked to recover.

In the supervised runs `AgentsPerHost` bounds how often a host starts an Agent: two,
so that one can supersede the other before, while and after it dispatches. When all
have ended nobody is left to act, hence `CHECK_DEADLOCK FALSE`. Two jobs compete for
one slot in the dispatch runs; the other runs have one job, since only the count
of deliveries relates two. In the delivery run the first Agent can be the slow
reconciler: it reads the Run without its Attempt, the second Agent leases, registers and
enqueues, the first fails the Run, and the Supervisor crashes. An Agent of another host
does nothing to the job that a replaced Agent of the same host does not (neither observes
the other's children), and two hosts with one Agent each were found to keep `DeliveryEnds`
as well (1,457,782 states), in more time than the run is worth. Its specification,
`DeliverySpec` of `MCSupervisedExecution`, stops where the property asks nothing more: a
request that ended, an Agent that ended and a hidden Run stay so.

`admission` has two keys and three clients, two of which want the same key with different
bodies, so that a repetition, a conflict and a competitor at the budget of one all
occur; two handler threads, in one process or in two, so that `submit` races with itself
with and without the common lock; one retry and one fault (`MaxRetries`, `MaxFaults`), so
that a response is lost, a process dies or a closed Run is reopened at every point. When
all clients have an answer and all Runs have ended, nothing is left to do:
`CHECK_DEADLOCK FALSE`.

`outcome` has two attempts for the same reason as above and two faults, so that a lost
lease meets an exception. `MaxDamage` is two: `MCRunOutcome` enumerates the reports of a
passing and of a violated path with up to two edits (lines dropped, repeated, changed in
word or number, cut off, an error line appended), because one edit is always noticed
while two could cancel each other out. An execution that is over stands still, hence
`CHECK_DEADLOCK FALSE`.

`store_parts` lets one of its four parts step in each behaviour, since they share no
state; the others stay in one state. Pages have one Run over a table of three, so that
there are three pages; two writes (`MaxWrites`) and a clock of three values (`MaxClock`)
put a moved Run above, below and beside the cursor with equal and with different stamps.
Three revisions give a comparable pair and a pair with another tool; their findings
repeat, improve, worsen and introduce paths. Three callers contend for two adapters of
one device while a fixture is free. Three processes migrate three columns, so that one
can die between two columns while the others are at different ones. The last page, the
last answer and a finished set of writes end a part: `CHECK_DEADLOCK FALSE`.

**Fairness** (`Fairness`), and why the code justifies each conjunct:

* WF of a process's execution and recovery steps: threads are scheduled, store
  statements return, `serve` polls in a loop.
* WF of `Restart`: a process that ended is started again. The repository names no
  supervisor of its services, so this is a premise about the deployment, without which
  nobody is left to recover anything.
* WF of a signalled child's exit: OpenSTA installs no handler, so SIGTERM ends it.
  Nothing makes an unsignalled child exit.
* WF of `Tick`: time passes.
* SF of `LookAtChild` and `AbandonAttempt` while the claim is held: a pass may be
  slower than its claim now and then, but not for ever. The claim lasts
  `recovery_lease_seconds` (30 seconds by default) and covers three statements. Without
  it two reconcilers may take the claim from each other for ever, which is a
  behaviour of the code that only scheduling excludes.
* No fairness for `SkipLive`, whose alternatives have it: what follows the look at a
  future is one of the recovery steps above.
* No fairness for `Heartbeat`, `Crash`, `ChildExits` of a healthy child, `PidReused`.

The supervised mode's `Fairness` asks for weak fairness of execution threads, Agents,
Supervisors, the restart of a Supervisor, and `Tick`. No heartbeat of a Supervisor
needs to arrive and no tool needs to exit by itself, for the adapter's timeout ends it.
An Agent's end is an allowed outcome of `DeliveryEnds`.

`RunAdmission.FairSpec` asks for weak fairness of the handler threads and of the start of a
local future: each is a thread that is scheduled, and the pool is taken to have one for each
Run of the budget (`max_workers` of at least `max_in_flight`); with fewer, a start waits
for the end of an execution. That an execution ends is no premise: an executor that dies
leaves its Run RUNNING for ever (`ownership_stuck`). Nor is a worker: in external mode they
may all be dead, and nothing is promised of what is QUEUED. `AcceptedRunIsTaken` exempts the
local mode after a fault: a process that dies takes its queued Runs' only executor along.

`RunOutcome.FairSpec` asks for weak fairness of the executor's thread and of the exit of
a child that was sent SIGKILL. The tool may hang and ignore SIGTERM. A timeout is a step
of the executor and so happens if the child does not end.

`LeasedAttemptEnds` is stated of attempts that have a lease, and ends also when the
Run was closed without the attempt or the child's pid went to another user: the
restrictions are those of the code, and section 7 shows the runs where they matter.

## 6. What is proved

### Execution and recovery

`ExecutionOwnershipProofs`, `ExecutionOwnershipSafety` and
`ExecutionOwnershipRefinement` prove for every set of processes, every number of
attempts, every duration, both stores, both modes and any bound on crashes:

| Theorem | Statement |
| --- | --- |
| `Typing` | `Spec => []TypeOK` |
| `Ownership` | `Spec => []OwnershipInv` |
| `NoAttemptOverlaps` | `Spec => []NoAttemptBesideLiveChild` |
| `SuccessWitnessed` | `Spec => []SuccessIsWitnessed` |
| `OnlyUnfencedWritesReopen` | `Spec => ReopenedOnlyUnfenced` |
| `LedgerImplemented` | `Spec => ImplementsLedger` |
| `OrphansOnly` | `Spec => SignalsOnlyOrphans` |
| `LateOwnerRefused` | `Spec => ExpiredLeaseNeverSucceeds` |
| `LocalRowsAgree` | `Spec => RowsPartOnlyUnfenced`, where `OneLocalProcess` |
| `LocalRunStaysClosed` | `Spec => LocalVerdictKept`, where `OneLocalProcess` |
| `LocalChildIsAwaited` | `Spec => ClosedOverNoLiveChild`, where `OneLocalProcess` |

The assumptions are `ProcAssumption` (NULL is no token), `BoundAssumption` (durations
and `max_attempts` are positive) and `ModeAssumption`; TLC evaluates them in every run.

**The argument.** None of the safety properties is inductive. That no attempt is
opened beside a live child needs to know that the thread which opens it is the only
one, that it has settled the previous attempt, and that settling happened after the
child was collected. `OwnershipInv` therefore says:

* `SoleExecutor`: at most one thread is anywhere in `_execute`. A QUEUED Run has
  nobody in it (or, in local mode, the thread about to start), and a Run is QUEUED
  only once; this carries the rest, for it makes `claim_next_run` the one place where
  an executor appears.
* `AttemptRow`: rows open in order behind RETRYABLE_FAILURE rows; only a RUNNING or
  ABANDONED row can have a live child; SUCCEEDED and CANCELLED rows have an ended
  one; a recovery claim implies `LeaseLost`.
* `OwnAttempt`: what each point of `_execute` may rely on. The row between
  `record` and `lease` has no lease, therefore cannot be claimed by a reconciler,
  therefore is still RUNNING when the lease is taken.
* `OrphanClaimed`: a reconciler past its claim works on a lost lease, however long
  ago the claim was granted.

The pivot is that `LeaseLost` is stable: a lost lease is renewed by no statement
(`RenewalKeepsLost`), which is exactly the `lease_expires_at >= now` in
`heartbeat_attempt` and in the write fence, and a new lease is never drawn for the
same attempt because its executor goes through `AcquireLease` once. From it follow the
refusal of late owners, the restriction of signals to orphans, and, with
`SoleExecutor`, the ledger. The proof that a step preserves the invariant has one step
per action (`ExecSafety`, `RecoverySafety`, `StepSafety`); the refinement has the same
shape (`ExecRefines`, `RecoveryRefines`, `StepRefines`), each action being mapped to an
`AttemptLedger` step or a stutter.

**The local profile.** One process that executes and recovers does better than workers that
share a queue, and less than the plan of 2026-09-24 says (line 63: a terminal transition is
recorded once): see "a success is overwritten" in section 7. Under `OneLocalProcess`, local mode and at most one process, three things are
proved. The rows of the Run and of its last attempt agree until the unfenced FAILED of a
pass that read the Run without an Attempt; a Run that has ended is not reopened; and no
write closes a Run over a live child whose pid the store has. The store may be either,
although the run has SQLite: an attempt that passes its write fence is RUNNING, hence so is
the Run, and PostgreSQL's half commit does not occur.

The strengthening is `LocalInv`. A future that has begun keeps the Run RUNNING until it
closes it, and a pass that goes beyond the look at the future stands behind an execution
that is over (`RecoversBehind`): the rows it decides on may be older than that execution,
but what it claims is the row as it is. So the abandoning write, which names a RUNNING
attempt, the last one by `AttemptRow`, finds the Run RUNNING, and the unfenced one parts
the rows for good if an Attempt was recorded since. A child that lives when a Run is closed
is one whose executor died (`WatchesChild`): the pass that closes the Run either found the
attempt without a pid, or saw by its pid that the child is gone.

### The supervised mode

`SupervisedExecutionProofs` proves for any hosts, Agents, Supervisors and jobs, any
durations and any number of crashes:

| Theorem | Statement |
| --- | --- |
| `Supervised` | `Spec => []SupervisedInv` |
| `SuccessNeedsWitness` | `Spec => []AcceptedIsWitnessed` |
| `DeliveriesKeepTheirMeaning` | `Spec => []DeliveriesAgree` |
| `Refinement` | `Spec => ImplementsLedgers` |
| `ReplacedSessionsAreFenced` | `Spec => SupersededNeverAccepted` |
| `SequentialDispatchRespectsCapacity` | `Spec => []CapacityRespected`, where each host starts one Agent, with one execution thread, and the jobs are finitely many |

Assumptions: `NullAssumption` (NULL is no session) and `SupervisedBounds` (durations,
capacities and numbers of processes are positive).

`SupervisedInv` puts the rows of a job in an order. Without a lease there is no
registration, without a registration no request, without a claimed request no tool and no
Supervisor at work, without a collected tool no `PROCESS_EXITED`, without that witness no
verdict (`RowInv`). `ThreadInv` says what `_execute` may rely on up to its enqueue; it is
also why the failure handler never closes the Attempt: the handler's fence asks for a
registration, and the thread leaves for the handler only without one. A request is taken
from QUEUED, when nobody works on it, and never returns there, hence `AloneInv`: one
Supervisor at most works on it, through any crashes and restarts. A crashed Supervisor
forgets its request and no other one takes it, so the tool is not started twice. Whoever
works on a request may find it UNAVAILABLE, since recovery retires it at any time, but not
witnessed (`SupervisorInv`).

From the invariant `Moved` lists the six things a step can do to an Attempt and its tool,
each of which is a step of the ledger. Two statements write sessions (`SessionWrites`): a
registration is made once, and a host's current session is replaced only by an Agent that
starts and so has registered nothing. Hence a superseded Attempt stays so, and
`finalize_attempt_and_run` refuses it.

The capacity needs `DispatchInv` as well, which is not inductive with two threads: the
slot that a count found free is still free when the thread enqueues, because the Agent has
no other thread and its host no other Agent (`SlotKept`). `supervised_overshoot` is the
counterexample without that hypothesis.

### Admission

`RunAdmissionProofs` proves for every set of processes, handler threads and clients, every
finite set of keys, every budget, and any number of retries and faults:

| Theorem | Statement |
| --- | --- |
| `Admission` | `Spec => []AdmissionInv` |
| `BudgetHolds` | `Spec => []BudgetRespected` |
| `RepeatsAreRecognised` | `Spec => []RepeatIsNotRefused` |
| `SchedulingIsExclusive` | `Spec => ScheduledOnce` |
| `BudgetImplemented` | `Spec => ImplementsBudget` |

Assumptions: `WantsAssumption` (each client wants some job with some body),
`NullAssumption` (the null values are none of the others), `AdmissionBounds` (the keys
are finitely many, which the cardinalities need; the budget is positive).

A thread decides on what it read in an earlier statement, so no promise is inductive by
itself. `AdmissionInv` says what such a reading is still worth. Rows are never forgotten
and a `spec_hash` never changes, so "the key exists" and the answer computed from it stay
true (`ThreadInv`); whoever is in `create` was told that the key did not exist, and knows
nothing. The thread that inserted a row is alone with it until it has made the future:
the row is QUEUED, no process has a future of it, no other thread is about to make one
(`ScheduleInv`). A client waits for a thread that works for it (`ClientInv`). The budget
needs only that every insertion counts in its own transaction, plus the arithmetic of
`RowSteps`: at most one Run enters the set of open Runs in a step.

### One execution

`RunOutcomeProofs` proves for any number of attempts and faults and for any reports:

| Theorem | Statement |
| --- | --- |
| `VerdictsAgree` | for every report and exit code, `_execute`, `_trust_status` and the Supervisor's condition accept the same results |
| `OutcomeInvariant` | `Spec => []OutcomeInv` |
| `TrustMatchesSuccess` | `Spec => []TrustFollowsSuccess` |
| `MetricsMatchVerdict` | `Spec => []MetricsBelongToVerdict` |
| `CancellationHolds` | `Spec => []CancelledNeverSucceeds` |
| `EventsAreTrue` | `Spec => []TerminalEventIsTrue` |
| `NoChildOutlivesItsRun` | `Spec => []EndedRunHasNoChild` |
| `DamagedReportsAreTrue` | a report of OpenSTA that was damaged and is accepted says the slack of the analysis |
| `TrustedSlackIsTrue` | `Spec => []TrustedSlackIsTheTools`, where `ToolIsTrue` and `SyntheticIsTrue` |

Assumptions: `OutcomeBounds` (at least one attempt) and `OutputAssumption` (the adapters
write something, and slacks are integers). Nothing is assumed of the lines of a report,
except in the last two theorems.

`ParseResults` bounds what `parse_report` can return; with it `VerdictsAgree` is a case
split. The invariant rests on three facts. The fence goes with an open row: while the
executor holds it the Run is RUNNING, so what closes the Run takes the fence along
(`RowInv`), but for the unfenced FAILED, which takes nothing along. Where it was written the
status is FAILED, whatever the other columns say (`blind`), until at most the executor's first
`update_run` reopens the Run; a finalization that still has its fence then finds the Run
closed and changes no column of it. `TrustFollowsSuccess` and `TerminalEventIsTrue` name
that write as their one exception, `EndedRunHasNoChild` beside the faults. A verdict agrees with itself before the finalization and with the row after
it (`VerdictInv`). The mark of an acknowledged cancellation stays, through timeouts and
retries, until it becomes the verdict, and a thread past the check of the mark has none
(`CancelInv`); this is where `cancel` looking at the registered process matters, for a mark
set between the check and the finalization would come too late. `ChildInv` keeps the live
child inside the adapter.

**The slack.** `ReportsPath` is what a report of OpenSTA says of one path, in any number of
lines: every slack and worst-slack line carries the slack, the required line the required
time, the arrival lines the arrival time and below it its negation. `DamageOf` lets any
lines of it be lost, any be repeated where they stand, and any two be replaced by
arbitrary ones. The parser compares the worst slack with the path's (E1), the path's with
required time plus signed arrival (E2), and the signed arrival with the first one (E3). A wrong
slack must be written into both slack lines, by E1; then the other lines are the tool's,
and E2 and E3 say the true one. The order of lines matters here: without it, two
arrival lines that change places would reverse the sign, which is why lines may be
lost and repeated but not moved. Nor does damage of that size make a synthetic
report out of it, which needs six fields OpenSTA does not write (`NoSyntheticField`).
`ToolIsTrue` says that each output of the tool is such damage of a report of the path whose
slack it was, `SyntheticIsTrue` that a synthetic report names the slack the adapter was
told. The reports of `MCRunOutcome`, which edits up to two times by dropping, repeating,
changing, cutting off or appending, are of that kind. `SlackInv` carries the slack from the
parse through the finalization to the metrics: a trusted verdict brings its check along,
and whoever still holds the fence has not written a trusted row yet.

### Slots and migration

`StorePartsProofs` proves for any callers, adapters and resources, and for any number of
columns and of processes:

| Theorem | Statement |
| --- | --- |
| `SlotsAreReturned` | `SlotsSpec => []SlotReturned` |
| `UsersAreUndisturbed` | `SlotsSpec => []UserIsUndisturbed` |
| `OpenedStoreIsComplete` | `MigrationSpec => []OpenedIsComplete` |
| `MigrationExcludesOperations` | `MigrationSpec => []MigrationIsAlone` |

Assumptions: `SlotsAssumption` (every adapter has a resource) and `ColumnsAssumption`
(there is a column to add). The argument for slots is that being inside `run` and holding
the resource's lock are the same thing, so two callers inside are on different
resources. For the columns it is that none is ever dropped and that a SQLite
constructor at column n has seen 1 to n - 1. For the locks, that whoever takes one finds it
free (`ProcessMoves`): the attempts before anybody else has them, the requests when no
operation is under way; a rolled back or dead process holds none.

### Listings and comparisons

`StoreQueriesProofs` proves for any finite set of Runs, any page size, any statuses and any
number of writes, and for any revisions with finitely many findings:

| Theorem | Statement |
| --- | --- |
| `ListingIsComplete` | `PagesSpec => []UnchangedRunIsListed` |
| `ComparisonErrsToOneSide` | `RevisionsSpec => []AnswerErrsToOneSide` |
| `PartsAreInvariant` | `Spec => []PartsInv`, of `StoreParts` |
| `PartsAreIndependent` | `Spec => PagesSpec /\ RevisionsSpec /\ SlotsSpec /\ MigrationSpec`, of `StoreParts` |

Assumptions: `PagesAssumption` (job ids are compared as numbers are, and are finitely
many; a page has room for a row) and `RevisionsAssumption` (findings are finitely many,
slacks are integers, and a revision's conditions are its design, conditions and tool).

A page is selected by one statement and read by others, and its last row as it was read
becomes the cursor: the cursor is a key that the selection never saw. `PagesInv` says that
every matching Run that was not written is `Reached`: shown, below the cursor while
a page is to be selected, or, while one is read, among the first `Limit` ids or below
`Boundary`, the key at which the page will be cut. If the row at the cut is still to be read, the
boundary is its key as it is now. A write to that row moves the boundary; as long as no
stamp goes back it moves up, and what was below it stays below (`WriteStep`). That is the
place where `receded` is needed, and the only one. `SelectStep` needs that `ORDER BY ...
LIMIT n` leaves out only rows below those it returns (`NewestRows`): with the places of
a finite, strictly ordered set as a bijection to an interval (`Places`), the row
in place i - 1 exists and is unique, so the `CHOOSE` of `Newest` is what it says.

`AnswerErrsToOneSide` compares an answer computed from rows of findings with the least slack of
each path. A least slack exists because findings are finitely many (`LeastInteger`), and is
negative exactly if some finding of the path is (`WorstSlack`). `RevisionsInv` says the
findings are there or not there as a whole, and what an answer is worth by which of the two
revisions were settled when the question was asked: a missing baseline adds paths that were
negative before, a missing candidate leaves paths out, and neither does both.

`PartsAreIndependent` connects `store_parts` with the theorems of this section and the one
before: a behaviour in which one of the four steps is a behaviour of each.

## 7. Where the code departs from its documents

* **A Run stays RUNNING for ever** (`ownership_stuck`, `RunEndsAfterItsChild`). An executor that
  dies in the retry
  delay leaves a last Attempt RETRYABLE_FAILURE with a lease token; every pass files
  it as an active lease.
* **The capacity is exceeded** (`supervised_overshoot`). `drain` counts requests, and a
  claimed Run is counted only once its thread enqueued one: with several threads (four
  by default) as many Runs are claimed on one count. The capacity note of 2026-09-29
  (line 13) says dispatching stops when the count reaches `max_in_flight`.
* **A foreign Attempt is recovered without a witness** (`supervised_foreign`,
  `ForeignNeedsWitness`). The
  session column is NULL until `record_attempt_execution`, which accepts an expired
  lease; a reconciler of another host that read the row before goes on to abandon it.

The following are visible in the models, as a guard, an exception in a property or a
premise, and have no run of their own:

* A success is overwritten, in the local mode too. `list_stale_running` returns all rows
  before any future is looked at. A Run read between `update_run(RUNNING)` (238) and
  `record_attempt` (248) has no Attempt; when its executor has succeeded and its future is
  done, line 361 does not skip it and line 366 writes FAILED, without a fence, over
  SUCCEEDED, TRUSTED and a published event. The plan of 2026-09-24 (line 63) says a terminal
  transition is recorded once, by a conditional update. `RowsPartOnlyUnfenced`,
  `LocalVerdictKept` and `ReopenedOnlyUnfenced` bound what that write does; the first with
  `RowsAgree` as a state invariant, or the second with `run' = run`, finds the trace.
* A failed Run is reopened. `_execute` begins with an unfenced `update_run` (238) as well: a
  worker slow between its claim and that statement reopens a Run that a reconciler failed.
  `ReopenedOnlyUnfenced` is proved: 238 and 366 are the only writes that change a
  terminal Run.
* An orphan is never closed if its pid went to another user's process: `os.kill` raises
  PermissionError (`service.py` 391), which nothing catches, in each pass of each worker. The
  plan of 2026-09-27 (lines 24-25) abandons the Attempt and fails the Run where the identity
  cannot be safely controlled. `LeasedAttemptEnds` names this (`PidForbidden`) as an exception.
* The API migrates beside running workers. `api.py` (17) constructs its store without a look
  at `EDA_POSTGRES_AUTO_MIGRATE`, so that a starting API deadlocks with a worker
  (`Deadlocked`), which PostgreSQL may choose to roll back and which then ends. The note of
  2026-09-30 on the start-up deadlock (line 89) says that runtime processes with migration
  disabled execute no DDL; it also keeps the default for callers that do not opt out, and
  the API has no way to.
* A delivery is hidden. In the supervised mode the FAILED of line 366 may meet an Attempt that
  was registered and enqueued since. The Run is no longer RUNNING and so in no list of stale
  Runs, and if its Supervisor dies the request stays CLAIMED although its Agent runs.
  `DeliveryEnds` names this (`Hidden`) as an exception; without it the run finds the trace.
* A comparison asked before the findings of a revision are stored is answered as COMPARABLE.
  No document promises otherwise; `AnswerErrsToOneSide` says what such an answer is worth.
* An Attempt is closed without its Run. PostgreSQL's `finalize_recovery`, whose docstring
  says "Atomically abandon" (`postgres_store.py` 226), and its
  `finalize_attempt_and_run` return from inside the transaction block when the Run row
  does not match (234, 264), which commits the Attempt's update.
* With the Agent and its Supervisor both lost, a delivery keeps its slot: the host's next
  Agent defers the foreign Attempt on every pass, and nobody writes the witness it waits
  for. The note of 2026-09-29 on the loss of a Supervisor (lines 57-59) excludes a slot that is
  permanently occupied. `DeliveryEnds` shows what does hold.
* A cancellation acknowledged during the grace period of a timeout is followed by another
  attempt, which it then cancels, or by TIMED_OUT if it was the last; the plan of
  2026-09-24 (line 84) has cancellation end in CANCELLED without a retry.
* Where `ps` cannot be run, the recorded identity is None, None matches every process, and
  a foreign process group that got the pid is signalled, although the plan of 2026-09-27
  (line 31) calls the guard fail-closed. `SignalsOnlyOrphans` names this case.
* A page is read row by row after its ids were selected, and `update_run` takes its stamp
  before it waits (`store.py` 180): rows within a page may be out of order, against the
  "stable page ordered by newest stored Run first" of `store.py` 239, and a stamp that
  moves back may hide a Run that did not change. `UnchangedRunIsListed` makes the
  second an exception.
* A supervised success has no metrics: `run_once` finalizes and never calls `save_metrics`.
  `MetricsFollow` is about the local and external modes.

## 8. Only model-checked, and not modelled

*Only model-checked.* `LeasedAttemptEnds`, `DeliveryEnds`, `AcceptedRunIsTaken`, `RunEnds` and
`MetricsFollow` are liveness under fairness, out of the prover's reach, as are ENABLED and
what a recursive definition computes for every input; the modules have no `RECURSIVE`
operator. Of the safety properties the passing runs check, five are proved under a hypothesis
beside the assumptions on constants: `RowsPartOnlyUnfenced`, `LocalVerdictKept` and
`ClosedOverNoLiveChild` (`OneLocalProcess`), `TrustedSlackIsTheTools` (`ToolIsTrue`, `SyntheticIsTrue`) and `CapacityRespected` (one Agent
per host, with one thread). The others are proved without one.

*Not modelled in any module.* The contract challenger (`postgres_contract_store.py`), a
benchmark's reduced copy used by no service. The tools under `tools/`, which start and
measure the components and keep no state the service reads. The web dashboard, which
shows what the queries return. The Redis client behind `progress.py`, and the replay
clients of `clients.py`. `close()` of services and stores. The `resource_slots`
semaphore, which delays the start of a child inside one process. The query index and
the metric rows that only benchmarks read. Clock skew between hosts: the profile the
documents claim is one host.

*Not modelled in `ExecutionOwnership`.* Store statements that raise (a lost database
connection in the middle of `_execute`); several Runs in one recovery pass, and so what
becomes of the later ones when it raises; two passes at once in one process; metrics and
validation fields, read by no guard of these paths, which `RunOutcome` has. `LookAtChild`
takes `kill`, `ps` and `killpg` as one step: the window in which a pid is reused between
the last two is the operating system's and is covered by no statement of the code.

*Not modelled in `SupervisedExecution`.* Store statements that raise, the order of
queued rows, `cancel` (the service that accepts a supervised Run has no process of its own
to cancel), the Supervisor's progress events, and the content of reports: a `Finalize` that
is accepted may choose either verdict. Dispatch by two Agents of one host, one of them
superseded, can exceed the capacity as two threads can, and is not checked apart.

*Not modelled in the others.* `RunAdmission`: malformed requests (400, 404), which change
no state. `ReportParser`: the regular expressions of a line, files that are not UTF-8,
numbers closer to each other than the code's tolerance, and non-finite ones. `RunOutcome`:
which file is missing or copied (`FailToSpawn`), store statements other than
`save_metrics` that raise. `ResourceSlots`: what a device answers. `RunPages`: malformed
cursors.
