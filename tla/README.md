# A verification project for litestar-sqlstack

TLA+ modules that model the concurrent core of `litestar-sqlstack`, the services around
it and its algorithms, configurations that check them with TLC on small instances, and
theorems that TLAPS proves for every instance. Paths are relative to `src/src/sqlstack`
unless they start with `src/`.

    tlc -config pool_safe.cfg MCWorker     # any run: see "Runs"
    tlapm WorkerProofs.tla                 # any *Proofs module

## 1. The system and its parts

sqlstack is a Litestar web application over PostgreSQL. Its one truly concurrent
subsystem is a background job queue: a table of jobs, worker processes that poll
and claim rows, heartbeats that show that a row is attended, a recovery that puts
unattended rows back, schedules registered at start, and a buffer of job logs.
Around it stand account services whose checks and writes are separate statements,
websocket streams, and much stateless code.

The database session is in autocommit: outside an explicit `begin_transaction()`
each statement commits alone. This is what most of the hazards come from.

| Component | State | Operations | Interacts with | What is hard, what makes it correct |
|---|---|---|---|---|
| **Job table, `TaskService`** (`domain/system/services/_task.py`, migration 0002) | a row per job: status, retry_count, heartbeat_at, scheduled_at, key | create, claim, complete, fail, cancel, clean up, requeue stale | every statement below goes through it | updates by id alone; two counters bound retries. A job has a bounded number of runs; no outcome is overwritten unless something went wrong |
| **Worker** (`utils/worker/worker.py`) | running tasks, semaphore, shutdown event | poll, claim, execute with timeout, report, requeue, shut down | table, heartbeat manager, publisher, log buffer | interleaving at every await, crash anywhere, cancellation in any handler. Every job is settled in the end; a healthy job is not taken away |
| **Heartbeat manager** (`utils/worker/heartbeat.py`) | active job ids, failure count | register, unregister, update in a batch | worker, table | a leak keeps another worker's row alive |
| **Wake-up listener** (`worker.py`) | one event | LISTEN/NOTIFY | worker | only shortens a wait |
| **Worker plugin** (`utils/worker/plugin.py`) | none but the table's keyed rows | register schedules at start | table, job registry | processes start together and read before they write. No schedule is left out; a change takes effect; it recurs |
| **Job log buffer** (`lib/log.py`) | entries, sequence counters | append, flush, reset | executions of one worker, table | a flush takes other executions' entries and awaits. Nothing is lost or stored twice without a fault |
| **Cloud Run worker** (`utils/worker/cloudrun_entry.py`) | one job | load, claim, execute, report | table | ignores schedule and claim when it fails a row |
| **Job registry, domain discovery** (`lib/jobs.py`, `utils/domains.py`) | registries, marks of what was discovered, a controller cache | register, discover, clear, initialize | plugin, application | imports fail and are retried. What is marked as found is there |
| **Cron** (`lib/jobs.py`) | none | parse, next run | plugin | calendar edges and time zones: the next run is the earliest time that matches |
| **Reset tokens** (`domain/accounts/services/_password.py`) | token rows | create, validate, use, invalidate, clean up | controllers | check-then-act across statements: a token is used once, the hourly limit holds |
| **Roles** (`.../_role.py`, `cli/commands/users.py`) | rows with unique names and slugs | create with a free slug, ensure defaults, delete | CLI, fixtures | the search for a slug and the INSERT are apart: the defaults are there at the end |
| **Accounts, assignments, sessions** (`_user.py`, `_user_role.py`, controllers, `lib/security`) | accounts, assignments, sessions | log in and out, administer, promote | every guarded route | a handler is authorized once and then runs statement by statement: an assignment is sound, and made once |
| **Installation id, system configuration** (`domain/system/services/_installation.py`, `_config.py`, `plugin.py`) | rows, a cache per process, the environment | get or generate, set, merge at start | settings, controllers, CLI | two processes generate: all should agree. Settings captured before the merge |
| **Realtime** (`lib/realtime`, `lib/websockets.py`) | subscriptions, seen keys, metrics | publish, stream, reset metrics | worker, channels backend | marked seen before sent, bounded memory: no message twice within the window, the counters add up |
| **Password checks** (`_password.py`, `utils/validation.py`) | none | validate, score | services, controllers | written twice: a validator and the score beside it agree |
| **Field validation** (`utils/validation.py`, `utils/types.py`) | none | validate and clean five kinds of text | schemas | written twice: what one layer returns the other takes |
| **Deployment tool** (`src/tools/deploy/k8s/deploy.py`) | the objects in the cluster | deploy, delete | kubectl | either may stop anywhere, and deleting goes on over errors: no object without what it needs |
| **System jobs, web controllers, service base, errors, hashing, settings, DI, tracing, fixtures, other tools** | none or set once | | | thin, sequential or pure |

`PROJECT.json` lists all of them under `components`, with the reason for each that
is not modelled, and the hazards with the line where each bites.

## 2. Modules

    TaskTable  <--EXTENDS-- Worker <--- MCWorker             (runs pool_*, ...)
                              `-- INSTANCE JobLifecycle  (abstract)
    Scheduler                                                (runs scheduler, ...)
    JobLogs    <--- MCJobLogs                                (runs job_logs, ...)

    TaskTable  <--- CloudRun <--.            (INSTANCE JobLifecycle, too)
    ResetTokens  Roles  Access <+-- MCServices               (run services)
    Realtime  Installation  <---'
    Cron  Passwords  Validation  Discovery  Deploy  <--- MCAlgorithms   (run algorithms)

The proofs, which EXTEND the modules that they are about:

    TaskTable  <--- TableProofs          Worker, TableProofs <--- WorkerProofs
    Scheduler  <--- SchedulerProofs      JobLogs             <--- JobLogsProofs
    Access, Roles, ResetTokens                               <--- AccountsProofs
    Realtime                                                 <--- RealtimeProofs
    MCServices, TableProofs, AccountsProofs, RealtimeProofs  <--- SystemProofs
    MCAlgorithms                                             <--- AlgorithmsProofs

The modules of the services and of the algorithms share no state with one another. Two MC
modules check them together: a variable `part`, chosen initially, names the component that
moves, and the others stay in an initial state.

**TaskTable** has the rows and one operator per statement of `TaskService`. A
statement is one step, since it commits alone; `claim_task` and `cancel_task` are
transactions that lock their row and are one step too. `get_pending_tasks` ends its
`FOR UPDATE SKIP LOCKED` with the statement, so its locks protect nothing and it
appears as the read `Eligible`. Time is the age of a row's heartbeat, in heartbeat
intervals.

**Worker** puts any number of worker processes on the table. A worker has a polling
loop (`fetched`, the rows selected and not yet tried), one program counter per
execution (`pc[w][j]`, the pieces of `_execute_task_inner` between awaits), the
heartbeat manager (`active`, `fails`, `beatDue`) and a mode (`_cleanup`'s phases).
Action by action: `Poll`, `Skip`, `Claim`, `LoopError`, `Requeue` are `_run` and
`_process_pending_tasks`; `Acquire`, `Body*`, `TimeoutFails`, `Complete`, `Publish`,
`Settle`, `Unwind`, `Finish` are an execution, with an error at each statement;
`Beat*` is the manager; `BeginCleanup`, `CancelRunning`, `Stop` are `_cleanup`;
`Crash` is death at any point. `Cancel`, `Cleanup`, `Create`, `TimeArrives` and
`Tick` are clients, maintenance and the clock.

**JobLifecycle** is what the queue promises about one job, seen from outside: it is
queued, attempted, put back, over, deleted. Every attempt begins from the queue, a
deleted row never returns, and a job that nobody holds changes only by claim, recovery,
cancellation or clean-up. Its
`StrictSpec` promises more: one attempt at a time, only that attempt settles the job, and
an outcome is final. The rows' statuses (`AbstractStatus`) and the executions under way map onto
it, those of the pool in `Worker`, those of the containers in `CloudRun`.

**Scheduler** is the start of the application processes: the SELECT of the queued
schedule rows, the loop over the names, `create_task`'s SELECT by key and INSERT, each
a step of its own, for every process. The table is a function from names to rows,
because the key is unique; workers and maintenance are three actions on a row. What a start
misses between its SELECT and the UPDATE that rests on it is recorded in `overtaken`.

**JobLogs** is one worker's log buffer. A flush is a sequence of steps: take the whole
buffer, insert entry by entry, or fail, warn (which appends an entry: the processor
captures the flush's own warning), restore, reset. `Final` is the flush of `_cleanup`,
which may run while executions are still unwinding, because `_cleanup`'s waits have
timeouts. Entries are identified by job, execution and sequence number; their text is
left out. Buffer, batches and table are multisets of entries, and the order in which a batch
is inserted is left open, since no property depends on it.

**CloudRun** is `cloudrun_entry.py` over the rows and statements of `TaskTable`. A container
has a `stage`: `Launch` loads the row and the registry, `FailUnknown` fails a job whose
function the image lacks, `ClaimJob` is `claim_task`, then the body, `Complete` and `Fail` the
outcome. Each statement may raise before or after its commit, and the claim and `complete_task`
share the handler of the job's own errors: a claim that raised ends in `FailStray`, one whose
session failed after the commit in `Fail` without a body (`"dropping"`), and so does a completed job.
`BeatOnce` is `_heartbeat_loop`; `Killed` the end of the container at any point. Beside it stand
a `rival` (a pool worker, reduced to claim, heartbeat and outcome), stale recovery, producers
and clean-up. The containers and the rival are the holders of `JobLifecycle`. `KeepsLifecycle` says
what they keep of its promise: all of it but in the steps that fail a job unclaimed, and the
strict one until the first such step, recovery or failure after completion. `strays` and
`premature` record those steps.

**ResetTokens** has the rows of `password_reset_token` and, per request, the statement it has
come to: `CountRecent`, `Invalidate`, `Issue` are `create_reset_token`; `Validate`, `MarkUsed`,
`Return` are `use_reset_token`; clean-up, deletion of an account and the clock interleave.

**Roles** has the rows of `role` (names and slugs are unique) and processes that create roles: by
`create_role`, by `ensure_default_roles` (`"name"`) or by the `create-roles` command (`"slug"`).
`Look` is the existence check, `Probe` one turn of `get_available_slug`'s loop, `InsertRole` and
`Refuse` the INSERT.

**Access** has accounts, the rows of `user_account_role` as counts, and sessions. A request is
authorized in the action that begins it (`Administer`, `Own`, from the guards of the routes) and
then runs one statement per action. The `create-user` command is a transaction and one step;
`promote-to-superuser` has none and is three.

**Installation** is the start of a process: `Import` captures settings, `Merge` copies the rows
of `system_config` into the environment and drops the cached settings, `SelectId` and `UpsertId`
are `get_id`; settings are read again at any time by `GetSettings`.

**Realtime** is `publish_event` and `stream_pubsub`. Each socket has a session with its queue, the
keys it has seen, the message in `send_json` and, as history, what the client was sent. `metrics`
is the one record that all sessions count in. The channels backend is external: it replays its
last messages and queues what is published.

**Cron** is one search of `get_next_run`: an action per jump (year, month, day, hour, minute), on
a calendar that is a parameter, with the time zone before and after. `get_next_run` goes to the
next month from the first of this one by 32 days, and `CalendarAssumption` says of a calendar
that as much (the days of its longest month and one) leads into the next month; the months as they
are satisfy it. `DaysBefore` counts the days of the months before. `FieldValues` is what the
parser makes of a field. **Passwords** holds both pairs of validator and score as operators on the
features of a password that any of them looks at; **Validation** the five validators and the types
beside them, on texts of symbols (a word that a list looks for is one symbol). Of Python's
`urlparse`, `Validation` has what it does to a text before and as it splits it: `Parsed` drops
every tab and line end and the control characters and spaces in front, `Scheme` and `Host` are in
small letters, and the user and the port are cut off. These two modules have no actions: TLC
evaluates them on every input of a set.

**Discovery** has `sys.modules`, the marks of `discover_jobs`, the two registries and the controller
cache. Importing anything of a domain runs the domain first, which imports its controllers and its
jobs (`Body`), so that each phase may load and register job modules: `Imports` is an import that
succeeds, `ImportRaises` one that leaves what had been run before it failed. `Walk`, `PassModule`,
`LoadModule`, `FailModule`, `FinishWalk` are `discover_jobs`, which may fail at every import and is
called again, forced or not. `DiscoverControllers`, `ScanPackage`, `ScanFails`, `FinishScan` are
`discover_domain_controllers`; it loses the controllers of a domain to an ImportError, and any
other error ends it. `InitControllers`, `ScanStep`, `InitJobs`, `WalkStep`, `EndJobs`,
`InitListeners` and `Ready` are `DomainPlugin.on_app_init`, which stops (`phase = "failed"`) at
what its phases raise. `Plain` are packages with no domain to iterate over, `Flat` those whose
jobs are one module. `fault` says what fails to import, and how, and changes. The schedules are the
set of the names that have one; `scans`, `failed` and `unimported` are history.

**Deploy** is `deploy` and `delete` with one action per manifest; `cluster` is what exists. `Fail` is
any exit, exception or interrupt.

**The same program, repaired.** In three modules a defect of the code stops everything behind it. A
Boolean that is constant through a behaviour chooses between the code as it is and the same
code with that defect repaired, so that what lies behind is checked too: `amended` in Access (the
columns that `update_last_login` and `set_password` write exist), `tokenDefaults` in ResetTokens
(the columns that the INSERT leaves out have defaults), `asText` in Deploy (`run_kubectl` passes
text). Both values are checked.

## 3. Runs

| Run | Instance | States | What it shows |
|---|---|---|---|
| `pool_safe` | 2 workers, 1 job, 1 slot, 1 retry, all six kinds of fault, 3 faults, 2 requeues | 0.2 M | types; `AttemptBudget`; `NoHeartbeatLeak`; `HealthyNotRequeued`; the refinement of `JobLifecycle` |
| `pool_strict` | 2 workers, 2 jobs, 2 slots, crashes only | 1.0 M | `FailedOnlyAfterRetries`; the strict lifecycle |
| `pool_live` | 2 workers, 1 job, all faults, 2 faults | 0.1 M | `EventuallySettled` |
| `scheduler` | 2 processes, 2 schedules, 2 releases, 1 death | 0.5 M | types; `UpIsScheduled`; `OverwritesOnlyOvertaken`; `EveryScheduleTreated` |
| `job_logs` | 2 jobs, 2 executions each, 1 entry per body, 2 faults | 1.9 M | types; `StoredOnce`; `Numbered`; `LostOnlyByOwner` |
| `services` | CloudRun with 2 containers, 1 job; 2 requests, 2 accounts, 3 tokens; 2 processes, 3 roles; 2 callers, 2 accounts; 2 processes, 3 ids; 2 sockets, 3 messages, 2 keys | 2.3 M | types; seventeen properties, named below |
| `algorithms` | calendar of 10 days, 3 zones; all passwords over 6 lengths; texts of up to 6 symbols; 2 packages, 4 job modules; 6 manifests, 4 commands | 0.4 M | types; six properties, named below |
| `timeout_spends_twice` | the pool with timeouts | | violates `FailedOnlyAfterRetries` |
| `slot_wait_requeued` | 1 slot, 2 jobs, no fault | | violates `HealthyNotRequeued` |
| `schedule_change_lost` | 1 process, 1 schedule, 2 releases | | violates `ChangeTakesEffect` |
| `schedule_runs_once` | 1 process, 1 schedule | | violates `Recurs` |
| `job_logs_dropped` | 1 job, 1 fault | | violates `PreservedForRetry` |

What `services` shows, for every interleaving of the statements:

* `RateBounded`, `LiveBounded`, `RedeemedBounded`: reset tokens exceed the hourly limit, one live
  token per user, and one redemption per token, by no more than the requests that overlap.
* `DefaultsPresent`, `SlugRefusedOnlyByRace`: default roles are there when the call that ensures
  them ends; a slug is refused only if another process got in between.
* `HeldBounded`, `AssignmentsSound`, `NobodyLogsIn`: an assignment is made no more often than
  requests overlap and names what exists; as migrated, nobody ever logs in.
* `OverlapOnlyAfterRequeue`, `KeepsLifecycle`, `AttendedNotRequeued`: a row has two executions, or
  its outcome replaced, only after recovery (or after a container without the function, or whose
  claim raised), and moves
  as `JobLifecycle` says; recovery takes nothing from a container whose heartbeats get through.
* `OneIdUnlessRace`, `SplitOnlyByRow`: processes agree on the installation's id unless two generated
  at a time; parts of one process disagree on a setting only because of a row in `system_config`.
* `ActiveBounded`, `CountsAddUp`, `Deduplicates`: gauge and counters of the streams, and delivery.

What `algorithms` shows, for every input of its sets:

* `NextRunIsFirst`, `NextRunIsLater`: the search passes over no match, which is checked against
  `Matches` minute by minute, and hides none by giving up, be it for want of a year, past the end
  of time or at its limit of iterations; and the next run is later than the moment it is computed
  from, the second pass of a repeated hour aside.
* `StrengthAgrees`: each password checker agrees with the analysis beside it. It does not compare
  the two checkers with each other, which accept different passwords.
* `LayersAgree`: what a validator returns fits the type of its field, but for exactly the URLs that
  `urlparse` reads otherwise than they are written.
* `DiscoveryComplete`: what was imported, in whichever phase, is registered; what is marked was
  imported or its failure logged; an application that is up has treated the jobs of all its
  packages; and an answer about controllers lacks only what an import error lost or what belongs to
  a list scanned before the last. The last clause says which answers the cache gets wrong, since
  with two lists it does; a scan that met a failed import is cached, too, until the cache is cleared.
* `DependenciesPresent`: no object in the cluster without what it needs, wherever commands stopped.

Bounds of these two runs. Two requests, processes, callers, containers and sockets are what it takes
to interleave; the properties count them, so a third would only shift the bound. `Hour = 1` has
three ages of a token (new, at the limit, expired) and `MaxPerHour = 2` fits twice into
`MaxTokens = 3`, one beyond the limit. `MCBase` has two names of one slug, the collision that the
counter is for. `MaxKeys = 1` with two keys has a key forgotten; three messages repeat one after
that; `MaxMissed = 2` is what `AttendedNotRequeued` needs to be tight. The cron calendar has
months of 3, 4 and 3 days, hours and minutes of two: each kind of jump, months of different
length, a day that some months lack, weekdays out of step with months and the end of the years
all occur, and 60 iterations are enough to reach each of them. The zones change at minute 10,
the start of an hour, and searches begin before and after it. Length limits in `Validation` are
scaled to the texts, so that texts at, below and above them occur; a URL has up to eight symbols,
enough for a disguised start, a user or a port. Password lengths stand on both
sides of every limit (8, 12, 14, 16, 20, 128). Discovery starts with at most one import that
fails, in every place and way (`MaxFaults = 1`), and its two events are a failure and a retry, or
the scans of two lists, of which the start's is a third; its three packages are one with a domain
that re-exports job modules, a flat one and a plain one;
four commands in Deploy a deployment, a deletion and another of each.

Runs over one job suffice for `AttemptBudget` and the lifecycle because jobs meet only
at the semaphore and in the batch; `pool_strict` has two for the batch, and
`slot_wait_requeued` two for the semaphore. Two workers are enough for a stale owner and
a new one. `StaleAfter = 3` heartbeat intervals is the ratio of the defaults (1.5 minutes,
30 s); `StartStaleAfter` stands for the five minutes used at start, kept small but longer.
`MaxRetries = 1` has both outcomes of a failure. In `pool_live` `MaxRequeues` is larger than
two faults allow to be reached, so the bound does not help liveness. One entry per body in
`job_logs` becomes two with a captured warning, so a batch holds up to four entries of two
jobs. Every run switches deadlock checking off: a settled pool, all processes up or a stopped
worker have nothing left to do.

`SYMMETRY` is used in runs of safety and action properties only, over workers (and jobs),
which the modules never tell apart.

### What the failing runs found

* **A timeout spends two retries.** `_run_job_function` calls `fail_task` and re-raises,
  `_job_failed` calls it again. With `max_retries = 1` the job fails for good after one run,
  and between the calls another worker may claim the row, which the second call then takes
  from it. The same second call may revive a row that a client cancelled in between.
* **Waiting for a slot is not attended.** Claims are not bounded by the semaphore and the
  heartbeat starts after it. A job that waits longer than `stale_after` is taken from the
  live worker that is about to run it, and runs twice: the case of
  `src/src/tests/integration/test_worker_integration.py:194`, "Test that multiple workers don't execute the
  same task.".
* **A changed schedule is lost.** The old row is cancelled and found again by its key.
* **A recurring job is executed once.** Nothing calls `reschedule_job`; a finished row's key
  passes for a registration.
* **Failed log flushes are not retried.** The reset after the flush drops what the flush put
  back. As the repository stands no migration creates `job_log` or `team_job_log`, so unless an
  application adds these tables this is every flush.

### What the passing runs of the services found

Where a document says more than the code does, the property states what the code does, and the
finding quotes the document:

* **Nobody can log in.** `update_last_login` sets `last_login`, the table has `last_login_at`.
* **A reset token cannot be inserted** in the tables as migrated: the statement leaves out columns
  that are NOT NULL without a default.
* **No manifest reaches kubectl**: bytes are passed to a process opened in text mode. With text, a
  deletion removes the namespace although `--delete-namespace` was not given.
* **The hourly limit and the invalidation of older tokens** hold for requests one after another only.
* **A weekday in a cron expression is off by one**: 0 and `SUN` run on Mondays.
* **A Cloud Run container fails a job it never claimed** when it does not know its function, and
  puts it back when its claim raises: another worker that is executing the job then has company.
  A completed job is put back too, when an error follows `complete_task`.
* **A URL is checked as `urlparse` reads it and returned as it was written**: with a tab, a control
  character or capitals in `http://`, which the type of the field refuses.
* **The controller cache answers the first of two lists with the controllers of the second.**

Two consequences the passing properties are shaped by: an error after `complete_task` (publishing,
closing the container, a cancellation) puts a completed job back to pending, and outcomes are
written by id over whatever the row has become. `JobLifecycle` without `Strict` allows both;
`AttemptBudget` bounds them; the strict lifecycle, in `pool_strict`, shows that crashes alone
cause neither.

## 4. Fairness

`Worker!FairSpec` assumes: every asyncio process goes on (weak fairness of the steps of its
loop, its executions and its heartbeat manager, since the event loop runs what is ready); a job
function ends or is timed out (the timeout is enforced by `wait_for`); the clock ticks and due
times arrive; a worker that is down is started again (its supervisor: the container restarts it).
Faults are finitely many (`MaxFaults`), and no fairness is given to any fault, to clients or to
clean-up. Under this every job created is settled.
The modules of the services and algorithms state safety only and assume no fairness.

`Scheduler!FairSpec` assumes: processes are started and run (the same supervisor), a queued row
falls due and is claimed (a worker is up), and an execution that is retried again and again ends
at last (strong fairness of `End`: `max_retries` allows finitely many retries).
`Recurs` fails under it, without any fault. Clean-up has no fairness: no code calls
`cleanup_old_jobs`.

## 5. Proofs

All statements are proved for every value of the constants: any number of jobs, workers,
processes, schedules, slots, faults, requests, accounts, sockets, containers, any calendar,
manifests, texts. They rest on the assumptions named in the modules alone (`TableAssumption`,
`WorkerAssumption`, `SchedulerAssumption`, `JobLogsAssumption`, `CloudAssumption`,
`InstallAssumption`, `AccessAssumption`, `RolesAssumption`, `TokensAssumption`,
`RealtimeAssumption`, `PasswordsAssumption`, `DiscoveryAssumption`, `CronAssumption`,
`CalendarAssumption`, `ValidationAssumption`, `DeployAssumption`), which TLC evaluates in the
runs. Where a theorem has a hypothesis besides, it is named below with the run that fails without
it. Every safety invariant and action property that a passing run checks has a theorem.

**TableProofs** are the lemmas about the rows, one per statement of `TaskService`, which the pool
and the Cloud Run containers share. `Accounting` says that a row has had at most as many claims as
retries spent, plus one unless it is in the queue, and that the retries spent are at most
`max_retries` plus the recoveries.

**WorkerProofs.**

* `TypeCorrect`, `AttemptBudgetHolds`. `AttemptBudget` (a job is claimed at most `max_retries + 1`
  times plus once per recovery) is not inductive: whether a claim keeps it depends on how many
  claims a queued row may already have. The strengthening is `IInv`: types and `Accounting`. It holds
  with every fault, a timeout included: the double `fail_task` wastes retries but never gains one.
* `NoHeartbeatLeakHolds` is inductive on top of the types.
* `HealthyNotRequeuedHolds` adds `AttendedInv`: the executions that have begun are registered, a
  worker that is down has none, and the row of an execution yet to be settled is `Young`: its age is
  at most the heartbeats that failed in a row, one more if one is due, and zero until it is
  registered. Hypotheses: every job finds a slot (`EverySlot`; the run `slot_wait_requeued` violates
  the property without it), and the recovery at start is no more eager than the periodic one
  (`StaleAfter <= StartStaleAfter`, as the defaults are).
* `ImplementsLifecycleHolds`: any pool implements `JobLifecycle`, step by step under the mapping of
  the instance in `Worker`.
* `StrictLifecycleIsExclusive` is about the abstract specification: whatever implements the strict
  lifecycle gives each job one holder at a time, only while the job runs, and a terminal status that
  only clean-up ends. With the next item the pool has both.
* `FailedOnlyAfterRetriesHolds`, `ImplementsStrictLifecycleHolds`: hypothesis `CrashesOnly` (with
  timeouts the run `timeout_spends_twice` violates the first). Under it `HolderInv` is inductive: one
  execution at most has an outcome to write (`Alone`), its row is running (`Holds`), and with
  `AttendedInv` no recovery comes between. `AllPaid` then says that a row has been claimed at least as
  often as retries were spent, once more while it runs.
* `FailedOnlyWhenSpentHolds` needs no hypothesis: in any pool, with any faults and however few the
  slots, a job fails for good only when its claims and recoveries exceed `max_retries`, where a claim
  counts twice if jobs may time out (that is the `fail_task` too many of `timeout_spends_twice`, and
  all it costs). What an execution may still spend depends on where it is, so `Covered` counts
  those that have an outcome to write (`Writers`) and those that would write two (`Early`) with the
  retries spent, against the claims; `KindOfStep` sorts the steps into those that add an execution,
  spend a retry, recover or do neither.
* `OverlapOnlyAfterRecoveryHolds`: unless jobs time out, there are at most one execution of a job and
  one more for each recovery, after crashes, shutdowns, failed statements and late outcomes too.
  `Crowded` is the count behind it: all the executions that may yet write the row, with one less
  allowed while it is in the queue.
* `BeatenStaysBeatenHolds` says without `EverySlot` what `HealthyNotRequeued` says with it: the wait
  for a slot is the only gap. Once a heartbeat of an execution has got through, the age of its row
  is at most the failures since, and recovery leaves it alone while these are few. Hypothesis:
  `StaleAfter <= StartStaleAfter`.

The last three are stated in `Worker` and are in no run's list. TLC agrees on the instance of
`pool_safe` (`OverlapOnlyAfterRecovery` with `"timeout"` removed) and, for `BeatenStaysBeaten`,
with one worker, two jobs and one slot. It also finds that the first is sharp, with timeouts and
without (`> MaxRetries + 1` is violated), and that two executions do overlap after a recovery.

**SchedulerProofs.** `SchedulerTypeCorrect`, `UpIsScheduledHolds`, `OverwritesOnlyOvertakenHolds`.
The inductive invariant adds `Recorded` (a row that exists was given to its schedule; an executed
one exists) and `Progress` (a starting process has left behind no name without a row, and the rows
it found at its start are still there). The second rests on the guard of `Purge`: retention is
longer than any start. `OverwritesOnlyOvertaken` needs two more: no row in a worker's hands is
queued (`Exclusive`), so a row found by a SELECT is in nobody's, and as long as none claims it, it is
queued or was cancelled by another start (`Unmissed`).

**JobLogsProofs.** `StoredOnceHolds`, `NumberedHolds`, `LostOnlyByOwnerHolds` and the types rest on
`LogsInductive`. The entries of an execution under way are numbered up to the job's counter
(`Sequenced`), so what is appended is new; an entry is in one list at a time, and once (`Unique`);
what a flush has taken and need not insert any more is stored (`Part`); what may yet be inserted has
been stored no more often than flushes failed (`Spent`); without a fault nothing has been given up
(`Faultless`).

**SystemProofs.**

* CloudRun: `OverlapOnlyAfterRequeueHolds`, `KeepsLifecycleHolds`, `AttendedNotRequeuedHolds`, the types,
  and `SharedBudgetHolds`, the budget of claims when containers and pool work on one table. An
  execution that has returned still writes the row, so `Weighed` counts all who hold it, from the
  claim to the end, against its recoveries, the containers whose claim raised and whether it is
  `Pursued`: running, or settled under its holder by a container without the function or by one
  that goes on to fail it. `KeepsLifecycle` follows step by step: before the first of these `Weighed`
  makes the holder of a row the only one (`HeldOnce`), so a claim finds none, and the outcome
  comes from the one there is. `Touched` bounds the age that recovery
  sees by the heartbeats that failed.
* Installation: `OneIdUnlessRaceHolds`, `SplitOnlyByRowHolds` and the types. `Alone` adds that without
  a race one process at most is generating, while the table has no id, and that a process which is
  up has the table's; `Remembers` says where each copy that a process has of the setting comes from.

**AccountsProofs.**

* Access: `AssignmentsSoundHolds`, `HeldBoundedHolds`, `NobodyLogsInHolds` and the types. A request
  about to insert has found its role, and roles are never deleted there (`Known`); as migrated no
  login gets past its first statement (`Locked`). `HeldBounded` counts the requests about to insert
  together with the rows, so that an INSERT trades one for the other.
* Roles: `DefaultsPresentHolds`, `SlugRefusedOnlyByRaceHolds` and the types. What an operation has
  still to look at ends the list of defaults (`Ending`), those before are there unless a role was
  deleted meanwhile (`Passed`), and a slug about to be inserted is free unless another process came
  in between (`Sound`).
* ResetTokens: `RateBoundedHolds`, `LiveBoundedHolds`, `RedeemedBoundedHolds` and the types. The bounds
  count rows and requests together, and every step is of one of three kinds (`RateKept`, `LiveKept`,
  `RedeemedKept`): nothing is added; a token is, and its request is done; a request joins, and has
  just seen the limit or spent the tokens. `Spent` is what redemption needs: what a request has
  marked stays used, and nobody uses a token that is yet to be issued.

**RealtimeProofs.** `ActiveBoundedHolds`, `CountsAddUpHolds` and the types: inductive once the
sessions in `send_json` are counted with the messages. The clamp of the gauge at zero is what
keeps it below the number of sessions after a reset, and the reset what makes the clamp needed.
`DeduplicatesHolds` needs what the bounded memory of keys is (`Window`): a key that was taken is
still in it, or `MaxKeys` others were taken after it.

**AlgorithmsProofs.**

* Discovery: `DiscoveryCompleteHolds` and the types. What is marked was imported and what was
  imported is registered (`Imported`), by every import that succeeds or stops half-way
  (`ImportGrows`, `FailureGrows`); a walk has an end of its package to go, and what it has passed ran
  or failed (`Walked`); while `on_app_init` treats the jobs, a package is still to be treated, walked
  or treated (`Started`); a scan has the controllers of what it left behind, but for what it lost
  (`Scanned`); the cache has the controllers of the last scan and the packages of all (`Cached`).
* Cron: `NextRunIsFirstHolds`, `NextRunIsLaterHolds` and the types, by `CronInv`: the search stands
  after the wall clock of its start, by a minute for each iteration at least (`Advances`), and has
  passed over no match. That a jump keeps it is arithmetic:
  in what is left of the year, month, day or hour, the part of the wall clock that did not match
  stays what it is.
* Passwords: `StrengthAgreesHolds`, by the features, for passwords of any length: each checker
  beside its own analysis.
* Validation: `LayersAgreeHolds`, for texts of any length. Stripping, small letters and collapsing
  are idempotent, one after the other too, and the parts of an address or a slug that a validator
  takes apart are those its type describes. `ParsedIs` says what `urlparse` keeps of a text, and
  `UrlFits` that the first four symbols decide whether that is what is written.
* Deploy: `DependenciesPresentHolds` and the types. A deployment has applied all that it passed, and a
  deletion that nothing failed has left none of it but the claim (`Behind`).

`StrengthAgreesHolds` and `LayersAgreeHolds` are about the initial states, since the two modules have
no actions.

**The two MC specifications.** `EachAlone`, in SystemProofs and in AlgorithmsProofs, says that
`ServicesSpec` and `AlgorithmsSpec` imply the specification of each component: what is proved of a
component alone is so of the specification that TLC runs. `ServicesTypeCorrect` and
`AlgorithmsTypeCorrect` follow from it and the types of the components.

**Induction.** The library's induction theorems take an operator as a parameter, which the installed
provers cannot instantiate. Three recursive functions are proved about all the same, `DaysBefore` in
Cron and those inside `Collapse` and `Parsed` in Validation: a set of naturals that is not empty has a least
member (`LeastNatural`, from the library's theorem on well-founded relations), and the least
argument at which the function were wrong cannot be. The modules declare no RECURSIVE operator.

**Model-checked only:** liveness (`EventuallySettled`, `EveryScheduleTreated`), which is out of the
prover's reach.

## 6. What is left out

Inside the modelled parts:

* A synchronous job function goes on in its thread after a timeout; the model ends the body.
* The listener and its wake-ups; `batch_size`, priority and order of a poll (no property depends
  on them at these sizes).
* Two executions of one job inside one worker cannot overlap in `Worker`, as `running_tasks` keeps
  the id until the end of the flush.
* Job results, errors and payloads; tracing; the text of log entries.
* Reads of `TaskService`; `reschedule_job` and `null_heartbeats` (called by nothing).
* In `Scheduler`, run times and jitter: a queued row may be claimed at any time. All names of a
  release share one configuration; a process's names are those of its release.
* In `Cron`, `@reboot`, intervals and `should_run_now`; leap years, which the calendar, being
  periodic, has none of.
* In `Passwords` and `Validation`, the wording of advice, the generation of tokens, and the helpers
  for empty, long and control-character texts, which only tests call.
* In `Discovery`, a forced reload of files that were edited: files fail or do not, and register the
  same jobs. One domain per package, and the modules of its controllers, or of its events, as one;
  a domain package whose own import raises anything but an ImportError.
* In `Validation`, `urlparse` raising over the brackets of an IPv6 address, and the other suspicious
  words and blocked hosts, of which `file:` and `localhost` stand for all.
* In `Access`, the signup route, whose INSERT names parameters that the request does not carry
  (`is_active`, `verified_at`) and always fails; names, emails, password hashes and `is_superuser`, which nothing reads; `update_role`
  in `Roles`, which nothing calls.
* In `Realtime`, the fields of an envelope, and authentication, which the guards of `Access` are.
* In `Deploy`, building images and the waits, which only warn.

Not modelled, and why: bodies of the system jobs (`Worker`'s body action stands for any), thin
controllers and HTML, service base, error mapping and hashing (stateless), dependency injection and
assembly (the framework's, once at start), the parsing of each environment variable, tracing
(output only), fixtures, database commands, build tools (sequential, over files).

## 7. Plan

Done: all the modules above, and the proofs of every safety invariant and action property that a
passing run checks.

Next: that `Scheduler` implements an abstract registration; the parsers of `utils/env.py` beside
`Installation`; a bound on overlapping executions with timeouts, where an execution that has
reported its timeout may still report it again while the next one runs.
