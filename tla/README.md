# Verification of pyreljob

pyreljob is a durable job queue over a relational database: jobs are sequences
of tasks, workers lease runs and execute them, a beat fires maintained
(recurring) jobs, and clients enqueue, schedule and cancel. There is no broker:
processes meet only in three tables, `jobs`, `runs` and `tasks`, and each
database call is a transaction of its own. What can go wrong is what happens
between two transactions.

This directory holds TLA+ models of that code, TLC configurations that check
them on small instances, and TLAPS proofs of the results that matter most.
Paths like `worker.py` are below `src/pyreljob/`; `sqlalchemy.py` and
`postgres.py` are in `src/pyreljob/backends/`.

    tlc -config WorkerHealthy.cfg MCWorker.tla     # a Worker run
    tlc -config BeatReplicas.cfg MCBeat.tla        # a Beat run
    tlc -config Operations.cfg MCOperations.tla    # clients beside workers
    tlc -config Registration.cfg MCRegistration.tla
    tlc -config Migrations.cfg MCMigrations.tla
    tlapm WorkerProofs.tla                         # the proofs of a module

## 1. The system

| Component | State | Operations | Talks to |
|---|---|---|---|
| Backend (`sqlalchemy.py`, `postgres.py`, `sqlite.py`) | tables `jobs`, `runs`, `tasks`; per object `last_claim_at` | one transaction per method: enqueue, schedule, cancel_job, claim, renew_lease, complete/fail/cancel_run, set_run_ctx, start/succeed/fail/cancel/compensate_task, claim_scheduled, reconcile_abandoned, delete_job, prune | the database |
| Worker (`worker.py`) | event loop with up to `max_concurrency` coroutines, heartbeat task, `_active: run id -> ctx`, stop flag | poll, execute, resume, run a task, retry it, compensate, whole-run retry, reschedule, heartbeat, stop | backend; user code of tasks |
| Beat (`manager.py`, `run_forever`/`tick`) | none but `last_claim_at` of the backend object it may share with a worker | reconcile, list_scheduled, claim_scheduled, misfire check, create_run | backend; user code `next_runtime` |
| Client (`manager.py`) | none; during a call, what it has read | enqueue, schedule, cancel, undo, delete, prune, queries | backend; `undo` of tasks |
| Tasks and context (`task.py`) | `ctx.results`, `ctx.state`, `ctx.cancelled` | execute, undo, check_cancelled, report progress | worker |
| Migrations (`migrations/`) | `schema_migrations`, the schema | up (there is no down) | the database |

What is hard, and what makes each component correct:

- **Worker and backend: execution.** Several processes, several coroutines in
  each, a heartbeat that shares `_active` with them, a client that cancels at any
  moment, a process that dies between any two writes, a lease that expires.
  Correct means: one execution of a run at a time; completed tasks never
  repeated; tasks in order and undone in reverse; attempts within their budget;
  outcomes final; a failed run wholly compensated; every run ends; a failed run
  followed by its whole-run retry; nothing executes for a cancelled job.
- **Beat: schedules.** Replicas tick concurrently; claim_scheduled disarms a job
  in one transaction and create_run makes the run in another; a worker re-arms
  it when the run is over; two sweeps repair what died in between. Correct
  means: one run of a job at a time; no schedule lost; the sweeps touch only
  what is really abandoned.
- **Registration.** enqueue and schedule look for a job in one transaction and
  insert it in another, from any number of processes. Correct means: calls with
  one idempotency key get one job; a keyless maintained class has one row.
- **Delete and prune.** A check or a selection in one transaction, deletion in
  another, while coroutines hold what they have read of the rows. Correct means:
  no live run goes, what has gone does not come back, no worker holds a run of
  a job that is gone.
- **Manual undo.** `undo()` reads the tasks once and undoes them one by one with
  no lock, beside other calls and beside executing and compensating workers.
  Correct means: what is undone is done, in reverse order, once.
- **Migrations.** Steps of many statements, run by any process at start-up,
  killed anywhere, over a DDL that is transactional in one database and not in
  the other. Correct means: legacy rows are turned into runs once and faithfully,
  versions are in order, and the schema gets to be the one the ORM needs.

`PROJECT.json` lists every hazard at the line where it bites, with the
properties that would catch it, or the reason that none does yet.

## 2. Modules

| Module | What it is |
|---|---|
| `Backend` | the three tables and the transactions of the executor and its clients: an operator per method, that gives the primed value of the table it writes |
| `Worker` | EXTENDS Backend: the executor, one action per database call of a coroutine or of the heartbeat, the clients' enqueue and cancel, and the faults |
| `RunLifecycle` | abstract specification: a run waits, is held by at most one execution, ends once |
| `WorkerProperties` | EXTENDS Worker: invariants, action properties, fairness, liveness, and the refinement mapping to RunLifecycle |
| `Operations` | 2 workers, 2 tasks; a crash, a failed call or a whole-run retry; one delete, one prune, two undo calls | 1 million | ended and deleted runs never come back, whatever is still written for them; prune spares live runs; no worker holds a run of a cancelled or deleted job, also if it was created under the deletion; undo undoes done tasks only, in reverse; one execution per run beside all that |
| `Beat` | maintained and on-demand jobs: schedule, enqueue and cancel, a tick in its database calls, both sweeps, and the worker as far as it re-arms jobs; its properties and fairness |
| `Registrar` | abstract specification: registrations are atomic, an identity stands for one job |
| `Registration` | enqueue and schedule in their lookups, inserts, conflicts and second lookups; its properties, and the refinement mapping to Registrar |
| `Migrations` | 2 runners on SQLite, 3 legacy rows, 1 crash | 161 thousand | each legacy row gets one run, with its own outcome; the last version has every column; the upgrade gets done |
| `MCWorker`, `MCOperations`, `MCBeat`, `MCRegistration`, `MCMigrations` | values for the constants, for the configurations |
| `WorkerProofs`, `ProgressProofs`, `OutcomeProofs`, `TriesProofs` | theorems about Worker, each over those before: types, registry and leases; progress; outcomes, refinement and the account of runs; tries and checkpoints |
| `OperationsProofs` | theorems about Operations, over those of Worker |
| `BeatProofs`, `RegistrationProofs`, `MigrationsProofs` | theorems about Beat, Registration and Migrations |

### State and actions of Worker

A *slot* is a place under `max_concurrency` of a worker. `slot[s].pc` names the
database call (or task body) the coroutine is about to make, in the order of
the code:

    _poll_once        idle -> selected (-> outdated) -> load
    _run              load -> cancelLoaded | failLoaded | records
                      records -> exhausted | start | complete
    _run_task         start -> body -> succeed -> checkpoint -> start | complete
                      body -> retryCtx -> retryTask -> release -> leave -> idle
                      body -> failCtx -> failTask -> gather
                      body -> cancelTask -> cancelRun -> idle
    _compensate       gather -> undo* -> failRun
    _finalize_failed  failRun -> increment -> retryRun -> idle
    success           complete -> resetAttempts -> idle
    _execute, except  any of them -> abort -> idle

Everything else (another coroutine, another process, a client, a fault) may
happen between two of these steps. `active` is `Worker._active`, as a function
from run id to the slot whose ctx the entry holds, so that an entry can come to
point to the wrong execution as it can in the code. `mode` is "up", "deaf" (the
heartbeat task has ended with an exception) or "draining" (after `stop()`).
`slot[s].flagged` is `ctx.cancelled`; `slot[s].tried` and
`slot[s].todo` are the records that the coroutine read and still uses later.
"leave" stands between release_run and the `finally` of `_run` that pops the entry,
two moments between which the run is ready and may be claimed, also by the same
worker. After its other last writes the run is over, nobody will enter it again, and the
pop is part of the step.

A pass of the heartbeat (`worker.py:177-191`) is `BeatBegins`, which makes the list of
the entries, and for each of them `BeatChecks` (is_job_cancelled, and `ctx.cancelled`),
`BeatRenews` (renew_lease) and, where that has answered that the lease is lost,
`BeatDrops` (the pop, by run id, after the await). Between any two of these, coroutines of
the process and everybody else may step; `beat[w]` is what the
pass still has to do: the runs to visit, the one to renew, whether its lease
was lost. `slot[s].listed` says that the list holds this slot's ctx, which the pass
flags even if the entry is popped or overwritten meanwhile.

The claim is two steps, a SELECT and a conditional UPDATE that compares with
the time at which claim() began (`sqlalchemy.py:460-501`): a coroutine whose
row was claimed, renewed or released since is "outdated", and its UPDATE misses.
PostgreSQL's claim is one transaction; its behaviours are those in which the two
steps are adjacent. Both select the best run, by priority and id, of the worker's
queue (`Serves` says which jobs each worker polls), but may pass over a ready run,
which may not be due yet, and, with SKIP LOCKED (`SkipLocked`), over any row that another
transaction is at (`MayPassOver`).

Faults are actions of their own, each bounded by `MaxFaults[kind]`:
`Crash` (any process, anywhere, then a new process), `CallFails` (any database
call raises and is rolled back), `BeatDies`, `Stop`/`Restart`, and
`LeaseLapses`: the lease of an execution whose heartbeat works expires all the
same (a stalled event loop, a paused process). `LeaseRunsOut`, for the lease
of an execution that is gone, is no fault and not bounded. The last kind,
"overtake", is a pop that comes too late: a coroutine that has released a run, or a
heartbeat that has lost its lease, is still to pop the entry when another
execution of the run in the same process is about to set its own (`Overtakes`). Between the two lie a
backoff or a lease, a claim and two calls of the other coroutine, so it takes an event loop
that starves one of them; `LateDrop` in section 5 is what comes of it.

### State and actions of Operations

`call[c]` is one call of `JobManager.delete`, `prune` or `undo`: where it is, and
what it has read. delete is `DeleteChecks` (delete_job's first transaction) and
`DeleteRows`; prune is `PruneSelects` (the ids) and `PruneRows`, which names the
ids alone; undo is `UndoPicks` (list_runs, the latest), `UndoReads` (list_tasks,
once), and an `UndoMarks` for each task, after the user's `undo`, or
`UndoRaises`. A run that is deleted is left as a row with status "deleted",
which no guard of the code matches, so that properties can speak of it; with
`IdsReused` the next run gets its id again, as SQLite does without AUTOINCREMENT
(`orm.py:89`). A deleted job likewise. The coroutines of Worker meet all of it:
`_run` finds no job (`worker.py:217-220`), an UPDATE finds no row, start_task
finds no task row and inserts one, increment_job_attempts finds no job and answers 0.

`UndoSettled` and `UndoSerial` state how undo is used in the run `Operations`:
for a run that has succeeded, and one call at a time. The code enforces
neither; `UndoRunning` and `UndoTwice` in section 5 show what it is like without.

### State and actions of Registration

`Request[c]` is what call c asks for (operation, class, key), `rows` the columns
of `jobs` that lookups compare. `Lookup` is the SELECT, which may raise when it
finds two rows; `Insert` and `InsertConflicts` the INSERT under the unique index,
which NULL keys are exempt from; `Refind` the second SELECT with which
enqueue answers a conflict, and which raises if the job has been deleted since.
`Delete` is the last step of another process's delete_job. `Overlap = FALSE`
says that one process at a time is in schedule().
Identities of the abstract `Registrar` are the keys and, for keyless schedules,
the classes; the mapping supposes that a key is used for one class and one
operation, as `tests/test_core.py:825-826` asks of callers.

### State and actions of Migrations

`Migration[v]` lists the statements of step v, in the order of
`versions.py`, as far as they touch columns that a later statement or the ORM
looks at. `runner[x]` is a process in `up()`: the version and statement it is at
and the columns that its `inspect`s of the step saw, table by table as the code reads them (step 5 reads
three), which `Skip` uses (the `if` around a
statement) though the schema may have moved on since. `db` is the database as the
process that holds the write lock sees it, `committed` as everyone else does;
with `TransactionalDDL` (PostgreSQL) a step is one transaction, without it
(SQLite through sqlite3) DDL before the first INSERT or UPDATE of the step
is committed at once, and survives a crash that rolls the rest back. An INSERT or
UPDATE takes the lock also if it finds no row. A statement that names
a column that is not there, or adds one that is, raises out of `migrate()`.
There are four initial databases: an empty one, the one that steps 1 to 3 leave, and
the `jobs` table of a `create_all` that recorded no version, with the lease or without, and with an
index on `name` (which step 4 drops).

### State and actions of Beat

As in claim(), the SELECT of the sweep takes no lock, so under PostgreSQL's READ
COMMITTED another process can write between it and the two UPDATEs, though all
three are in one transaction.

A beat steps through BeginSweep (the cut-off times), SelectStale and FailStale
(the SELECT of a batch and its two UPDATEs, in a loop until a batch is not full
or changed nothing), RearmOrphans, ListScheduled, then for each job
ExamineJob (claim_scheduled and the misfire check) and FireJob (create_run).
Time is kept as ages that `Clock` increments and that saturate where no
guard can tell them apart any more: the age of a run, of `updated_at`, how long
`next_run_at` is overdue. `run[r].passed` says for which beats `last_claim_at`
is later than the creation of the run. The worker is reduced to
holding a run, ending it in any of its ways, and re-arming the job (or not
finding the run any more, if it has been pruned): the details
of execution are module Worker's. On-demand jobs take part because the sweep
fails their runs too. Ended runs leave the table, since
run_in_flight and the sweeps read only ready and running ones.

### What the models leave out

- Data no guard reads: results as values (only *which* are persisted), errors,
  names, tags, progress, timestamps other than those above.
- `scheduled_at` and backoff in Worker: any ready run may be one that is not due yet, so
  a claim may pass over it. (Beat has it, as `wait`, for the stale query reads it.)
- The lease is "none", "live" or "expired" rather than a time; clock skew between
  hosts would be a lapse. Leases of one or two seconds, shorter than the
  heartbeat's minimum interval, likewise.
- A commit that succeeds although the call raises: failed calls are rolled back.
- Worker ids after a restart: the process that replaces a dead one has its id.
  In the code it has a new one, so the model allows more: a lease of the old
  process counts as the new one's.
- Tasks see a cancellation only through `check_cancelled()`, and only Worker's
  on-demand jobs go through the executor in detail.
- In Beat: deletion of jobs. In Operations: beats and maintained jobs.
- In Registration: the first run, which enqueue inserts with the job.
- In Migrations: columns that no step looks at, indexes that are never
  dropped, and the rows of `tasks` (v8's second UPDATE is a statement, but has none to change).

## 3. Runs

All configurations switch deadlock checking off: the system stops when all jobs
are cancelled or done and the bounds are used up. No symmetry is used.

| Run | Instance | States | What it shows |
|---|---|---|---|
| `WorkerHealthy` | 2 workers, 1 task, 2 tries, 1 whole-run retry, 3 run rows, no fault, cancellation | 54 thousand | runs serial and bounded by `1 + retries` (`SerialRuns`, `RunsBounded`: a third row is there to be used and is not); outcomes final; a failed run that is not the last allowed is followed by another |
| `WorkerInterrupted` | 2 workers, 2 tasks, the last with its own budget, a crash and a failed call anywhere | 151 thousand | `LeaseInv` and `ProgressInv`, the inductive invariants of the proofs; `NoRerun`; success means all tasks are done; tries exceed budgets by the interruptions only; the executor implements `RunLifecycle` |
| `WorkerCrashes` | 3 tasks, the first with two tries, 1 crash | 122 thousand | persisted results lag by the task being checkpointed and one for the crash (three tasks, so that more could be missing); failed runs wholly undone, though the crash may hit compensation; no gap below a succeeded task; every run ends |
| `WorkerDegraded` | 2 slots in one worker and 1 in another, 1 run; a lapse, a heartbeat that dies or a stop: two executions of one run do overlap, also in one process | 502 thousand | `_active` stays exact, though each execution pops by run id what the other has set; ended runs stay ended; nothing is held for a cancelled job |
| `WorkerSlots` | 2 slots in one worker and 1 in another that polls one queue of two, 2 jobs of different priority, SKIP LOCKED, a class one worker cannot import | 168 thousand | exclusive execution between coroutines of one process and between processes |
| `Operations` | 2 workers, 2 tasks, a crash and a failed call; one delete, one prune, two undo calls | 291 thousand | ended and deleted runs never come back, whatever is still written for them; prune and delete spare live runs; no run without its job; undo undoes done tasks only, in reverse; one execution per run beside all that (that nothing is held for a cancelled or deleted job is proved, section 4) |
| `Registration` | 7 calls: enqueue and schedule, keyed and keyless, 2 classes, 2 keys, 1 deletion | 34 thousand | one key, one job; one row per keyless class; registrations are as if atomic (`Registrar`) |
| `Migrations` | 2 runners on SQLite, 3 legacy rows, 1 crash | 140 thousand | each legacy row gets one run, with its own outcome; the last version has every column; the upgrade gets done |
| `BeatAlone` | 1 beat, 1 slot without fairness, 1 crash, 1 retry, batches of 2, no bound on delays | 142 thousand | the sweep spares claimed runs; abandoned runs are swept; no schedule is lost |
| `BeatReplicas` | 2 beats (one sharing its backend with a worker), 2 slots, 2 crashes, misfire grace 0, `Prompt` | 55 thousand | one run in flight, and only orphaned jobs are re-armed |
| `CancelMissed`, `ReplicasDoubleFire` | | | disagreements, section 5 |

One more configuration passes and is kept beside these: `MigrationsPostgres`, with DDL
in the transaction, where the schema is moreover *exactly* the final one
(`SchemaIsFinal`), which two runners on SQLite may miss (`StaleRunner`). One runner
on SQLite does not miss it, however often it is killed.

**Why the bounds are enough.** Two workers with a place each are what a race for
a run needs, and `WorkerSlots` adds a second place and a second job. Two tasks
have a first and a last and a checkpoint in between; three are needed to see
the order of compensation interrupted in the middle, and a lag of checkpoints that one crash does
not excuse, in `WorkerCrashes`. Two
attempts give a retry and an exhaustion; one crash at any step reaches every
pair of adjacent writes, and a crash with a failed call reaches the handler of
`_execute` after a reclaim. `MaxRuns` is the number of runs that can exist plus,
where the number is the question, one. `MaxRuns = 1` in `WorkerDegraded`
leaves the second run out, which `SerialRuns` and `RunsBounded` speak of; there
the question is what two executions of *one* run do to each other. Two slots of w1 and
one of w2 let them be in one process or in two; a behaviour there has one fault, and w1 itself is not
stopped (`OneFault`). In Beat,
`Grace = 1` tells below, at and above the grace period apart, and two beats
with two crashes are the smallest instance with a race between sweeps.
Batches of 1 make each batch a full one, so that the loop goes round; but then
`AbandonedIsFailed` does not hold: if workers keep claiming and giving back the one run the
sweep has selected, the batch changes nothing and the sweep ends before it
comes to another run. With batches of 2 and two rows it is
seen to hold; with the code's 500 every run of a batch would have to be raced at once.
In Operations there are two run rows, of a job and its whole-run retry, so that a run can be
created between the two transactions of a deletion and after the selection of a prune; with
`IdsReused = FALSE` a row stands for one run for ever. A behaviour there has an interruption or a retry,
not both (`FaultOrRetry`). Two undo calls, one after the other, are
needed for a second one to meet tasks that are undone already. In Registration two calls of
each kind race for each identity, and a keyless enqueue stands beside them. In
Migrations the three rows are a definition with a schedule, a run cut short
(which the backfill must turn into a pending one) and a cancelled job.

**`Prompt`** is an assumption of `BeatReplicas` and of some counterexamples:
with "runs", who holds a run of a job or has just ended one re-arms it
within the grace period; with "beats", a beat goes from claim_scheduled to
create_run within it. The code assumes as much
(`sqlalchemy.py:402-405`), and `OrphanRace` in section 5 shows that it has to.
With "runs", no run in flight grows older than the grace period, so
`BeatReplicas` has no abandoned runs: `SerialRuns` fails with them
(`ReplicasDoubleFire`), and `BeatAlone` sweeps them.
`BeatReplicas` also has `retries = 0`, for with whole-run retries a job may
have two runs in flight (`RetryDoubleFire`).

**Usage.** Some constants say how clients use the code, where it
neither enforces nor survives the opposite: `Overlap = FALSE` (section 5:
`ScheduleTwice`), `UndoSettled`, `UndoSerial` (`UndoRunning`, `UndoTwice`), and
`IdsReused = FALSE`, PostgreSQL's sequences (`IdReuse`).

**Fairness.** `CallStep` is weakly fair: an event loop keeps resuming its
coroutines and a database call returns or raises. So are the heartbeat, the
expiry of leases nobody renews, and the replacement of a drained process.
`TaskStep` is fair only in `FairSpec`: task bodies are user code, ended by a
timeout (`worker.py:421-426`) where the job sets one; `CancelReachesTask` is
checked under `LongTasksSpec`, without it. Faults and clients are never fair. In Beat,
beats are weakly fair and workers not at all (they may be gone for good); `Clock`
is strongly fair because time stands still while a beat is inside a sweep,
whose cut-off is the time at which it began, and so is enabled again and
again rather than continuously. In Migrations a process that has raised or died is
started again, by weak fairness of each runner's steps: `migrate()` is called whenever
a process of the application starts.

**Mutants.** Each checked property has a mutant: a definition in the model
replaced by one with a plausible mistake (no condition in an UPDATE, a lease not looked at,
undo in the wrong order, an off-by-one in the retries). Definitions marked "Mutant" in
the modules are these; `PROJECT.json` pairs them with the properties they break.

## 4. Proofs

The theorems hold for every number of workers, slots, jobs, tasks, runs, beats, calls,
legacy rows and crashes, under the named assumptions on the constants and, where the
table says "where", the hypotheses named there. Each inductive invariant
was checked by TLC on the instances of section 3 before it was proved. Every
property of every passing run is the subject of a theorem, liveness excepted.

The hypotheses are conditions on constants. Each is met by a configuration that passes, and
each excludes something with which the result does not hold:

| Hypothesis | Says | Without it |
|---|---|---|
| `LeasesHold` | no lease lapses under a live execution, no heartbeat dies, workers are killed rather than stopped, no pop of an entry is overtaken; crashes and failed calls are not restricted | `OutcomeOverwritten`, `HeartbeatDies`, `DrainOverlaps`, `LateDrop` |
| `NothingAborts` | no call raises into the handler of `_execute` and each class resolves | `FailedNotUndone` |
| `SomeTry` | each class has a budget of one attempt at least | a budget of zero is used up by a first try all the same |
| `~IdsReused` | ids come from a sequence, as on PostgreSQL | `IdReuse` |
| `Retries = 0` | no whole-run retries (of maintained jobs, in Beat) | `RetryDoubleFire` |
| `UndoSettled`, `UndoSerial` | undo() of a settled run, one call at a time | `UndoRunning`, `UndoTwice` |
| `AllPrompt` | beats and workers are done with a job within the grace period | `OrphanRace`, `ReplicasDoubleFire` |
| `~Overlap` | one process at a time is in schedule(); enqueue() calls overlap as they may | `ScheduleTwice` |
| `TransactionalDDL` | DDL is rolled back, as on PostgreSQL | `StaleRunner` |
| `Namespaced` | a key is used for one class and one operation | an identity of `Registrar` would be no job's |

| Theorem | States | Rests on |
|---|---|---|
| **WorkerProofs** | | |
| `TypeCorrect` | `Spec => []TypeOK` | `Typed` = types, and `SlotInv`: a coroutine at work has a run, and one at a task has a position. `TypeOK` is not inductive alone: `UPDATE ... WHERE id = 0` would leave the table's type |
| `EndedStaysEnded` | `TerminalStays` | a lemma on what each write of the runs table does to a row; no invariant is needed beyond types |
| `ClaimableIsActive`, `NoneHeldWhenCancelled` | `ActiveJobInv`, `NoRunningOfCancelledJob` | `ActiveJobInv` with `Typed`: also a run that a coroutine has *selected* and whose UPDATE would match has an active job. The UPDATE does not look at the job, so the invariant has to say that a cancellation in between makes it miss |
| `RegistryIsExact` | `RegistryExact` | which labels are between `_active[run.id] = ctx` and its pop; under all faults |
| `LeasesAreHeld`, `OneExecutionPerRun` | `LeaseInv`, `ExclusiveExecution`, where `LeasesHold` | `Safe` = `Typed`, `LeaseInv` (whose `Renewed` says that an execution is in `_active` and nobody is about to pop it), that every worker is up, and that a heartbeat that has found a lease lost knows whose (`LostIsNamed`) |
| **ProgressProofs** | where `LeasesHold` | |
| `ProgressInvariant` | `ProgressInv` | `Safe`: what a coroutine remembers can only stay true because nobody else executes the run |
| `TasksInOrder`, `SuccessIsComplete`, `NothingRerun` | `SucceededIsPrefix`, `SucceededMeansAllDone`, `NoRerun` | `Safe` and `ProgressInv` |
| **OutcomeProofs** | where `LeasesHold` | |
| `OutcomeInvariant`, `OutcomesAreFinal` | `OutcomeIsFinal` | `OutcomeInv`: an execution whose run has succeeded or failed is past its last write of it, and one that knows of a cancellation has a run that is over; a ctx that the heartbeat has flagged, or has listed and may flag, is one of an execution, or of a coroutine that has only its pop left |
| `ExecutorIsLifecycle` | `Spec` implements `RunLifecycle` | each action is a step of `RunLifecycle` on one row, or a stutter; `Safe` and `OutcomeInvariant` give the guards |
| `OneRunAtATime` | `SerialRuns` | `SerialInv`: a job has at most one run that is ready, running or still in the hands of a coroutine |
| `RunsAreBounded` | `RunsBounded` | `CountInv`: while a run is in flight or worked on, the job has at most `1 + attempts` rows; about to create one, at most `attempts`, which is at most `retries` |
| `FailureIsUndone` | `FailedAfterUndo`, where also `NothingAborts` | `UndoneInv`: about to fail a run, a coroutine has undone whatever had succeeded |
| **TriesProofs** | where `LeasesHold` | |
| `TriesAreBounded` | `AttemptsBounded`, where also `SomeTry` | `TriesInv`: the attempts a coroutine has read stay true while it holds the run; a waiting run has a try left for each task to do; an interruption costs one try |
| `CheckpointLagsByOne` | `CheckpointLag` | `LagInv`: only an execution between succeed_task and set_run_ctx is behind, by one; an interruption there leaves it so for good |
| **OperationsProofs** | over `OpsSpec`, where `~IdsReused` | |
| `OpsTypeCorrect` | `OpsTypeOK` (with reused ids, too) | `Typed`, lifted from Worker: every step of Worker is a step of Operations that leaves the calls alone |
| `GoneForGood` | `GoneStaysGone` | the lemma on writes of a run's row |
| `PrunedAreOver` | `PruneSparesLive` | `Settled`: what prune selected is over, and over it stays |
| `NoneHeldWhenDeleted` | `NoRunningOfCancelledJob` | `ActiveJobInv` beside deletion |
| `OneExecutionPerRunStill` | `ExclusiveExecution`, where also `LeasesHold` | `Safe` beside deletion: a row that delete or prune removes is over for every coroutine that still works on it |
| `OnlyDoneIsUndone` | `UndoOnlySucceeded`, where also `LeasesHold`, `UndoSettled`, `UndoSerial` | `UndoInv`: what undo() has read of the tasks to come is still so, unless they are deleted |
| **BeatProofs** | over `Beat`'s `Spec` | |
| `BeatTypeCorrect` | `TypeOK` | types, and that whoever is at work has a job |
| `SweepIsSparing` | `SweepSparesClaimed` | `HolderInv`: a worker at work is alone with its row, which is running or cancelled; the sweep's UPDATE names ready rows only |
| `OnlyOrphansAreRearmed` | `RearmsOnlyOrphans`, where `AllPrompt` | `PromptInv`: a job that is being fired or run was written within the grace period |
| `OneFireAtATime` | `SerialRuns`, where `AllPrompt` and `Retries = 0` | `OneTurnInv`: an active job is armed, being fired, in flight, or about to be re-armed, never two of these |
| **RegistrationProofs** | over `RegSpec` | |
| `RegTypeCorrect`, `OneJobPerKey` | `RegTypeOK`, `SameKeySameJob` | `KeysUnique` (the index: no two rows present with one key) and `Answered` (a call that returned has a row with its key) |
| `OneRowPerClass` | `OneKeylessRow`, where `~Overlap` | `Alone`: between the lookup of a schedule() and its insert nobody inserts for the class |
| `CallsAreAtomic` | `RegSpec` implements `Registrar`, where `~Overlap` and `Namespaced` | `RegInv`: `KeysUnique`, `Answered`, `Alone`; each row is of a call (`Origins`), and a call that lost the race for its key has seen a row of it (`Pending`) |
| **MigrationsProofs** | over `MigSpec` | |
| `MigTypeCorrect`, `EachRowOnce`, `LegacySurvives`, `SchemaIsEnough` | `MigTypeOK`, `BackfilledOnce`, `LegacyKept`, `SchemaSuffices` | `MigInv`: see below |
| `SchemaIsTidy` | `SchemaIsFinal`, where `TransactionalDDL` | `MigInv` and `TidyInv`: in a step that nobody has recorded, a process has seen every column the step removes and none that it renames to; what a step has removed is gone |

The argument of exclusive execution. While a slot executes a run, either the run has
ended, or it is running, owned by the slot's worker, with a live lease, and
is renewed: in `_active`, or in the few calls before it gets there. A claim
matches only ready runs and expired leases; none of the slot's runs is either,
so nobody can join the execution. Conversely, whatever takes the run away (the
slot's own last write, a cancellation) makes it terminal, or ends the
execution in the same step; and a heartbeat that finds the lease not held drops
the entry only of a run that has ended, at once or, where the answer takes its time, of one that no
execution of the process has claimed since.

The argument of progress. `ProgressInv` has a part for each run and one for each
execution. Of a run it says that the succeeded tasks are the first n, all of them if it
has succeeded; of an execution, how n relates to the coroutine's position at its
label: before the read of the records nothing, at a task that exactly those below
it have succeeded, in a compensation that exactly those it still has to undo have. What the coroutine has read stays
what the table says because it is alone (`Safe`), and a run that is reclaimed is
read anew. The bounds on tries and the lag of checkpoints refine the same
account: the records of one run change only through the one coroutine that
holds it, and each interruption (a crash, a failed call) can
leave one try, or one result, uncounted, no more.

The argument of outcomes. complete_run and fail_run are conditional on the status being
`running` (not on the owner), cancel_run has no condition. That it overwrites no outcome is a fact about the executor: a coroutine
that is about to call it knows of a cancellation, so its run is over; and the run has not
succeeded or failed, for then the coroutine, which is alone with it, would be past
its last write. With that, each action moves a row along `RunLifecycle` or leaves it. A job's
next run is created only by the coroutine that has failed the last one, once, and
only if the count it has incremented allows it.

The argument of a beat's turn. claim_scheduled is conditional on the job being
armed and due, so it passes the turn to one beat; create_run passes it to a run in
flight; the worker that ends the run passes it back by re-arming. The two
sweeps take a turn from somebody who is not there to give it back: under `AllPrompt` only
jobs are old enough for that whose holder has died, or whose `next_run_at` is NULL.

The argument of the migrations. `MigInv` says what a process at statement n of step v can
rely on. Versions are recorded in order, so a process at step v knows that the
steps below are recorded, though perhaps v is too, by another. A column of
the final schema that a process has once seen stays (`SightInv`), so what it
skips is there. The core is the fourth step (`StepFourInv`). Past the split, the process holds the lock
until it commits, and past the backfill the step is not recorded;
one that inspected the columns before another completed the step is stopped at the
backfill at the latest, for that names columns that are gone: it raises, and is
rolled back. That is why the backfill, an INSERT ... SELECT without a condition
against doing it twice, makes one run of each row (`SeenDataInv`).
That nothing dropped comes back needs more: that what an outdated process adds is rolled back when it
fails to record its version a second time. With DDL in the transaction it is
(`TidyInv`); without, see `StaleRunner`.

Model-checked only: liveness under fairness, which is out of the prover's reach
(`EveryRunSettles`, `RetryFollowsFailure`, `KeepsFiring`, `AbandonedIsFailed`,
`Upgraded`). Moreover Worker's results about progress and tries
are proved over `Spec` and not restated over `OpsSpec`.

## 5. Where the code and its documentation disagree

Two configurations are part of the regular runs, as expected violations, with
a finding in `PROJECT.json` that quotes the claim. The others are kept as
counterexamples that can be replayed with TLC, each with the MC module of its
component; each violates the one property that its file names.

| Configuration | Property | What happens | The code, and the claim |
|---|---|---|---|
| `LateDrop` | `ExclusiveExecution` | the heartbeat's renewal finds a run released for a retry; before the loop resumes it and it pops `_active` by run id, another coroutine of the process has claimed the run and entered it: this execution is never renewed, and another worker claims it (likewise the `finally` of the coroutine that released it, `worker.py:278`) | `worker.py:191`; DESIGN.md:164-166 |
| `DrainOverlaps` | `ExclusiveExecution` | a stopped worker drains without heartbeats, its lease expires, another worker claims the run | `worker.py:143`; DESIGN.md:164-166 "two workers never execute the same run" |
| `UndoneRestarts` | `UndoneStaysUndone` | a worker dies while it compensates; the next one resumes at the first task that is not succeeded, which a compensated one is not, and starts it again | `worker.py:241`; `worker.py:248-249` |
| `CancelMissed` (run) | `CancelReachesTask` | a cancellation between the two calls of the heartbeat: renew_lease fails and the entry is dropped, the task never sees `ctx.cancelled` | `worker.py:185`; DESIGN.md:132-134 |
| `SweepQueued` | `SweepSparesQueued` | the clause is `created_at < last_claim_at`: a run created *before* the last claim is failed as abandoned | `sqlalchemy.py:353`; the comments at 61-62 and 337-339 |
| `ReplicasDoubleFire` (run) | `SerialRuns` (Beat) | two beats select the same abandoned run; each re-arms the job and claims it before a run of it exists | `sqlalchemy.py:375`; DESIGN.md:170-171 "no double-firing" |
| `HeartbeatDies` | `ExclusiveExecution` | one call that raises ends the heartbeat for the life of the process, which goes on claiming | `worker.py:182`; DESIGN.md:164-166 |
| `OutcomeOverwritten` | `OutcomeIsFinal` | after a lapse, the unconditional cancel_run overwrites `succeeded` | `sqlalchemy.py:578`; DESIGN.md:161-162 "every transition is an atomic conditional UPDATE" |
| `CancelCompensates` | `CancelNeverCompensates` | a task fails for the last time after the cancellation: the run is compensated | `worker.py:372`; DESIGN.md:123 "stop only — it never compensates" |
| `CancelLeavesRun` | `CancelStopsFutureRuns` | a failing run gets its whole-run retry after the cancellation; the retry stays ready for ever and keeps the job from being deleted | `worker.py:294`; `manager.py:147` |
| `FailedNotUndone` | `ExhaustedIsUndone` | a call that raises after exhaustion ends the run as failed, its tasks never undone | `worker.py:211`; README.md:21 |
| `RetryLost` | `RetryFollowsFailure` | a crash between fail_run and create_run loses the whole-run retry | `worker.py:288`; README.md:353-354 |
| `SweepStuck` | `AbandonedIsFailed` | after one claim on the beat's own backend object, a run created later is never swept | `sqlalchemy.py:353`; tests/test_reconcile.py:311 |
| `MisfireStale` | `OnlyMisfiresSkipped` | the misfire check uses a `next_run_at` from before another fire | `manager.py:323`; `manager.py:299-300` |
| `CancelFires` | `CancelStopsFires` | a cancellation between claim_scheduled and create_run is followed by a run | `manager.py:330`; DESIGN.md:131-132 |
| `RetryDoubleFire` | `SerialRuns` (Beat) | between fail_run and the retry's create_run no run is in flight and a due job fires | `worker.py:288`; DESIGN.md:145-146 |
| `DeleteLeavesTasks` | `TasksHaveRuns` | the coroutine of a run that is cancelled and deleted goes on to its next task; start_task inserts the row it does not find | `sqlalchemy.py:694`; ROADMAP.md:14 |
| `DeleteLeavesRun` | `RunsHaveJobs` | the job of a failing run is deleted after its fail_run; increment_job_attempts returns 0, and the retry's run is created; if delete had made its check before the retry and deletes after it, a ready run is deleted | `worker.py:291`, `sqlalchemy.py:231`; `manager.py:154-157` |
| `UndoTwice` | `UndoOnlySucceeded` | two calls of undo read the same tasks, each undoes them | `manager.py:190`; DESIGN.md:167-169 |
| `UndoRunning` | `SucceededMeansAllDone` | undo takes the latest run although it is running: the run succeeds with a task undone | `manager.py:179` |
| `IdReuse` | `ExclusiveExecution` | a run is cancelled and deleted under its coroutine; the next one gets its id, and two coroutines work on it (likewise a prune that has selected the old run deletes the new one, `sqlalchemy.py:267`) | `orm.py:89`; DESIGN.md:164-166 |
| `ScheduleTwice` | `OneKeylessRow` | two processes find no row of the class and both insert one | `sqlalchemy.py:147`; `manager.py:130-131` |
| `ScheduleRaises` | `ScheduleNeverRaises` | the loser of a race for a key: schedule() does not catch the IntegrityError | `sqlalchemy.py:172`; DESIGN.md:167-169 |
| `StaleRunner` | `SchemaIsFinal` | SQLite: a second runner inspects the columns, the first completes the upgrade, the second acts on what it saw and brings a dropped column back | `versions.py:123`; `runner.py:3-5`, ARCHITECTURE.md:149 |
| `OrphanRace` | `RearmsOnlyOrphans` | a worker slower than the grace period from a run's end to its re-arming is taken for dead | `sqlalchemy.py:420`; `sqlalchemy.py:393-405` |

Four smaller ones show in the models without a configuration of their own. A crash in
the last try of a task leaves its record `running`, which does not count as exhausted
(`worker.py:251`), so attempts exceed the budget by the crashes
(`AttemptsBounded`; README.md:358 of the repository has "up to 3 times per run").
`NULL <= now` never holds, so a job whose next_runtime answered None waits for
the orphan sweep (`sqlalchemy.py:316`; `manager.py:124-125` "`None` fires it
immediately"). And the sweep re-arms the jobs of all the runs it selected, also
of one that a worker has claimed since (`sqlalchemy.py:375`;
`base.py:146-149`), which is what `ReplicasDoubleFire` builds on. Last, a crash between succeed_task and
set_run_ctx leaves a succeeded task whose result the resumed run lacks
(`worker.py:392`; README.md:364 of the repository); `CheckpointLag` counts them.

The models keep to the code in all of these: no property was weakened to hide
them, and where a checked property holds only without such a fault, section 3
or its comment says so.

## 6. Not modelled yet, and the plan

In order of importance:

1. **Proofs**: `SucceededIsPrefix` and the account of runs over `OpsSpec`, beside
   deletion and undo.
2. **Beat with deletion**: a maintained job deleted between claim_scheduled and
   create_run gets a run that no job has (`manager.py:330`). Needs a job that
   goes in module Beat, where `Init` and every row action now suppose it stays.
3. **An abstract schedule** (armed, firing, in flight) that Beat implements under
   `Prompt`.
4. **Operations with beats**: maintained jobs, deleted and undone while they fire.

Not modelled: queries for dashboards and progress reports (reads, or
unconditional writes of columns no guard reads), the backend factory, the
serialization of jobs, the abstract interface in `base.py` (signatures alone: its
methods are modelled where they are implemented), examples and scripts. Clock skew between
hosts would show as a lapsed lease (`LeaseLapses`) and is not told apart from it.
