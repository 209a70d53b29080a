------------------------------- MODULE Backend -------------------------------
(***************************************************************************)
(* The three tables of SQLAlchemyBackend (pyreljob/backends/sqlalchemy.py) *)
(* and the operations the worker and the clients perform on them.  Every   *)
(* operation is one database transaction, hence one action fragment: it    *)
(* determines the primed value of the table it writes, and the modules     *)
(* that use it say that the other tables are unchanged.                    *)
(*                                                                         *)
(* Abstracted: results are the set of positions whose result the ctx       *)
(* column holds; the lease (locked_at against lease_seconds) is "none",    *)
(* "live" or "expired"; scheduled_at is left out, because any ready run    *)
(* may be one that is not due yet; errors, names and the other columns no  *)
(* guard reads are left out.  A row that is deleted stays as a tombstone:  *)
(* its id is used up, and its job is what those who read the row before    *)
(* still remember.                                                         *)
(***************************************************************************)
EXTENDS Naturals

CONSTANTS
  Jobs,       \* the ids of the jobs table
  Workers,    \* the worker processes
  MaxRuns,    \* bound: the number of rows the runs table may grow to
  NTasks,     \* len(cls.tasks)
  Priority,   \* jobs.priority of each job
  Serves,     \* the <<worker, job>> pairs where the worker polls the job's queue
  SkipLocked, \* PostgreSQL: claim() passes over rows that are locked
  IdsReused,  \* SQLite: the id of the newest row, once deleted, is given again
  None        \* SQL NULL

ASSUME BackendAssumption ==
  /\ MaxRuns \in Nat
  /\ NTasks \in Nat \ {0}
  /\ Priority \in [Jobs -> Nat]
  /\ Serves \subseteq Workers \X Jobs
  /\ SkipLocked \in BOOLEAN
  /\ IdsReused => \A i, j \in Jobs : i = j
  /\ None \notin Jobs \cup Workers

VARIABLES jobs, runs, tasks

tables == <<jobs, runs, tasks>>

RunIds    == 1 .. MaxRuns        \* autoincrement: ids grow with creation
Positions == 0 .. (NTasks - 1)

Terminal == {"succeeded", "failed", "cancelled"}

\* What a run that has ended may be: its row may have been deleted since.
Over == Terminal \cup {"deleted"}

JobRow ==
  [status : {"absent", "active", "cancelled", "deleted"}, attempts : Nat]

RunRow ==
  [status : {"absent", "ready", "running"} \cup Over,
   job    : Jobs \cup {None},
   owner  : Workers \cup {None},
   lease  : {"none", "live", "expired"},
   ctx    : SUBSET Positions]

TaskRow ==
  [status   : {"absent", "running", "succeeded", "failed", "cancelled",
               "compensated"},
   attempts : Nat]

BackendTypeOK ==
  /\ jobs  \in [Jobs -> JobRow]
  /\ runs  \in [RunIds -> RunRow]
  /\ tasks \in [RunIds -> [Positions -> TaskRow]]

NoRun == [status |-> "absent", job |-> None, owner |-> None,
          lease |-> "none", ctx |-> {}]

BackendInit ==
  /\ jobs  = [j \in Jobs |-> [status |-> "absent", attempts |-> 0]]
  /\ runs  = [r \in RunIds |-> NoRun]
  /\ tasks = [r \in RunIds |->
                [p \in Positions |-> [status |-> "absent", attempts |-> 0]]]

-----------------------------------------------------------------------------
(* UPDATE runs SET ... WHERE id = r AND cond: no matching row, no change.   *)

JobExists(j)     == jobs[j].status \notin {"absent", "deleted"}
RunExists(r)     == runs[r].status \notin {"absent", "deleted"}
TaskExists(r, p) == tasks[r][p].status # "absent"

UpdateRun(r, cond, row) ==
  runs' = [runs EXCEPT ![r] = IF cond THEN row ELSE @]

UpdateTask(r, p, row) ==
  tasks' = [tasks EXCEPT ![r][p] = IF TaskExists(r, p) THEN row ELSE @]

IsRunning(r) == runs[r].status = "running"

\* An id no row has, or will again have, for itself.
FreeId(status) == status = "absent" \/ (IdsReused /\ status = "deleted")

\* The id the next INSERT INTO runs gets: one more than the highest.
NextId(r) ==
  /\ \A q \in r .. MaxRuns : FreeId(runs[q].status)
  /\ r > 1 => ~FreeId(runs[r - 1].status)

CreateRun(r, j) ==
  /\ NextId(r)
  /\ runs' = [runs EXCEPT ![r] = [NoRun EXCEPT !.status = "ready", !.job = j]]

\* A keyless enqueue: the job and its first run in one transaction.
Enqueue(j) ==
  /\ FreeId(jobs[j].status)
  /\ jobs' = [jobs EXCEPT ![j] = [status |-> "active", attempts |-> 0]]
  /\ \E r \in RunIds : CreateRun(r, j)

\* Mutant: only the runs that wait are cancelled.
CancelWaiting(j) ==
  /\ jobs[j].status # "absent"
  /\ jobs' = [jobs EXCEPT ![j].status = "cancelled"]
  /\ runs' = [r \in RunIds |-> IF runs[r].job = j /\ runs[r].status = "ready"
                               THEN [runs[r] EXCEPT !.status = "cancelled"]
                               ELSE runs[r]]

\* Neither UPDATE looks at the job's status: a second cancel reaches the runs
\* created since the first.
CancelJob(j) ==
  /\ jobs[j].status # "absent"
  /\ jobs' = [jobs EXCEPT ![j].status = IF JobExists(j) THEN "cancelled" ELSE @]
  /\ runs' = [r \in RunIds |->
                IF runs[r].job = j /\ runs[r].status \in {"ready", "running"}
                THEN [runs[r] EXCEPT !.status = "cancelled", !.lease = "none"]
                ELSE runs[r]]

\* The new count that increment_job_attempts returns, 0 if the job is gone.
AttemptsAfter(j) == IF JobExists(j) THEN jobs[j].attempts + 1 ELSE 0

IncrementJobAttempts(j) ==
  jobs' = [jobs EXCEPT ![j].attempts = IF JobExists(j) THEN @ + 1 ELSE @]

\* Mutant: a success takes one failure back.
ForgiveOneAttempt(j) ==
  jobs' = [jobs EXCEPT ![j].attempts = @ - 1]

ResetJobAttempts(j) ==
  jobs' = [jobs EXCEPT ![j].attempts = IF JobExists(j) THEN 0 ELSE @]

-----------------------------------------------------------------------------
(* Claims and leases.                                                       *)

\* Mutants: the lease is not looked at; expired leases are not reclaimed.
MatchesAnyRunning(r) == runs[r].status \in {"ready", "running"}

MatchesReadyOnly(r) == runs[r].status = "ready"

\* _run_ready_clause, and the WHERE of the conditional UPDATE.
ClaimMatches(r) ==
  \/ runs[r].status = "ready"
  \/ runs[r].status = "running" /\ runs[r].lease = "expired"

\* Mutant: the SELECT does not join the jobs.
ClaimableOfAnyJob(r) == ClaimMatches(r)

Claimable(r) ==
  /\ ClaimMatches(r)
  /\ jobs[runs[r].job].status = "active"

\* ORDER BY priority DESC, id ASC.
Before(q, r) ==
  LET pq == Priority[runs[q].job]
      pr == Priority[runs[r].job]
  IN  pq > pr \/ (pq = pr /\ q <= r)

\* What a SELECT may pass over: a ready run, which may not be due yet (it was
\* enqueued for later, or backs off), and with SKIP LOCKED whatever row
\* another transaction is at.
MayPassOver(q) == runs[q].status = "ready" \/ SkipLocked

ClaimableBy(r, w) == Claimable(r) /\ <<w, runs[r].job>> \in Serves

\* The SELECT of claim(): the best claimable run of the worker's queue.
FirstClaimable(r, w) ==
  /\ ClaimableBy(r, w)
  /\ \A q \in RunIds : ClaimableBy(q, w) /\ ~MayPassOver(q) => Before(r, q)

\* Mutant: its WHERE names the row only.
ClaimAnyRun(r, w) ==
  UpdateRun(r, TRUE, [runs[r] EXCEPT !.status = "running", !.owner = w,
                                     !.lease = "live"])

\* The UPDATE of claim(), for a row that still matches.
ClaimRun(r, w) ==
  UpdateRun(r, ClaimMatches(r),
            [runs[r] EXCEPT !.status = "running", !.owner = w,
                            !.lease = "live"])

LeaseHeldBy(r, w) == IsRunning(r) /\ runs[r].owner = w

RenewLease(r, w) ==
  UpdateRun(r, LeaseHeldBy(r, w), [runs[r] EXCEPT !.lease = "live"])

\* lease_seconds have passed since locked_at.
LeaseExpires(r) ==
  /\ runs[r].status = "running"
  /\ runs[r].lease = "live"
  /\ runs' = [runs EXCEPT ![r].lease = "expired"]

-----------------------------------------------------------------------------
(* The end of a run.                                                        *)

\* Mutant: the UPDATE of complete_run has no condition.
CompleteAnyRun(r) ==
  UpdateRun(r, RunExists(r),
            [runs[r] EXCEPT !.status = "succeeded", !.lease = "none"])

CompleteRun(r) ==
  UpdateRun(r, IsRunning(r),
            [runs[r] EXCEPT !.status = "succeeded", !.lease = "none"])

\* Mutant: the UPDATE of fail_run has no condition.
FailAnyRun(r) ==
  UpdateRun(r, RunExists(r),
            [runs[r] EXCEPT !.status = "failed", !.lease = "none"])

FailRun(r) ==
  UpdateRun(r, IsRunning(r),
            [runs[r] EXCEPT !.status = "failed", !.lease = "none"])

\* fail_run with a retry_at: back to ready, with no owner.
ReleaseRun(r) ==
  UpdateRun(r, IsRunning(r),
            [runs[r] EXCEPT !.status = "ready", !.lease = "none",
                            !.owner = None])

\* cancel_run has no condition on the status of the row.
CancelRun(r) ==
  UpdateRun(r, RunExists(r),
            [runs[r] EXCEPT !.status = "cancelled", !.lease = "none"])

SetRunCtx(r, ctx) ==
  UpdateRun(r, RunExists(r), [runs[r] EXCEPT !.ctx = ctx])

-----------------------------------------------------------------------------
(* Task executions: updates by (run_id, position), none is conditional.     *)

\* start_task inserts the row it does not find.
TaskStarts(r, p, attempt) ==
  tasks' = [tasks EXCEPT ![r][p] = [status |-> "running", attempts |-> attempt]]

TaskSucceeds(r, p) ==
  UpdateTask(r, p, [tasks[r][p] EXCEPT !.status = "succeeded"])

\* Mutant: fail_task counts the attempt that start_task has counted.
TaskFailsAgain(r, p, attempt) ==
  UpdateTask(r, p, [status |-> "failed", attempts |-> attempt + 1])

TaskFails(r, p, attempt) ==
  UpdateTask(r, p, [status |-> "failed", attempts |-> attempt])

TaskIsCancelled(r, p) ==
  UpdateTask(r, p, [tasks[r][p] EXCEPT !.status = "cancelled"])

TaskIsCompensated(r, p) ==
  UpdateTask(r, p, [tasks[r][p] EXCEPT !.status = "compensated"])

Succeeded(r) == {p \in Positions : tasks[r][p].status = "succeeded"}
=============================================================================
