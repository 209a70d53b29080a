-------------------------------- MODULE Worker --------------------------------
(***************************************************************************)
(* The executor (pyreljob/worker.py) over the tables of module Backend.    *)
(*                                                                         *)
(* A worker process is an event loop that runs up to max_concurrency runs  *)
(* at a time, a heartbeat coroutine and the dictionary _active they share. *)
(* Each place in the concurrency cap is a slot; a slot steps through       *)
(* claim, _execute, _run, _run_task, _compensate and _finalize_failed, one *)
(* database call (one await) per step, so everything another coroutine,    *)
(* another process or a client does can happen between two calls.          *)
(*                                                                         *)
(* The jobs of this module are on-demand jobs: for them _reschedule and    *)
(* _reschedule_on_error return without writing.                            *)
(***************************************************************************)
EXTENDS Backend, FiniteSets

CONSTANTS
  Slots,            \* the places under the concurrency caps of the workers
  WorkerOf,         \* the worker each slot belongs to
  Retries,          \* jobs.retries: whole-run retries
  JobMaxAttempts,   \* jobs.max_attempts
  TaskMaxAttempts,  \* Task.max_attempts by position, 0 for None
  Resolvable,       \* the <<worker, job>> pairs whose class can be imported
  MaxFaults         \* bound: how often each kind of fault may happen

FaultKinds == {"crash", "stop", "dbError", "beatError", "lapse", "overtake"}

ASSUME WorkerAssumption ==
  /\ WorkerOf \in [Slots -> Workers]
  /\ Retries \in Nat
  /\ JobMaxAttempts \in Nat
  /\ TaskMaxAttempts \in [Positions -> Nat]
  /\ Resolvable \subseteq Workers \X Jobs
  /\ MaxFaults \in [FaultKinds -> Nat]
  /\ None \notin Slots

VARIABLES
  slot,     \* what each coroutine is doing, lost in a crash
  active,   \* Worker._active: run id -> the slot whose ctx it holds
  mode,     \* "up", "deaf" (its heartbeat task died) or "draining"
  beat,     \* how far each heartbeat is in its pass over _active
  faults    \* how many faults of each kind have happened

vars == <<jobs, runs, tasks, slot, active, mode, beat, faults>>

Labels ==
  {"idle", "selected", "outdated", "load", "cancelLoaded", "failLoaded", "records",
   "exhausted", "start", "body", "succeed", "checkpoint", "complete",
   "resetAttempts", "retryCtx", "retryTask", "release", "leave", "failCtx",
   "failTask", "gather", "undo", "failRun", "increment", "retryRun",
   "cancelTask", "cancelRun", "abort"}

SlotState ==
  [pc      : Labels,
   run     : RunIds \cup {0},
   pos     : 0 .. NTasks,
   tried   : [Positions -> Nat],       \* attempts of the records read at start
   ctx     : SUBSET Positions,         \* ctx.results of the live TaskContext
   flagged : BOOLEAN,                  \* ctx.cancelled
   listed  : BOOLEAN,                  \* its ctx is one the heartbeat has yet to visit
   todo    : SUBSET Positions]         \* records _compensate has yet to undo

BeatState ==
  [todo : SUBSET RunIds,         \* the entries of its list yet to visit
   run  : RunIds \cup {0},       \* the run it is about to renew, 0 for none
   lost : BOOLEAN]               \* whether it has found that run's lease lost

TypeOK ==
  /\ BackendTypeOK
  /\ slot \in [Slots -> SlotState]
  /\ active \in [Workers -> [RunIds -> Slots \cup {None}]]
  /\ mode \in [Workers -> {"up", "deaf", "draining"}]
  /\ beat \in [Workers -> BeatState]
  /\ faults \in [FaultKinds -> Nat]

Idle == [pc |-> "idle", run |-> 0, pos |-> 0,
         tried |-> [p \in Positions |-> 0], ctx |-> {}, flagged |-> FALSE,
         listed |-> FALSE, todo |-> {}]

Asleep == [todo |-> {}, run |-> 0, lost |-> FALSE]

Init ==
  /\ BackendInit
  /\ slot = [s \in Slots |-> Idle]
  /\ active = [w \in Workers |-> [r \in RunIds |-> None]]
  /\ mode = [w \in Workers |-> "up"]
  /\ beat = [w \in Workers |-> Asleep]
  /\ faults = [k \in FaultKinds |-> 0]

-----------------------------------------------------------------------------

At(s, label) == slot[s].pc = label

Goto(s, label) == slot' = [slot EXCEPT ![s].pc = label]

\* The coroutine of the slot ends.
Release(s) == slot' = [slot EXCEPT ![s] = Idle]

RunOf(s) == slot[s].run
JobOf(s) == runs[RunOf(s)].job    \* remembered if the row is gone

\* Mutant: the finally is missing.
LeaveRegistered(s) == UNCHANGED active

\* The finally of _run: _active.pop(run.id, None).
Unregister(s) == active' = [active EXCEPT ![WorkerOf[s]][RunOf(s)] = None]

\* max_attempts of the task, else of the job.
Budget(p) ==
  IF TaskMaxAttempts[p] # 0 THEN TaskMaxAttempts[p] ELSE JobMaxAttempts

\* The attempt the slot is making, counted from the records it read.
Attempt(s) == slot[s].tried[slot[s].pos] + 1

\* Mutant: the last task is taken for done.
AfterTaskEarly(p) == IF p + 2 < NTasks THEN "start" ELSE "complete"

\* After the task at a position, the next one or the end of the run.
AfterTask(p) == IF p + 1 < NTasks THEN "start" ELSE "complete"

\* One more fault of a kind, each bounded by MaxFaults.
Fault(kind) ==
  /\ faults[kind] < MaxFaults[kind]
  /\ faults' = [faults EXCEPT ![kind] = @ + 1]

processVars == <<active, mode, beat, faults>>
workerVars  == <<mode, beat, faults>>
-----------------------------------------------------------------------------
(* Claiming (_poll_once): one claim at a time in a worker, a SELECT and a   *)
(* conditional UPDATE that compares with the time at which claim() began.   *)

Claiming(s) == slot[s].pc \in {"selected", "outdated"}

SelectRun(s) ==
  /\ At(s, "idle")
  /\ mode[WorkerOf[s]] # "draining"
  /\ \A t \in Slots : WorkerOf[t] = WorkerOf[s] => ~Claiming(t)
  /\ \E r \in RunIds :
       /\ FirstClaimable(r, WorkerOf[s])
       /\ slot' = [slot EXCEPT ![s].pc = "selected", ![s].run = r]
  /\ UNCHANGED <<tables, processVars>>

\* The locked_at or scheduled_at of run r is set anew: it is later than the
\* time of the claims that have selected r, whose UPDATE matches it no more.
Outdate(slots, r) ==
  [t \in Slots |-> IF slots[t].pc = "selected" /\ slots[t].run = r
                   THEN [slots[t] EXCEPT !.pc = "outdated"] ELSE slots[t]]

ClaimSelected(s) ==
  /\ At(s, "selected")
  /\ ClaimRun(RunOf(s), WorkerOf[s])
  /\ IF ClaimMatches(RunOf(s))
     THEN slot' = Outdate([slot EXCEPT ![s].pc = "load",
                                       ![s].ctx = runs[RunOf(s)].ctx], RunOf(s))
     ELSE Release(s)
  /\ UNCHANGED <<jobs, tasks, processVars>>

MissSelected(s) ==
  /\ At(s, "outdated")
  /\ Release(s)
  /\ UNCHANGED <<tables, processVars>>

-----------------------------------------------------------------------------
(* The head of _run: the job, its class, and where to resume.               *)

LoadJob(s) ==
  /\ At(s, "load")
  /\ LET j == JobOf(s) IN
     Goto(s, CASE jobs[j].status = "cancelled" -> "cancelLoaded"
               [] jobs[j].status # "cancelled"
                  /\ (~JobExists(j) \/ <<WorkerOf[s], j>> \notin Resolvable)
                    -> "failLoaded"
               [] OTHER -> "records")
  /\ UNCHANGED <<tables, processVars>>

CancelLoaded(s) ==
  /\ At(s, "cancelLoaded")
  /\ CancelRun(RunOf(s))
  /\ Release(s)
  /\ UNCHANGED <<jobs, tasks, processVars>>

FailLoaded(s) ==
  /\ At(s, "failLoaded")
  /\ FailRun(RunOf(s))
  /\ Release(s)
  /\ UNCHANGED <<jobs, tasks, processVars>>

\* Mutant: a run starts from its first task.
ResumesAtFirst(r, p) == p = 0

\* The first task that has not succeeded, or NTasks.
ResumesAt(r, p) ==
  /\ p \in 0 .. NTasks
  /\ p \notin Succeeded(r)
  /\ \A q \in Positions : q < p => q \in Succeeded(r)

Exhausted(r, p) ==
  /\ p \in Positions
  /\ tasks[r][p].status = "failed"
  /\ tasks[r][p].attempts >= Budget(p)

\* Somebody in the process is about to pop the entry of this run, for an
\* execution before: the finally of one that has released it, or the heartbeat
\* that has found its lease lost.  The answer to their call is under way since,
\* through the backoff or a lease, another claim and two calls more.
Overtakes(s) ==
  LET w == WorkerOf[s]  r == RunOf(s) IN
  \/ beat[w].lost /\ beat[w].run = r
  \/ \E t \in Slots : WorkerOf[t] = w /\ At(t, "leave") /\ RunOf(t) = r

ReadRecords(s) ==
  LET r == RunOf(s) IN
  /\ At(s, "records")
  /\ \E p \in 0 .. NTasks :
       /\ ResumesAt(r, p)
       /\ slot' = [slot EXCEPT
            ![s].pc = CASE p = NTasks -> "complete"
                        [] p # NTasks /\ Exhausted(r, p) -> "exhausted"
                        [] OTHER -> "start",
            ![s].pos = p,
            ![s].tried = [q \in Positions |-> tasks[r][q].attempts]]
  /\ active' = [active EXCEPT ![WorkerOf[s]][r] = s]
  /\ IF Overtakes(s) THEN Fault("overtake") ELSE UNCHANGED faults
  /\ UNCHANGED <<tables, mode, beat>>

\* Mutant: the run of an exhausted task is failed at once.
FailExhausted(s) ==
  /\ At(s, "exhausted")
  /\ SetRunCtx(RunOf(s), slot[s].ctx)
  /\ Goto(s, "failRun")
  /\ UNCHANGED <<jobs, tasks, processVars>>

PersistExhausted(s) ==
  /\ At(s, "exhausted")
  /\ SetRunCtx(RunOf(s), slot[s].ctx)
  /\ Goto(s, "gather")
  /\ UNCHANGED <<jobs, tasks, processVars>>

-----------------------------------------------------------------------------
(* _run_task.                                                               *)

StartTask(s) ==
  /\ At(s, "start")
  /\ TaskStarts(RunOf(s), slot[s].pos, Attempt(s))
  /\ Goto(s, "body")
  /\ UNCHANGED <<jobs, runs, processVars>>

TaskReturns(s) ==
  /\ At(s, "body")
  /\ slot' = [slot EXCEPT ![s].pc = "succeed", ![s].ctx = @ \cup {slot[s].pos}]
  /\ UNCHANGED <<tables, processVars>>

\* An exception or a timeout.
TaskRaises(s) ==
  /\ At(s, "body")
  /\ Goto(s, IF Attempt(s) >= Budget(slot[s].pos) THEN "failCtx" ELSE "retryCtx")
  /\ UNCHANGED <<tables, processVars>>

\* check_cancelled raises JobCancelledError.
TaskAborts(s) ==
  /\ At(s, "body")
  /\ slot[s].flagged
  /\ Goto(s, "cancelTask")
  /\ UNCHANGED <<tables, processVars>>

SucceedTask(s) ==
  /\ At(s, "succeed")
  /\ TaskSucceeds(RunOf(s), slot[s].pos)
  /\ Goto(s, "checkpoint")
  /\ UNCHANGED <<jobs, runs, processVars>>

\* Mutant: the ctx is persisted when a task fails only.
CheckpointInMemory(s) ==
  /\ At(s, "checkpoint")
  /\ slot' = [slot EXCEPT ![s].pc = AfterTask(slot[s].pos), ![s].pos = @ + 1]
  /\ UNCHANGED <<tables, processVars>>

Checkpoint(s) ==
  /\ At(s, "checkpoint")
  /\ SetRunCtx(RunOf(s), slot[s].ctx)
  /\ slot' = [slot EXCEPT ![s].pc = AfterTask(slot[s].pos), ![s].pos = @ + 1]
  /\ UNCHANGED <<jobs, tasks, processVars>>

CancelTask(s) ==
  /\ At(s, "cancelTask")
  /\ TaskIsCancelled(RunOf(s), slot[s].pos)
  /\ Goto(s, "cancelRun")
  /\ UNCHANGED <<jobs, runs, processVars>>

CancelTaskRun(s) ==
  /\ At(s, "cancelRun")
  /\ CancelRun(RunOf(s))
  /\ Release(s)
  /\ Unregister(s)
  /\ UNCHANGED <<jobs, tasks, workerVars>>

\* Attempts left: the task fails with a retry_at and the run is released.
PersistRetry(s) ==
  /\ At(s, "retryCtx")
  /\ SetRunCtx(RunOf(s), slot[s].ctx)
  /\ Goto(s, "retryTask")
  /\ UNCHANGED <<jobs, tasks, processVars>>

RetryTask(s) ==
  /\ At(s, "retryTask")
  /\ TaskFails(RunOf(s), slot[s].pos, Attempt(s))
  /\ Goto(s, "release")
  /\ UNCHANGED <<jobs, runs, processVars>>

ReleaseForRetry(s) ==
  /\ At(s, "release")
  /\ ReleaseRun(RunOf(s))
  /\ slot' = Outdate([slot EXCEPT ![s].pc = "leave"], RunOf(s))
  /\ UNCHANGED <<jobs, tasks, processVars>>

\* The run is anybody's when the finally of _run pops its entry.
LeaveRun(s) ==
  /\ At(s, "leave")
  /\ Release(s)
  /\ Unregister(s)
  /\ UNCHANGED <<tables, workerVars>>

\* No attempts left.
PersistFailure(s) ==
  /\ At(s, "failCtx")
  /\ SetRunCtx(RunOf(s), slot[s].ctx)
  /\ Goto(s, "failTask")
  /\ UNCHANGED <<jobs, tasks, processVars>>

FailTask(s) ==
  /\ At(s, "failTask")
  /\ TaskFails(RunOf(s), slot[s].pos, Attempt(s))
  /\ Goto(s, "gather")
  /\ UNCHANGED <<jobs, runs, processVars>>

-----------------------------------------------------------------------------
(* _compensate: undo what had succeeded, last position first.  An undo that *)
(* raises is logged and its task is marked compensated all the same.        *)

Gather(s) ==
  /\ At(s, "gather")
  /\ slot' = [slot EXCEPT
       ![s].pc = IF Succeeded(RunOf(s)) = {} THEN "failRun" ELSE "undo",
       ![s].todo = Succeeded(RunOf(s))]
  /\ UNCHANGED <<tables, processVars>>

\* Mutant: undo in the order of execution.
UndoFirstTask(s) ==
  /\ At(s, "undo")
  /\ \E p \in slot[s].todo :
       /\ \A q \in slot[s].todo : p <= q
       /\ TaskIsCompensated(RunOf(s), p)
       /\ slot' = [slot EXCEPT
            ![s].pc = IF slot[s].todo = {p} THEN "failRun" ELSE "undo",
            ![s].todo = @ \ {p}]
  /\ UNCHANGED <<jobs, runs, processVars>>

UndoTask(s) ==
  /\ At(s, "undo")
  /\ \E p \in slot[s].todo :
       /\ \A q \in slot[s].todo : q <= p
       /\ TaskIsCompensated(RunOf(s), p)
       /\ slot' = [slot EXCEPT
            ![s].pc = IF slot[s].todo = {p} THEN "failRun" ELSE "undo",
            ![s].todo = @ \ {p}]
  /\ UNCHANGED <<jobs, runs, processVars>>

-----------------------------------------------------------------------------
(* The end of a run: _finalize_failed, or complete_run and its sequel.      *)

\* Mutant: fail_run is given a retry_at here, too.
ReleaseFailed(s) ==
  /\ At(s, "failRun")
  /\ ReleaseRun(RunOf(s))
  /\ IF Retries = 0
     THEN Release(s) /\ Unregister(s)
     ELSE Goto(s, "increment") /\ UNCHANGED active
  /\ UNCHANGED <<jobs, tasks, workerVars>>

FinalizeFailed(s) ==
  /\ At(s, "failRun")
  /\ FailRun(RunOf(s))
  /\ IF Retries = 0
     THEN Release(s) /\ Unregister(s)
     ELSE Goto(s, "increment") /\ UNCHANGED active
  /\ UNCHANGED <<jobs, tasks, workerVars>>

\* Mutants: one whole-run retry too many, one too few.
CountFailureLate(s) ==
  /\ At(s, "increment")
  /\ IncrementJobAttempts(JobOf(s))
  /\ IF AttemptsAfter(JobOf(s)) <= Retries + 1
     THEN Goto(s, "retryRun") /\ UNCHANGED active
     ELSE Release(s) /\ Unregister(s)
  /\ UNCHANGED <<runs, tasks, workerVars>>

CountFailureEarly(s) ==
  /\ At(s, "increment")
  /\ IncrementJobAttempts(JobOf(s))
  /\ IF AttemptsAfter(JobOf(s)) < Retries
     THEN Goto(s, "retryRun") /\ UNCHANGED active
     ELSE Release(s) /\ Unregister(s)
  /\ UNCHANGED <<runs, tasks, workerVars>>

CountFailure(s) ==
  /\ At(s, "increment")
  /\ IncrementJobAttempts(JobOf(s))
  /\ IF AttemptsAfter(JobOf(s)) <= Retries
     THEN Goto(s, "retryRun") /\ UNCHANGED active
     ELSE Release(s) /\ Unregister(s)
  /\ UNCHANGED <<runs, tasks, workerVars>>

RetryWholeRun(s) ==
  /\ At(s, "retryRun")
  /\ \E r \in RunIds : CreateRun(r, JobOf(s))
  /\ Release(s)
  /\ Unregister(s)
  /\ UNCHANGED <<jobs, tasks, workerVars>>

Complete(s) ==
  /\ At(s, "complete")
  /\ CompleteRun(RunOf(s))
  /\ Goto(s, "resetAttempts")
  /\ UNCHANGED <<jobs, tasks, processVars>>

ResetAttempts(s) ==
  /\ At(s, "resetAttempts")
  /\ ResetJobAttempts(JobOf(s))
  /\ Release(s)
  /\ Unregister(s)
  /\ UNCHANGED <<runs, tasks, workerVars>>

\* The except of _execute.
FailUnhandled(s) ==
  /\ At(s, "abort")
  /\ FailRun(RunOf(s))
  /\ Release(s)
  /\ UNCHANGED <<jobs, tasks, processVars>>

-----------------------------------------------------------------------------
(* _heartbeat_loop: two database calls for each entry of a copy of _active. *)

\* list(self._active.items()): the runs, and the ctx of each.
BeatBegins(w) ==
  LET entries == {r \in RunIds : active[w][r] # None} IN
  /\ mode[w] = "up"
  /\ beat[w] = Asleep
  /\ entries # {}
  /\ beat' = [beat EXCEPT ![w].todo = entries]
  /\ slot' = [s \in Slots |->
       IF WorkerOf[s] = w
       THEN [slot[s] EXCEPT !.listed = \E r \in entries : active[w][r] = s]
       ELSE slot[s]]
  /\ UNCHANGED <<tables, active, mode, faults>>

\* is_job_cancelled: flag the ctx and go on to the next entry, or renew.  A
\* ctx whose coroutine is through with the run is nobody's by now.
BeatChecks(w) ==
  /\ mode[w] = "up"
  /\ beat[w].run = 0
  /\ \E r \in beat[w].todo :
       LET cancelled == jobs[runs[r].job].status = "cancelled"
           Visited(s) == WorkerOf[s] = w /\ slot[s].listed /\ RunOf(s) = r
       IN  /\ slot' = [s \in Slots |->
                IF Visited(s)
                THEN [slot[s] EXCEPT !.listed = FALSE, !.flagged = @ \/ cancelled]
                ELSE slot[s]]
           /\ beat' = [beat EXCEPT ![w].todo = @ \ {r},
                                   ![w].run = IF cancelled THEN 0 ELSE r]
  /\ UNCHANGED <<tables, active, mode, faults>>

\* renew_lease: whether the run is still running and this worker's.
BeatRenews(w) ==
  LET r == beat[w].run IN
  /\ mode[w] = "up"
  /\ r # 0 /\ ~beat[w].lost
  /\ RenewLease(r, w)
  /\ IF LeaseHeldBy(r, w)
     THEN slot' = Outdate(slot, r) /\ beat' = [beat EXCEPT ![w].run = 0]
     ELSE beat' = [beat EXCEPT ![w].lost = TRUE] /\ UNCHANGED slot
  /\ UNCHANGED <<jobs, tasks, active, mode, faults>>

\* A lost run is dropped from _active, whoever has entered it there since.
BeatDrops(w) ==
  /\ mode[w] = "up"
  /\ beat[w].lost
  /\ active' = [active EXCEPT ![w][beat[w].run] = None]
  /\ beat' = [beat EXCEPT ![w].run = 0, ![w].lost = FALSE]
  /\ UNCHANGED <<tables, slot, mode, faults>>

-----------------------------------------------------------------------------
(* Faults, each kind bounded by MaxFaults: Overtakes above, and these.      *)

\* The process dies and is started again: its coroutines and _active go.
Crash(w) ==
  /\ Fault("crash")
  /\ slot' = [s \in Slots |-> IF WorkerOf[s] = w THEN Idle ELSE slot[s]]
  /\ active' = [active EXCEPT ![w] = [r \in RunIds |-> None]]
  /\ mode' = [mode EXCEPT ![w] = "up"]
  /\ beat' = [beat EXCEPT ![w] = Asleep]
  /\ UNCHANGED tables

\* stop(): no more claims, the heartbeat is cancelled, the runs drain.
Stop(w) ==
  /\ mode[w] # "draining"
  /\ Fault("stop")
  /\ mode' = [mode EXCEPT ![w] = "draining"]
  /\ beat' = [beat EXCEPT ![w] = Asleep]
  /\ UNCHANGED <<tables, slot, active>>

\* The drained process has ended; a new one takes its place.
Restart(w) ==
  /\ mode[w] = "draining"
  /\ \A s \in Slots : WorkerOf[s] = w => At(s, "idle")
  /\ mode' = [mode EXCEPT ![w] = "up"]
  /\ active' = [active EXCEPT ![w] = [r \in RunIds |-> None]]
  /\ UNCHANGED <<tables, slot, beat, faults>>

\* Nothing in _heartbeat_loop catches what a database call raises.
BeatDies(w) ==
  /\ mode[w] = "up"
  /\ Fault("beatError")
  /\ mode' = [mode EXCEPT ![w] = "deaf"]
  /\ beat' = [beat EXCEPT ![w] = Asleep]
  /\ UNCHANGED <<tables, slot, active>>

\* A database call of a slot raises and its transaction is rolled back.
\* Before _active is set, and in _execute's own handler, nothing is popped.
Unregistered == {"load", "cancelLoaded", "failLoaded", "records"}

CallFails(s) ==
  /\ slot[s].pc \notin {"idle", "body", "leave"}
  /\ Fault("dbError")
  /\ IF Claiming(s) \/ At(s, "abort")
     THEN Release(s) /\ UNCHANGED active
     ELSE /\ Goto(s, "abort")
          /\ IF slot[s].pc \in Unregistered THEN UNCHANGED active
             ELSE Unregister(s)
  /\ UNCHANGED <<tables, mode, beat>>

\* A slot that is executing a claimed run.
Executing(s) == ~At(s, "idle") /\ ~Claiming(s) /\ ~At(s, "leave")

\* Some live execution keeps the lease of the run fresh: it is in _active of
\* a worker whose heartbeat runs, or in a stretch far shorter than a lease.
KeptAlive(r) ==
  \E s \in Slots :
    /\ Executing(s)
    /\ RunOf(s) = r
    /\ runs[r].owner = WorkerOf[s]
    /\ mode[WorkerOf[s]] = "up"
    /\ \/ active[WorkerOf[s]][r] # None
       \/ slot[s].pc \in Unregistered \cup {"abort"}

\* The lease of a run nobody keeps alive runs out; that of a live execution
\* only by a lapse: a stalled event loop, a paused process, a slow database.
LeaseRunsOut(r) ==
  /\ LeaseExpires(r)
  /\ ~KeptAlive(r)
  /\ UNCHANGED <<jobs, tasks, slot, processVars>>

LeaseLapses(r) ==
  /\ LeaseExpires(r)
  /\ KeptAlive(r)
  /\ Fault("lapse")
  /\ UNCHANGED <<jobs, tasks, slot, active, mode, beat>>

-----------------------------------------------------------------------------

ClientEnqueues(j) ==
  /\ Enqueue(j)
  /\ UNCHANGED <<tasks, slot, processVars>>

ClientCancels(j) ==
  /\ CancelJob(j)
  /\ UNCHANGED <<tasks, slot, processVars>>

\* The steps of a coroutine that do not wait for user code.
CallStep(s) ==
  \/ SelectRun(s) \/ ClaimSelected(s) \/ MissSelected(s)
  \/ LoadJob(s) \/ CancelLoaded(s) \/ FailLoaded(s)
  \/ ReadRecords(s) \/ PersistExhausted(s)
  \/ StartTask(s) \/ SucceedTask(s) \/ Checkpoint(s)
  \/ CancelTask(s) \/ CancelTaskRun(s)
  \/ PersistRetry(s) \/ RetryTask(s) \/ ReleaseForRetry(s) \/ LeaveRun(s)
  \/ PersistFailure(s) \/ FailTask(s)
  \/ Gather(s) \/ UndoTask(s)
  \/ FinalizeFailed(s) \/ CountFailure(s) \/ RetryWholeRun(s)
  \/ Complete(s) \/ ResetAttempts(s) \/ FailUnhandled(s)

TaskStep(s) == TaskReturns(s) \/ TaskRaises(s) \/ TaskAborts(s)

BeatStep(w) == BeatBegins(w) \/ BeatChecks(w) \/ BeatRenews(w) \/ BeatDrops(w)

Next ==
  \/ \E j \in Jobs : ClientEnqueues(j) \/ ClientCancels(j)
  \/ \E s \in Slots : CallStep(s) \/ TaskStep(s) \/ CallFails(s)
  \/ \E w \in Workers :
       BeatStep(w) \/ Crash(w) \/ Stop(w) \/ Restart(w) \/ BeatDies(w)
  \/ \E r \in RunIds : LeaseRunsOut(r) \/ LeaseLapses(r)

Spec == Init /\ [][Next]_vars
=============================================================================
