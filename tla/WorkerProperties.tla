--------------------------- MODULE WorkerProperties ---------------------------
(***************************************************************************)
(* What the executor promises: its safety invariants, action properties    *)
(* and liveness properties, and the fairness its scheduling justifies.     *)
(***************************************************************************)
EXTENDS Worker

RunsOf(j) == {r \in RunIds : runs[r].job = j}

\* A run that is waiting for a worker or held by one.
InFlight(r) == runs[r].status \in {"ready", "running"}

JobCancelled(r) ==
  runs[r].job \in Jobs /\ jobs[runs[r].job].status = "cancelled"

\* Faults that leave a process, or a call, cut short between two writes.
Interruptions == faults["crash"] + faults["dbError"]

\* Where _run_task, or what it calls, is at work on the task at pos.
TaskLabels ==
  {"exhausted", "start", "body", "succeed", "checkpoint", "retryCtx",
   "retryTask", "release", "failCtx", "failTask", "cancelTask", "cancelRun"}

\* A coroutine at work has a run, and a task of it where it needs one: what
\* type correctness rests on.
WorkingSlot ==
  {x \in SlotState : /\ x.pc # "idle" => x.run \in RunIds
                     /\ x.pc \in TaskLabels => x.pos \in Positions}

SlotInv == slot \in [Slots -> WorkingSlot]

-----------------------------------------------------------------------------
(* Exclusion and resumption.                                                *)

\* Two coroutines, in one process or in two, never execute the same run:
\* claim's conditional UPDATE, the heartbeat and the lease together.
ExclusiveExecution ==
  \A s, t \in Slots :
    Executing(s) /\ Executing(t) /\ RunOf(s) = RunOf(t) => s = t

\* _active never points to a slot that is doing something else: what the
\* heartbeat lists is the ctx of an execution of that very run, at its end at
\* the latest.
RegistryExact ==
  \A w \in Workers, r \in RunIds :
    active[w][r] # None
      => LET s == active[w][r]
         IN  /\ WorkerOf[s] = w /\ RunOf(s) = r
             /\ Executing(s) \/ At(s, "leave")

\* The inductive invariant behind it: while a slot executes a run, the run
\* has ended or is running under the live lease of the slot's worker, and the
\* heartbeat of that worker knows of it and nobody is about to take the entry
\* away, or it will know before the lease can run out.
Renewed(s) ==
  \/ slot[s].pc \in Unregistered \cup {"abort"}
  \/ active[WorkerOf[s]][RunOf(s)] # None /\ ~Overtakes(s)

HoldsLease(s) ==
  /\ LeaseHeldBy(RunOf(s), WorkerOf[s])
  /\ runs[RunOf(s)].lease = "live"
  /\ Renewed(s)

LeaseInv ==
  /\ SlotInv
  /\ \A s \in Slots :
       Executing(s) => runs[RunOf(s)].status \in Over \/ HoldsLease(s)
  /\ ExclusiveExecution

\* What it rests on: leases never lapse under a live execution, heartbeats
\* survive, workers are killed, not stopped, and a call that is answered has
\* its effect in the process before the same run is executed there again.
LeasesHold ==
  \A kind \in {"stop", "beatError", "lapse", "overtake"} : MaxFaults[kind] = 0

\* Completed work is never repeated: the row of a task that succeeded is only
\* ever changed by compensation.
NoRerun ==
  [][\A r \in RunIds, p \in Positions :
       tasks[r][p].status = "succeeded"
         => tasks'[r][p].status \in {"succeeded", "compensated"}]_vars

\* Tasks run in order and are undone in reverse order, through retries,
\* reclaims and interrupted compensations: no gap below a succeeded task.
SucceededIsPrefix ==
  \A r \in RunIds, p, q \in Positions :
    RunExists(r) /\ p < q /\ q \in Succeeded(r) => p \in Succeeded(r)

\* A task is tried at most as often as its budget says, apart from one more
\* try for each crash or failed call that cut an attempt short.
AttemptsBounded ==
  \A r \in RunIds, p \in Positions :
    tasks[r][p].attempts <= Budget(p) + Interruptions

\* Between succeed_task and set_run_ctx of the run.
Checkpointing(r) == \E s \in Slots : At(s, "checkpoint") /\ RunOf(s) = r

\* The persisted ctx holds the result of every succeeded task, apart from the
\* one being checkpointed, if one is, and one for each interruption between
\* the write of the task and the write of the ctx.
CheckpointLag ==
  \A r \in RunIds :
    RunExists(r) =>
      Cardinality(Succeeded(r) \ runs[r].ctx)
        <= (IF Checkpointing(r) THEN 1 ELSE 0) + Interruptions

\* A run that succeeded has every task of its job behind it.
SucceededMeansAllDone ==
  \A r \in RunIds :
    runs[r].status = "succeeded" => Succeeded(r) = Positions

\* The inductive invariant behind the order of tasks: what a coroutine is at
\* says what has succeeded so far, for as long as it alone executes the run.
Upto(n) == {p \in Positions : p < n}

\* Where the task at pos has not succeeded yet.
AtTask ==
  {"start", "body", "succeed", "retryCtx", "retryTask", "failCtx", "failTask",
   "cancelTask"}

SlotProgress(s) ==
  LET r == RunOf(s)
      done == Succeeded(r)
  IN  /\ runs[r].status = "succeeded" => slot[s].pc \in {"resetAttempts", "abort"}
      /\ slot[s].pc \in AtTask => done = Upto(slot[s].pos)
      /\ slot[s].pc \in {"body", "succeed"} => TaskExists(r, slot[s].pos)
      /\ At(s, "checkpoint") => done = Upto(slot[s].pos + 1)
      /\ At(s, "complete") => done = Positions
      /\ At(s, "undo") => slot[s].todo = done

RowProgress(r) ==
  /\ \A p, q \in Positions : p < q /\ q \in Succeeded(r) => p \in Succeeded(r)
  /\ runs[r].status = "succeeded" => Succeeded(r) = Positions

ProgressInv ==
  /\ \A r \in RunIds : RowProgress(r)
  /\ \A s \in Slots : Executing(s) => SlotProgress(s)

-----------------------------------------------------------------------------
(* Outcomes.                                                                *)

\* Nothing revives a run that has ended: no late retry, reclaim or renewal by
\* a coroutine that does not know yet.
TerminalStays ==
  [][\A r \in RunIds : runs[r].status \in Terminal
                         => runs'[r].status \in Terminal]_vars

\* An outcome, once written, is the outcome.
OutcomeIsFinal ==
  [][\A r \in RunIds : runs[r].status \in Terminal
                         => runs'[r].status = runs[r].status]_vars

\* A run that failed has been compensated as a whole.
FailedAfterUndo ==
  \A r \in RunIds : runs[r].status = "failed" => Succeeded(r) = {}

\* A job has one run waiting or running at a time, whole-run retries included.
SerialRuns ==
  \A r, q \in RunIds :
    InFlight(r) /\ InFlight(q) /\ runs[r].job = runs[q].job => r = q

\* A job runs once and then at most Retries times more.
RunsBounded ==
  \A j \in Jobs : Cardinality(RunsOf(j)) <= 1 + Retries

\* The inductive invariant behind the next one: a run that is claimable for
\* whoever has selected it, or running, is a run of an active job.
ActiveJobInv ==
  \A r \in RunIds :
    \/ IsRunning(r)
    \/ runs[r].status = "ready"
       /\ \E s \in Slots : At(s, "selected") /\ RunOf(s) = r
    => runs[r].job \in Jobs /\ jobs[runs[r].job].status = "active"

\* No worker holds the lease of a run whose job is cancelled, however the
\* claim and the cancellation interleave.
NoRunningOfCancelledJob ==
  \A r \in RunIds :
    runs[r].status = "running" => jobs[runs[r].job].status = "active"

-----------------------------------------------------------------------------
(* Claims of the documentation and the comments that the code breaks.       *)

\* "Cancellation is stop only - it never compensates": no task is undone once
\* its job is cancelled.
CancelNeverCompensates ==
  [][\A r \in RunIds, p \in Positions :
       tasks[r][p].status # "compensated" /\ JobCancelled(r)
         => tasks'[r][p].status # "compensated"]_vars

\* cancel "stops its active run and any future runs": a cancelled job has no
\* run left in flight.
CancelStopsFutureRuns ==
  \A r \in RunIds : InFlight(r) => ~JobCancelled(r)

\* "Resume after a prior worker that exhausted a task's retries but crashed
\* before finalizing the run as failed": such a run only goes on compensating,
\* it does not start a task it has undone.
UndoneStaysUndone ==
  [][\A r \in RunIds, p \in Positions :
       tasks[r][p].status = "compensated"
         => tasks'[r][p].status = "compensated"]_vars

\* "When a task exhausts its retries, completed tasks are undone": where a run
\* has failed with an exhausted task, no task of it remains succeeded.
ExhaustedIsUndone ==
  \A r \in RunIds :
    runs[r].status = "failed" /\ (\E p \in Positions : Exhausted(r, p))
      => Succeeded(r) = {}

-----------------------------------------------------------------------------
(* Liveness.                                                                *)

\* The event loops keep turning, database calls return, leases run out and a
\* drained process is replaced.
SystemFairness ==
  /\ \A s \in Slots : WF_vars(CallStep(s))
  /\ \A r \in RunIds : WF_vars(LeaseRunsOut(r))
  /\ \A w \in Workers : WF_vars(BeatStep(w)) /\ WF_vars(Restart(w))

\* Every task body returns, raises or aborts (a timeout sees to it).
TasksEnd == \A s \in Slots : WF_vars(TaskStep(s))

FairSpec == Spec /\ SystemFairness /\ TasksEnd

\* Tasks may go on for ever: only the framework's own steps are fair.
LongTasksSpec == Spec /\ SystemFairness

\* Every run comes to an end, whatever worker dies holding it, unless its job
\* is cancelled.
EveryRunSettles ==
  \A r \in RunIds :
    InFlight(r) ~> runs[r].status \in Terminal \/ JobCancelled(r)

\* "if a run fails after its task retries, the whole job re-runs": a failed
\* run that is not the last one allowed is followed by another.
RetryFollowsFailure ==
  \A r \in RunIds, j \in Jobs :
    /\ runs[r].status = "failed"
    /\ runs[r].job = j
    /\ Cardinality(RunsOf(j)) <= Retries
    ~> \/ jobs[j].status = "cancelled"
       \/ \E q \in RunsOf(j) : q > r

\* "The worker's heartbeat sets ctx.cancelled on the live run": a task that is
\* running when its job is cancelled ends or sees the flag.
CancelReachesTask ==
  \A s \in Slots :
    /\ At(s, "body")
    /\ jobs[JobOf(s)].status = "cancelled"
    ~> slot[s].flagged \/ ~At(s, "body")

-----------------------------------------------------------------------------
(* The executor implements the life of a run.                               *)

LifeOf(r) == CASE runs[r].status = "ready" -> "waiting"
               [] runs[r].status = "running" -> "held"
               [] OTHER -> runs[r].status

Life == INSTANCE RunLifecycle WITH
  Runs    <- RunIds,
  Holders <- Slots,
  state   <- [r \in RunIds |-> LifeOf(r)],
  holders <- [r \in RunIds |-> {s \in Slots : Executing(s) /\ RunOf(s) = r}]

\* Claiming, leases, checkpoints, retries, compensation and crashes together
\* give each run one holder at a time and one outcome.
ImplementsLifecycle == Life!LifeSpec
=============================================================================
