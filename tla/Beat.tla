--------------------------------- MODULE Beat ---------------------------------
(***************************************************************************)
(* Maintained jobs: schedule(), the beat (JobManager.tick, reconcile) and  *)
(* the part of the worker that re-arms a job (_finalize_failed,            *)
(* _reschedule, _reschedule_on_error), over the tables jobs and runs; and  *)
(* on-demand jobs, whose runs the sweep of abandoned runs reaches as well. *)
(*                                                                         *)
(* Several beats tick concurrently, each database transaction a step.      *)
(* Time is kept as ages, counted in ticks of Clock and saturated: how long *)
(* ago a row was created or updated, how long ago a next_run_at was due.   *)
(* Runs that have ended leave the table, for no guard reads them.  What a  *)
(* worker does within a run is module Worker's; here it holds a run alone, *)
(* and the run of a worker that crashed can be claimed again.              *)
(***************************************************************************)
EXTENDS Integers, FiniteSets

CONSTANTS
  Jobs,          \* the jobs, maintained or on demand
  Beats,         \* processes in run_forever()
  Slots,         \* places under the concurrency caps of the workers
  Colocated,     \* <<slot, beat>>: the worker of the slot shares the backend
                 \* object, hence last_claim_at, of the beat
  MaxRuns,       \* bound: rows of runs that have not ended
  Batch,         \* _RECONCILE_BATCH
  Grace,         \* abandoned_grace_seconds
  MisfireGrace,  \* misfire_grace_seconds, or None
  Late,          \* bound: next_run_at is told apart up to so long overdue
  NextRuntimes,  \* what next_runtime() may answer: None, or minus the delay
  Retries,       \* jobs.retries
  Prompt,        \* bound: who is done with a job within Grace of its update
  MaxCrashes,    \* bound
  None

ASSUME BeatAssumption ==
  /\ Colocated \subseteq Slots \X Beats
  /\ MaxRuns \in Nat /\ Grace \in Nat /\ Retries \in Nat /\ MaxCrashes \in Nat
  /\ Late \in Nat
  /\ Batch \in Nat \ {0}
  /\ MisfireGrace = None \/ MisfireGrace \in 0 .. (Late - 1)
  /\ NextRuntimes \subseteq Int \cup {None}
  /\ \A n \in NextRuntimes : n = None \/ n <= 0
  /\ Prompt \subseteq {"beats", "runs"}

VARIABLES job, run, beat, slot, lastClaim, crashes

vars == <<job, run, beat, slot, lastClaim, crashes>>

RunIds == 1 .. MaxRuns
Old    == Grace + 1     \* an age past the grace period

\* next_run_at: None, or how long ago it was due (negative: still to come).
NextRun == Int \cup {None}

JobRow == [status   : {"absent", "active", "cancelled"},
           source   : {"scheduled", "on_demand"},
           next     : NextRun,
           idle     : 0 .. Old,              \* age of updated_at
           attempts : 0 .. (Retries + 1)]

RunRow == [status : {"none", "ready", "running", "cancelled"},
           job    : Jobs \cup {None},
           age    : 0 .. Old,               \* age of created_at
           wait   : -1 .. Old,              \* age of scheduled_at
           passed : SUBSET Beats]           \* last_claim_at of the beat is later

NoRun == [status |-> "none", job |-> None, age |-> 0, wait |-> 0, passed |-> {}]

BeatState == [pc     : {"idle", "select", "fail", "orphans", "list", "jobs",
                        "create"},
              spared : SUBSET RunIds,       \* rows progress_cutoff leaves alone
              stale  : SUBSET RunIds,       \* the rows the sweep selected
              of     : SUBSET Jobs,         \* and the jobs they belong to
              todo   : SUBSET Jobs,         \* rest of list_scheduled()
              seen   : [Jobs -> NextRun],   \* next_run_at in that list
              job    : Jobs \cup {None}]    \* job to create a run for

SlotState == [pc  : {"idle", "work", "reset", "increment", "retry", "rearm",
                     "rearmNow"},
              run : RunIds \cup {0},
              job : Jobs \cup {None}]

TypeOK ==
  /\ job \in [Jobs -> JobRow]
  /\ run \in [RunIds -> RunRow]
  /\ beat \in [Beats -> BeatState]
  /\ slot \in [Slots -> SlotState]
  /\ lastClaim \in [Beats -> BOOLEAN]
  /\ crashes \in 0 .. MaxCrashes

IdleBeat == [pc |-> "idle", spared |-> {}, stale |-> {}, of |-> {}, todo |-> {},
             seen |-> [j \in Jobs |-> None], job |-> None]
IdleSlot == [pc |-> "idle", run |-> 0, job |-> None]

Init ==
  /\ job = [j \in Jobs |-> [status |-> "absent", source |-> "scheduled",
                            next |-> None, idle |-> 0, attempts |-> 0]]
  /\ run = [r \in RunIds |-> NoRun]
  /\ beat = [b \in Beats |-> IdleBeat]
  /\ slot = [s \in Slots |-> IdleSlot]
  /\ lastClaim = [b \in Beats |-> FALSE]
  /\ crashes = 0

-----------------------------------------------------------------------------
(* Rows.                                                                    *)

\* run_in_flight: EXISTS a ready or running run of the job.
InFlight(j) ==
  \E r \in RunIds : run[r].job = j /\ run[r].status \in {"ready", "running"}

Due(next) == next # None /\ next >= 0

\* SET next_run_at, updated_at = now.
Arm(j, next) == job' = [job EXCEPT ![j].next = next, ![j].idle = 0]

\* INSERT INTO runs, to start after a delay.
InsertRun(j, delay) ==
  \E r \in RunIds :
    /\ run[r] = NoRun
    /\ \A q \in 1 .. (r - 1) : run[q] # NoRun
    /\ run' = [run EXCEPT ![r] = [NoRun EXCEPT !.status = "ready", !.job = j,
                                               !.wait = -delay]]

-----------------------------------------------------------------------------
(* The client.                                                              *)

\* schedule(): next_run_at is the first answer of next_runtime.
Schedule(j) ==
  /\ job[j].status = "absent"
  /\ \E next \in NextRuntimes :
       job' = [job EXCEPT ![j] = [status |-> "active", source |-> "scheduled",
                                  next |-> next, idle |-> 0, attempts |-> 0]]
  /\ UNCHANGED <<run, beat, slot, lastClaim, crashes>>

\* enqueue(): the job and its one run, which may have to wait.
Enqueue(j) ==
  /\ job[j].status = "absent"
  /\ job' = [job EXCEPT ![j] = [status |-> "active", source |-> "on_demand",
                                next |-> None, idle |-> 0, attempts |-> 0]]
  /\ \E delay \in {0, 1} : InsertRun(j, delay)
  /\ UNCHANGED <<beat, slot, lastClaim, crashes>>

CancelJob(j) ==
  /\ job[j].status # "absent"
  /\ job' = [job EXCEPT ![j].status = "cancelled", ![j].idle = 0]
  /\ run' = [r \in RunIds |->
               IF run[r].job = j /\ run[r].status \in {"ready", "running"}
               THEN [run[r] EXCEPT !.status = "cancelled"] ELSE run[r]]
  /\ UNCHANGED <<beat, slot, lastClaim, crashes>>

-----------------------------------------------------------------------------
(* reconcile_abandoned, the first half of a tick.                           *)

\* Mutant: nothing is stale before the first claim.
QueuedUntilClaim(b) ==
  {r \in RunIds : lastClaim[b] => b \notin run[r].passed}

\* What progress_cutoff keeps from the sweep: all but the runs created before
\* last_claim_at, where there is one.
Queued(b) == {r \in RunIds : lastClaim[b] /\ b \notin run[r].passed}

BeginSweep(b) ==
  /\ beat[b].pc = "idle"
  /\ beat' = [beat EXCEPT ![b].pc = "select", ![b].spared = Queued(b)]
  /\ UNCHANGED <<job, run, slot, lastClaim, crashes>>

\* The stale_query: ready, older than the grace period, and not waiting for a
\* scheduled_at.
Stale(b, r) ==
  /\ run[r].status = "ready"
  /\ run[r].age > Grace
  /\ run[r].wait >= Grace
  /\ r \notin beat[b].spared

\* The first Batch of them, in the order of ids that the model does not keep.
SelectStale(b) ==
  /\ beat[b].pc = "select"
  /\ \E stale \in SUBSET {r \in RunIds : Stale(b, r)} :
       /\ Cardinality(stale) <= Batch
       /\ Cardinality(stale) < Batch => \A r \in RunIds : Stale(b, r) => r \in stale
       /\ beat' = [beat EXCEPT ![b].pc = IF stale = {} THEN "orphans" ELSE "fail",
                               ![b].stale = stale,
                               ![b].of = {run[r].job : r \in stale}]
  /\ UNCHANGED <<job, run, slot, lastClaim, crashes>>

\* The jobs of the selected runs that are disarmed.
Revived(b) ==
  {j \in beat[b].of : /\ job[j].source = "scheduled"
                      /\ job[j].status = "active" /\ job[j].next = None}

\* The UPDATE of these runs and that of the jobs; a full batch that changed
\* anything is followed by another.
SweepUpdates(b, rows) ==
  /\ run' = [r \in RunIds |-> IF r \in rows THEN NoRun ELSE run[r]]
  /\ job' = [j \in Jobs |-> IF j \in Revived(b)
                            THEN [job[j] EXCEPT !.next = 0, !.idle = 0]
                            ELSE job[j]]
  /\ beat' = [beat EXCEPT
       ![b].pc = IF Cardinality(beat[b].stale) < Batch \/ (rows = {} /\ Revived(b) = {})
                 THEN "orphans" ELSE "select",
       ![b].stale = {}, ![b].of = {}]

\* Mutant: the UPDATE of the runs does not repeat status = 'ready'.
FailSelected(b) ==
  /\ beat[b].pc = "fail"
  /\ SweepUpdates(b, beat[b].stale)
  /\ UNCHANGED <<slot, lastClaim, crashes>>

\* The two UPDATEs: the runs that are still ready fail, and the jobs of all
\* selected runs are re-armed where they are active and disarmed.
FailStale(b) ==
  /\ beat[b].pc = "fail"
  /\ SweepUpdates(b, {r \in beat[b].stale : run[r].status = "ready"})
  /\ UNCHANGED <<slot, lastClaim, crashes>>

\* Mutant: no grace period for a job that is about to be re-armed.
Disarmed(j) ==
  /\ job[j].source = "scheduled" /\ job[j].status = "active"
  /\ job[j].next = None
  /\ ~InFlight(j)

Orphaned(j) ==
  /\ job[j].source = "scheduled" /\ job[j].status = "active"
  /\ job[j].next = None
  /\ job[j].idle > Grace
  /\ ~InFlight(j)

\* Mutant: the sweep looks at runs only.
RearmNobody(b) ==
  /\ beat[b].pc = "orphans"
  /\ beat' = [beat EXCEPT ![b].pc = "list", ![b].spared = {}]
  /\ UNCHANGED <<job, run, slot, lastClaim, crashes>>

RearmOrphans(b) ==
  /\ beat[b].pc = "orphans"
  /\ job' = [j \in Jobs |-> IF Orphaned(j)
                            THEN [job[j] EXCEPT !.next = 0, !.idle = 0]
                            ELSE job[j]]
  /\ beat' = [beat EXCEPT ![b].pc = "list", ![b].spared = {}]
  /\ UNCHANGED <<run, slot, lastClaim, crashes>>

-----------------------------------------------------------------------------
(* The rest of tick: list_scheduled, then each job in turn.                 *)

\* The loop goes on to the next job, or the tick ends.
Proceed(b, todo) ==
  beat' = [beat EXCEPT ![b] =
             IF todo = {} THEN IdleBeat
             ELSE [@ EXCEPT !.pc = "jobs", !.todo = todo, !.job = None]]

ListScheduled(b) ==
  LET active == {j \in Jobs : job[j].source = "scheduled"
                                /\ job[j].status = "active"}
  IN
  /\ beat[b].pc = "list"
  /\ beat' = [beat EXCEPT ![b] =
       IF active = {} THEN IdleBeat
       ELSE [@ EXCEPT !.pc = "jobs", !.todo = active,
                      !.seen = [j \in Jobs |-> IF j \in active THEN job[j].next
                                               ELSE None]]]
  /\ UNCHANGED <<job, run, slot, lastClaim, crashes>>

\* Mutant: claim_scheduled without next_run_at.
ClaimableUndue(j) == job[j].status = "active" /\ ~InFlight(j)

\* The WHERE of claim_scheduled.
Claimable(j) ==
  /\ job[j].status = "active"
  /\ Due(job[j].next)
  /\ ~InFlight(j)

Misfired(seen) ==
  MisfireGrace # None /\ seen # None /\ seen > MisfireGrace

\* One turn of the loop up to claim_scheduled and the misfire check.
ExamineJob(b, j) ==
  LET seen == beat[b].seen[j] IN
  /\ beat[b].pc = "jobs"
  /\ j \in beat[b].todo
  /\ IF (seen = None \/ Due(seen)) /\ Claimable(j)
     THEN /\ Arm(j, None)
          /\ IF Misfired(seen) THEN Proceed(b, beat[b].todo \ {j})
             ELSE beat' = [beat EXCEPT ![b].pc = "create", ![b].job = j,
                                       ![b].todo = @ \ {j}]
     ELSE UNCHANGED job /\ Proceed(b, beat[b].todo \ {j})
  /\ UNCHANGED <<run, slot, lastClaim, crashes>>

FireJob(b) ==
  /\ beat[b].pc = "create"
  /\ InsertRun(beat[b].job, 0)
  /\ Proceed(b, beat[b].todo)
  /\ UNCHANGED <<job, slot, lastClaim, crashes>>

-----------------------------------------------------------------------------
(* The worker.                                                              *)

Held(r) == \E s \in Slots : slot[s].run = r

\* claim(): a ready run that is due, or one whose worker is gone.
ClaimRun(s, r) ==
  LET known == {b \in Beats : <<s, b>> \in Colocated} IN
  /\ slot[s].pc = "idle"
  /\ \/ run[r].status = "ready" /\ run[r].wait >= 0
     \/ run[r].status = "running" /\ ~Held(r)
  /\ job[run[r].job].status = "active"
  /\ run' = [q \in RunIds |->
               LET row == IF run[q] = NoRun THEN NoRun
                          ELSE [run[q] EXCEPT !.passed = @ \cup known]
               IN  IF q = r THEN [row EXCEPT !.status = "running"] ELSE row]
  /\ lastClaim' = [b \in Beats |-> lastClaim[b] \/ b \in known]
  /\ slot' = [slot EXCEPT ![s] = [pc |-> "work", run |-> r,
                                  job |-> run[r].job]]
  /\ UNCHANGED <<job, beat, crashes>>

\* UPDATE runs SET status = a terminal one WHERE status = 'running'.
EndRun(s) ==
  run' = [run EXCEPT ![slot[s].run] = IF @.status = "running" THEN NoRun ELSE @]

Working(s) == slot[s].pc = "work"

\* The run is over; the slot goes on with its job.
Continue(s, label) ==
  slot' = [slot EXCEPT ![s] = [pc |-> label, run |-> 0, job |-> @.job]]

Succeeds(s) ==
  /\ Working(s)
  /\ EndRun(s)
  /\ Continue(s, "reset")
  /\ UNCHANGED <<job, beat, lastClaim, crashes>>

\* Mutant: a success takes one failure back.
ForgiveOneAttempt(s) ==
  /\ slot[s].pc = "reset"
  /\ job' = [job EXCEPT ![slot[s].job].attempts = @ - 1, ![slot[s].job].idle = 0]
  /\ Continue(s, "rearm")
  /\ UNCHANGED <<run, beat, lastClaim, crashes>>

ResetAttempts(s) ==
  /\ slot[s].pc = "reset"
  /\ job' = [job EXCEPT ![slot[s].job].attempts = 0, ![slot[s].job].idle = 0]
  /\ Continue(s, "rearm")
  /\ UNCHANGED <<run, beat, lastClaim, crashes>>

Fails(s) ==
  /\ Working(s)
  /\ EndRun(s)
  /\ Continue(s, IF Retries = 0 THEN "rearm" ELSE "increment")
  /\ UNCHANGED <<job, beat, lastClaim, crashes>>

IncrementAttempts(s) ==
  LET j == slot[s].job IN
  /\ slot[s].pc = "increment"
  /\ job' = [job EXCEPT ![j].attempts = IF @ <= Retries THEN @ + 1 ELSE @,
                        ![j].idle = 0]
  /\ Continue(s, IF job[j].attempts < Retries THEN "retry" ELSE "rearm")
  /\ UNCHANGED <<run, beat, lastClaim, crashes>>

RetryRun(s) ==
  /\ slot[s].pc = "retry"
  /\ InsertRun(slot[s].job, 1)
  /\ Continue(s, "rearm")
  /\ UNCHANGED <<job, beat, lastClaim, crashes>>

\* _reschedule asks next_runtime; on-demand jobs run once.
Reschedule(s) ==
  /\ slot[s].pc = "rearm"
  /\ IF job[slot[s].job].source = "scheduled"
     THEN \E next \in NextRuntimes : Arm(slot[s].job, next)
     ELSE UNCHANGED job
  /\ slot' = [slot EXCEPT ![s] = IdleSlot]
  /\ UNCHANGED <<run, beat, lastClaim, crashes>>

\* Its get_run finds nothing: the run has been pruned since it ended.
Pruned(s) ==
  /\ slot[s].pc = "rearm"
  /\ slot' = [slot EXCEPT ![s] = IdleSlot]
  /\ UNCHANGED <<job, run, beat, lastClaim, crashes>>

\* A task has attempts left: fail_run with a retry_at.
RetryTask(s) ==
  /\ Working(s)
  /\ run' = [run EXCEPT ![slot[s].run] =
               IF @.status = "running"
               THEN [@ EXCEPT !.status = "ready", !.wait = -1] ELSE @]
  /\ slot' = [slot EXCEPT ![s] = IdleSlot]
  /\ UNCHANGED <<job, beat, lastClaim, crashes>>

\* The except of _execute, at any call up to and in _reschedule, and
\* _reschedule_on_error.
Aborts(s) ==
  /\ slot[s].pc \notin {"idle", "rearmNow"}
  /\ IF Working(s) THEN EndRun(s) ELSE UNCHANGED run
  /\ Continue(s, "rearmNow")
  /\ UNCHANGED <<job, beat, lastClaim, crashes>>

RescheduleOnError(s) ==
  /\ slot[s].pc = "rearmNow"
  /\ IF job[slot[s].job].source = "scheduled"
     THEN Arm(slot[s].job, 0)
     ELSE UNCHANGED job
  /\ slot' = [slot EXCEPT ![s] = IdleSlot]
  /\ UNCHANGED <<run, beat, lastClaim, crashes>>

\* No class: the run fails and the job stays disarmed.
Unresolved(s) ==
  /\ Working(s)
  /\ EndRun(s)
  /\ slot' = [slot EXCEPT ![s] = IdleSlot]
  /\ UNCHANGED <<job, beat, lastClaim, crashes>>

\* The task sees ctx.cancelled, or the job was cancelled before it began.
StopsCancelled(s) ==
  /\ Working(s)
  /\ job[slot[s].job].status = "cancelled"
  /\ slot' = [slot EXCEPT ![s] = IdleSlot]
  /\ UNCHANGED <<job, run, beat, lastClaim, crashes>>

-----------------------------------------------------------------------------
(* Crashes and time.                                                        *)

\* A beat dies or its tick raises: either way the tick is not finished.  A
\* process that dies also forgets last_claim_at.
TickRaises(b) ==
  /\ beat[b].pc # "idle"
  /\ crashes < MaxCrashes
  /\ crashes' = crashes + 1
  /\ beat' = [beat EXCEPT ![b] = IdleBeat]
  /\ UNCHANGED <<job, run, slot, lastClaim>>

BeatCrashes(b) ==
  /\ crashes < MaxCrashes
  /\ crashes' = crashes + 1
  /\ beat' = [beat EXCEPT ![b] = IdleBeat]
  /\ lastClaim' = [lastClaim EXCEPT ![b] = FALSE]
  /\ run' = [r \in RunIds |-> [run[r] EXCEPT !.passed = @ \ {b}]]
  /\ UNCHANGED <<job, slot>>

WorkerCrashes(s) ==
  /\ slot[s].pc # "idle"
  /\ crashes < MaxCrashes
  /\ crashes' = crashes + 1
  /\ slot' = [slot EXCEPT ![s] = IdleSlot]
  /\ UNCHANGED <<job, run, beat, lastClaim>>

Older(age, limit) == IF age < limit THEN age + 1 ELSE age

LaterNext(next) == IF next = None THEN None ELSE Older(next, Late)

\* A beat is between claim_scheduled and create_run.
BeingFired(j) == \E b \in Beats : beat[b].pc = "create" /\ beat[b].job = j

\* A run of the job has not ended, or what follows its end is not done.
BeingRun(j) ==
  InFlight(j) \/ \E s \in Slots : slot[s].pc # "idle" /\ slot[s].job = j

\* reconcile_abandoned compares with the time at which it began, so time
\* stands still while a beat is inside it.
Clock ==
  /\ \A b \in Beats : beat[b].pc \notin {"select", "fail", "orphans"}
  /\ \A j \in Jobs : \/ "beats" \in Prompt /\ BeingFired(j)
                     \/ "runs" \in Prompt /\ BeingRun(j)
                     => job[j].idle < Grace
  /\ job' = [j \in Jobs |-> IF job[j].status = "absent" THEN job[j] ELSE
               [job[j] EXCEPT !.next = LaterNext(@), !.idle = Older(@, Old)]]
  /\ run' = [r \in RunIds |-> IF run[r].status \in {"none", "cancelled"} THEN run[r] ELSE
               [run[r] EXCEPT !.age = Older(@, Old), !.wait = Older(@, Old)]]
  /\ beat' = [b \in Beats |->
               [beat[b] EXCEPT !.seen = [j \in Jobs |-> LaterNext(@[j])]]]
  /\ UNCHANGED <<slot, lastClaim, crashes>>

-----------------------------------------------------------------------------

BeatStep(b) ==
  \/ BeginSweep(b) \/ SelectStale(b) \/ FailStale(b) \/ RearmOrphans(b) \/ ListScheduled(b)
  \/ \E j \in Jobs : ExamineJob(b, j)
  \/ FireJob(b)

\* The end of a run, whichever it is, and what follows it.
SlotStep(s) ==
  \/ Succeeds(s) \/ Fails(s) \/ RetryTask(s) \/ Aborts(s) \/ Unresolved(s)
  \/ StopsCancelled(s)
  \/ ResetAttempts(s) \/ IncrementAttempts(s) \/ RetryRun(s) \/ Reschedule(s)
  \/ Pruned(s)
  \/ RescheduleOnError(s)

ClaimStep(s) == \E r \in RunIds : ClaimRun(s, r)

Next ==
  \/ \E j \in Jobs : Schedule(j) \/ Enqueue(j) \/ CancelJob(j)
  \/ \E b \in Beats : BeatStep(b) \/ TickRaises(b) \/ BeatCrashes(b)
  \/ \E s \in Slots : ClaimStep(s) \/ SlotStep(s) \/ WorkerCrashes(s)
  \/ Clock

Spec == Init /\ [][Next]_vars
-----------------------------------------------------------------------------
(* What maintained jobs are promised: one fire at a time, a schedule that   *)
(* is not lost, and an abandoned-run sweep that fails only abandoned runs.  *)

OnRow(j) == {r \in RunIds : run[r].job = j
                              /\ run[r].status \in {"ready", "running"}}

\* A job has at most one run in flight: claim_scheduled's condition holds on
\* until create_run, against other beats, reclaims and the two sweeps.
SerialRuns ==
  \A j \in Jobs : \A r, q \in OnRow(j) : r = q

\* The sweep of a beat fails run r.
SweepFails(b, r) ==
  /\ beat[b].pc = "fail" /\ beat'[b].pc \in {"select", "orphans"}
  /\ run[r] # NoRun /\ run'[r] = NoRun

\* A run a worker has claimed since the sweep selected it is left alone.
SweepSparesClaimed ==
  [][\A b \in Beats, r \in RunIds :
       SweepFails(b, r) => run[r].status = "ready" /\ ~Held(r)]_vars

\* "Re-arm maintained jobs left disarmed with nothing left to re-arm them":
\* no worker is about to re-arm the job, no beat is about to fire it.
RearmsOnlyOrphans ==
  [][\A b \in Beats, j \in Jobs :
       /\ beat[b].pc = "orphans" /\ beat'[b].pc = "list"
       /\ job[j].next = None /\ job'[j].next # None
       => ~BeingFired(j) /\ ~BeingRun(j)]_vars

\* A schedule is not lost: whatever beat or worker dies, and whatever
\* next_runtime answers, an active maintained job gets another run in flight.
KeepsFiring ==
  \A j \in Jobs :
    job[j].source = "scheduled" /\ job[j].status = "active"
      ~> InFlight(j) \/ job[j].status = "cancelled"

\* A ready run that no worker claims does not stay ready for ever.
AbandonedIsFailed ==
  \A r \in RunIds, j \in Jobs :
    run[r].status = "ready" /\ run[r].job = j
      ~> run[r].status # "ready" \/ job[j].status = "cancelled"

-----------------------------------------------------------------------------
(* Claims of the documentation and the comments that the code breaks.       *)

\* "a run created before the last claim is queued behind real work, not lost":
\* the sweep leaves it alone.
SweepSparesQueued ==
  [][\A b \in Beats, r \in RunIds :
       SweepFails(b, r) => ~(lastClaim[b] /\ b \in run[r].passed)]_vars

\* The loop of beat b takes its turn for job j.
Examines(b, j) ==
  /\ beat[b].pc = "jobs"
  /\ j \in beat[b].todo /\ j \notin beat'[b].todo
  /\ crashes' = crashes

\* "a run overdue by more than misfire_grace_seconds is skipped": one that is
\* not so much overdue is not.
OnlyMisfiresSkipped ==
  [][\A b \in Beats, j \in Jobs :
       /\ Examines(b, j) /\ beat'[b].job # j
       /\ job[j].next # None /\ job'[j].next = None
       => Misfired(job[j].next)]_vars

\* cancel "(for maintained jobs) stops future fires".
CancelStopsFires ==
  \A j \in Jobs : job[j].status = "cancelled" => ~InFlight(j)

-----------------------------------------------------------------------------
(* Fairness.                                                                *)

\* Beats keep ticking, and time passes whenever it can again and again.
BeatFairness ==
  /\ \A b \in Beats : WF_vars(BeatStep(b))
  /\ SF_vars(Clock)

\* No fairness for workers: they may all be gone.
BeatsOnlySpec == Spec /\ BeatFairness
=============================================================================
