----------------------------- MODULE OutcomeProofs -----------------------------
(***************************************************************************)
(* Proofs about the outcomes of runs, for any number of jobs, runs and     *)
(* retries: an outcome is final, a job has one run at a time and no more   *)
(* than its retries allow, the executor implements RunLifecycle, and a run *)
(* that failed is undone; crashes are unbounded, and failed calls but for  *)
(* the last of these; leases hold.                                         *)
(***************************************************************************)
EXTENDS ProgressProofs, FiniteSetTheorems

\* Nothing is ever deleted in module Worker.
NeverDeleted ==
  /\ \A r \in RunIds : runs[r].status # "deleted"
  /\ \A j \in Jobs : jobs[j].status # "deleted"

\* How a run ended says where its execution can still be, and the other way
\* round: who is past the last write to the run, or knows of a cancellation,
\* works on a run that is over.
SlotOutcome(s) ==
  LET status == runs[RunOf(s)].status
  IN  /\ status = "succeeded" => slot[s].pc \in {"resetAttempts", "abort"}
      /\ status = "failed" => slot[s].pc \in {"increment", "retryRun", "abort"}
      /\ slot[s].pc \in {"resetAttempts", "increment", "retryRun"}
           => status \in Over
      /\ slot[s].flagged \/ slot[s].pc \in {"cancelLoaded", "cancelTask", "cancelRun"}
           => status \in Over

\* Elsewhere the heartbeat has a ctx in its list, or has flagged it, only if
\* its coroutine is about to leave the run.
Outcome(s) ==
  IF Executing(s) THEN SlotOutcome(s)
  ELSE slot[s].flagged \/ slot[s].listed => At(s, "leave")

OutcomeInv == \A s \in Slots : Outcome(s)

\* A run that is in flight, or that a coroutine still works on.
Held(r) == \E s \in Slots : Executing(s) /\ RunOf(s) = r
Busy(r) == InFlight(r) \/ Held(r)

SerialInv ==
  /\ \A r, q \in RunIds : Busy(r) /\ Busy(q) /\ runs[r].job = runs[q].job => r = q
  /\ \A j \in Jobs : jobs[j].status = "absent" => RunsOf(j) = {}

\* The runs of a job against the failures it has counted.
CountInv ==
  /\ \A r \in RunIds :
       InFlight(r)
         => Cardinality(RunsOf(runs[r].job)) <= 1 + jobs[runs[r].job].attempts
  /\ \A s \in Slots :
       Executing(s) /\ slot[s].pc \notin {"resetAttempts", "abort"}
         => Cardinality(RunsOf(JobOf(s))) <= 1 + jobs[JobOf(s)].attempts
  /\ \A s \in Slots :
       At(s, "retryRun")
         => /\ Cardinality(RunsOf(JobOf(s))) <= jobs[JobOf(s)].attempts
            /\ jobs[JobOf(s)].attempts <= Retries
  /\ RunsBounded

\* What FailedAfterUndo takes beyond LeasesHold: no database call fails and
\* every class can be imported, so a run only fails after compensation.
NothingAborts == MaxFaults["dbError"] = 0 /\ Resolvable = Workers \X Jobs

UndoneInv ==
  /\ \A s \in Slots : slot[s].pc \notin {"failLoaded", "abort"}
  /\ \A s \in Slots : At(s, "failRun") => Succeeded(RunOf(s)) = {}
  /\ FailedAfterUndo

-----------------------------------------------------------------------------
(* What a step does to slots, runs and jobs.                                *)

\* An execution that takes a step: the others stay, it ends or goes on with
\* its run, and where it goes says where it came from.
LEMMA ExecutionMoves ==
  ASSUME Typed, NEW s \in Slots, Executing(s),
         CallStep(s) \/ TaskStep(s) \/ CallFails(s)
  PROVE  /\ \A t \in Slots \ {s} :
              \/ slot'[t] = slot[t]
              \/ /\ slot[t].pc = "selected" /\ slot'[t].pc = "outdated"
                 /\ slot'[t].flagged = slot[t].flagged
                 /\ slot'[t].listed = slot[t].listed
         /\ \/ slot'[s] = Idle
            \/ /\ ReleaseForRetry(s)
               /\ slot'[s] = [slot[s] EXCEPT !.pc = "leave"]
            \/ /\ slot'[s].run = slot[s].run
               /\ slot'[s].flagged = slot[s].flagged
               /\ slot'[s].pc \notin {"idle", "selected", "outdated", "leave"}
               /\ slot'[s].pc = "cancelLoaded" => LoadJob(s)
               /\ slot'[s].pc = "cancelTask" => slot[s].flagged
               /\ slot'[s].pc = "cancelRun" => slot[s].pc = "cancelTask"
               /\ slot'[s].pc = "resetAttempts" => Complete(s)
               /\ slot'[s].pc = "increment" => FinalizeFailed(s)
               /\ slot'[s].pc = "retryRun" => CountFailure(s)
               /\ slot'[s].pc = "failLoaded" => LoadJob(s)
               /\ slot'[s].pc = "failRun" => Gather(s) \/ UndoTask(s)
               /\ slot'[s].pc = "abort" => CallFails(s)
               /\ slot'[s].pc # "abort"
                    => slot[s].pc \notin {"resetAttempts", "retryRun", "abort"}
<1>a. slot \in [Slots -> SlotState] /\ slot[s] \in SlotState
  BY DEF Typed, TypeOK
<1>. DEFINE Others == \A t \in Slots \ {s} : slot'[t] = slot[t]
            Goes(label) ==
              /\ Others /\ slot'[s].pc = label
              /\ slot'[s].run = slot[s].run /\ slot'[s].flagged = slot[s].flagged
<1>g. ASSUME NEW label, Goto(s, label)
      PROVE  Goes(label)
  BY <1>a, <1>g DEF Goto, SlotState
<1>e. ASSUME Release(s)
      PROVE  Others /\ slot'[s] = Idle
  BY <1>a, <1>e DEF Release
<1>1. CASE \/ LoadJob(s) \/ PersistExhausted(s) \/ StartTask(s) \/ TaskRaises(s)
           \/ TaskAborts(s) \/ SucceedTask(s) \/ CancelTask(s)
           \/ PersistRetry(s) \/ RetryTask(s) \/ PersistFailure(s)
           \/ FailTask(s) \/ Complete(s)
  <2>1. CASE LoadJob(s)
    <3>1. \E label \in {"cancelLoaded", "failLoaded", "records"} : Goto(s, label)
      BY <2>1 DEF LoadJob
    <3>2. slot[s].pc = "load"
      BY <2>1 DEF LoadJob, At
    <3>. QED BY <1>g, <2>1, <3>1, <3>2
  <2>2. CASE TaskRaises(s) \/ TaskAborts(s)
    <3>1. /\ slot[s].pc = "body"
          /\ \/ \E label \in {"failCtx", "retryCtx"} : Goto(s, label)
             \/ Goto(s, "cancelTask") /\ slot[s].flagged
      BY <2>2 DEF TaskRaises, TaskAborts, At
    <3>. QED BY <1>g, <3>1
  <2>3. CASE CancelTask(s) \/ Complete(s)
    <3>1. \/ Goto(s, "cancelRun") /\ slot[s].pc = "cancelTask"
          \/ Goto(s, "resetAttempts") /\ slot[s].pc = "complete" /\ Complete(s)
      BY <2>3 DEF CancelTask, Complete, At
    <3>. QED BY <1>g, <3>1
  <2>4. CASE \/ PersistExhausted(s) \/ StartTask(s) \/ SucceedTask(s)
             \/ PersistRetry(s) \/ RetryTask(s) \/ PersistFailure(s)
             \/ FailTask(s)
    <3>1. /\ slot[s].pc \in {"exhausted", "start", "succeed", "retryCtx",
                             "retryTask", "failCtx", "failTask"}
          /\ \E label \in {"gather", "body", "checkpoint", "retryTask", "release",
                            "failTask"} : Goto(s, label)
      BY <2>4
      DEF PersistExhausted, StartTask, SucceedTask, PersistRetry, RetryTask,
          PersistFailure, FailTask, At
    <3>. QED BY <1>g, <3>1
  <2>. QED BY <1>1, <2>1, <2>2, <2>3, <2>4
<1>2. CASE \/ CancelLoaded(s) \/ FailLoaded(s) \/ CancelTaskRun(s)
           \/ RetryWholeRun(s) \/ ResetAttempts(s) \/ FailUnhandled(s)
  BY <1>e, <1>2
  DEF CancelLoaded, FailLoaded, CancelTaskRun, RetryWholeRun, ResetAttempts,
      FailUnhandled
<1>3. CASE ReleaseForRetry(s)
  <2>1. slot' = Outdate([slot EXCEPT ![s].pc = "leave"], RunOf(s))
    BY <1>3 DEF ReleaseForRetry
  <2>2. slot'[s] = [slot[s] EXCEPT !.pc = "leave"]
    BY <1>a, <1>3, ReleaseLeaves
  <2>3. \A t \in Slots \ {s} :
          \/ slot'[t] = slot[t]
          \/ /\ slot[t].pc = "selected"
             /\ slot'[t] = [slot[t] EXCEPT !.pc = "outdated"]
    BY <1>a, <2>1 DEF Outdate
  <2>4. \A t \in Slots \ {s} :
          \/ slot'[t] = slot[t]
          \/ /\ slot[t].pc = "selected" /\ slot'[t].pc = "outdated"
             /\ slot'[t].flagged = slot[t].flagged
             /\ slot'[t].listed = slot[t].listed
    <3>. TAKE t \in Slots \ {s}
    <3>1. slot[t] \in SlotState
      BY <1>a
    <3>. QED BY <2>3, <3>1 DEF SlotState
  <2>. QED BY <1>3, <2>2, <2>4
<1>4. CASE TaskReturns(s) \/ Checkpoint(s) \/ Gather(s) \/ UndoTask(s)
  <2>1. /\ slot[s].pc \in {"body", "checkpoint", "gather", "undo"}
        /\ slot'[s].pc \in {"succeed", "start", "complete", "failRun", "undo"}
        /\ slot'[s].pc = "failRun" => Gather(s) \/ UndoTask(s)
        /\ slot'[s].run = slot[s].run /\ slot'[s].flagged = slot[s].flagged
        /\ Others
    BY <1>a, <1>4, BoundsAreNumbers
    DEF TaskReturns, Checkpoint, AfterTask, Gather, UndoTask, At, SlotState
  <2>. QED BY <2>1
<1>5. CASE ReadRecords(s)
  <2>1. PICK p \in 0 .. NTasks, label \in {"complete", "exhausted", "start"} :
          slot' = [slot EXCEPT
            ![s].pc = label, ![s].pos = p,
            ![s].tried = [q \in Positions |-> tasks[RunOf(s)][q].attempts]]
    BY <1>5 DEF ReadRecords
  <2>2. Goes(label) /\ slot[s].pc = "records"
    BY <1>a, <1>5, <2>1 DEF ReadRecords, SlotState, At
  <2>. QED BY <2>2
<1>6. CASE FinalizeFailed(s) \/ CountFailure(s)
  <2>1. \/ Release(s)
        \/ Goto(s, "increment") /\ slot[s].pc = "failRun" /\ FinalizeFailed(s)
        \/ Goto(s, "retryRun") /\ slot[s].pc = "increment" /\ CountFailure(s)
    BY <1>6 DEF FinalizeFailed, CountFailure, At
  <2>. QED BY <1>e, <1>g, <2>1
<1>7. CASE CallFails(s)
  BY <1>e, <1>g, <1>7 DEF CallFails
<1>. QED BY <1>1, <1>2, <1>3, <1>4, <1>5, <1>6, <1>7
         DEF CallStep, TaskStep, SelectRun, ClaimSelected, MissSelected,
             LeaveRun, Executing, Claiming, At

\* What the one that goes on keeps.
LEMMA ExecutionGoesOn ==
  ASSUME Typed, NEW s \in Slots, Executing(s), Executing(s)',
         CallStep(s) \/ TaskStep(s) \/ CallFails(s)
  PROVE  /\ slot'[s].run = slot[s].run
         /\ slot'[s].flagged = slot[s].flagged
         /\ slot'[s].pc # "abort"
              => slot[s].pc \notin {"resetAttempts", "retryRun", "abort"}
         /\ slot'[s].pc = "retryRun" => CountFailure(s)
<1>1. slot[s] \in SlotState
  BY DEF Typed, TypeOK
<1>2. slot'[s] # Idle /\ slot'[s] # [slot[s] EXCEPT !.pc = "leave"]
  BY <1>1 DEF Executing, Claiming, At, Idle, SlotState
<1>. QED BY <1>2, ExecutionMoves

\* An execution writes to its own run only, apart from the run that a
\* whole-run retry inserts, and which of its steps can change a status.
LEMMA ExecutionWrites ==
  ASSUME Typed, RunsKnown, NoneReused, NEW s \in Slots, Executing(s),
         CallStep(s) \/ TaskStep(s) \/ CallFails(s),
         NEW r \in RunIds, r = RunOf(s)
  PROVE  /\ ~RetryWholeRun(s) => \A q \in RunIds \ {r} : runs'[q] = runs[q]
         /\ \A q \in RunIds : runs[q].status # "absent" /\ q # r
                               => runs'[q] = runs[q]
         /\ runs'[r].job = runs[r].job
         /\ \/ runs'[r].status = runs[r].status
            \/ /\ IsRunning(r) /\ runs'[r].status = "failed"
               /\ FailLoaded(s) \/ FinalizeFailed(s) \/ FailUnhandled(s)
            \/ /\ runs'[r].status = "cancelled"
               /\ CancelLoaded(s) \/ CancelTaskRun(s)
            \/ /\ IsRunning(r) /\ runs'[r].status = "ready"
               /\ ReleaseForRetry(s)
            \/ /\ IsRunning(r) /\ runs'[r].status = "succeeded"
               /\ Complete(s)
<1>a. runs \in [RunIds -> RunRow] /\ runs[r] \in RunRow
  BY DEF Safe, Typed, TypeOK, BackendTypeOK
<1>b. runs[r].status # "absent"
  BY DEF RunsKnown, Executing
<1>u. ASSUME NEW cond, NEW row, UpdateRun(r, cond, row)
      PROVE  /\ \A q \in RunIds \ {r} : runs'[q] = runs[q]
             /\ runs'[r] = IF cond THEN row ELSE runs[r]
  BY <1>a, <1>u DEF UpdateRun
<1>1. CASE UNCHANGED runs
  BY <1>1
<1>2. CASE \/ PersistExhausted(s) \/ Checkpoint(s) \/ PersistRetry(s)
           \/ PersistFailure(s)
  <2>1. SetRunCtx(r, slot[s].ctx)
    BY <1>2 DEF PersistExhausted, Checkpoint, PersistRetry, PersistFailure
  <2>2. /\ \A q \in RunIds \ {r} : runs'[q] = runs[q]
        /\ \/ runs'[r] = runs[r]
           \/ runs'[r] = [runs[r] EXCEPT !.ctx = slot[s].ctx]
    BY <1>u, <2>1 DEF SetRunCtx
  <2>. QED BY <1>a, <2>2 DEF RunRow
<1>3. CASE FailLoaded(s) \/ FinalizeFailed(s) \/ FailUnhandled(s)
  <2>1. FailRun(r)
    BY <1>3 DEF FailLoaded, FinalizeFailed, FailUnhandled
  <2>2. /\ \A q \in RunIds \ {r} : runs'[q] = runs[q]
        /\ runs'[r] = IF IsRunning(r)
                      THEN [runs[r] EXCEPT !.status = "failed", !.lease = "none"]
                      ELSE runs[r]
    BY <1>u, <2>1 DEF FailRun
  <2>. QED BY <1>a, <1>3, <2>2 DEF RunRow
<1>4. CASE CancelLoaded(s) \/ CancelTaskRun(s)
  <2>1. CancelRun(r)
    BY <1>4 DEF CancelLoaded, CancelTaskRun
  <2>2. /\ \A q \in RunIds \ {r} : runs'[q] = runs[q]
        /\ \/ runs'[r] = runs[r]
           \/ runs'[r] = [runs[r] EXCEPT !.status = "cancelled", !.lease = "none"]
    BY <1>u, <2>1 DEF CancelRun
  <2>. QED BY <1>a, <1>4, <2>2 DEF RunRow
<1>5. CASE ReleaseForRetry(s)
  <2>1. ReleaseRun(r)
    BY <1>5 DEF ReleaseForRetry
  <2>2. /\ \A q \in RunIds \ {r} : runs'[q] = runs[q]
        /\ runs'[r] = IF IsRunning(r)
                      THEN [runs[r] EXCEPT !.status = "ready", !.lease = "none",
                                           !.owner = None]
                      ELSE runs[r]
    BY <1>u, <2>1 DEF ReleaseRun
  <2>. QED BY <1>a, <1>5, <2>2 DEF RunRow
<1>6. CASE Complete(s)
  <2>1. CompleteRun(r)
    BY <1>6 DEF Complete
  <2>2. /\ \A q \in RunIds \ {r} : runs'[q] = runs[q]
        /\ runs'[r] = IF IsRunning(r)
                      THEN [runs[r] EXCEPT !.status = "succeeded", !.lease = "none"]
                      ELSE runs[r]
    BY <1>u, <2>1 DEF CompleteRun
  <2>. QED BY <1>a, <1>6, <2>2 DEF RunRow
<1>7. CASE RetryWholeRun(s)
  <2>1. \A q \in RunIds : runs[q].status # "absent" => runs'[q] = runs[q]
    BY <1>a, <1>7, NewRowWasAbsent DEF RetryWholeRun
  <2>. QED BY <1>b, <1>7, <2>1
<1>. QED
  BY <1>1, <1>2, <1>3, <1>4, <1>5, <1>6, <1>7
  DEF CallStep, TaskStep, SelectRun, ClaimSelected, MissSelected, LoadJob,
      ReadRecords, StartTask, SucceedTask, CancelTask, RetryTask, LeaveRun,
      FailTask, Gather, UndoTask, CountFailure, ResetAttempts, TaskReturns,
      TaskRaises, TaskAborts, CallFails, tables, Executing, Claiming, At

\* A coroutine without a run: it gets one by the UPDATE of claim() alone.
LEMMA ClaimMoves ==
  ASSUME Typed, NEW s \in Slots, ~Executing(s),
         CallStep(s) \/ TaskStep(s) \/ CallFails(s)
  PROVE  /\ UNCHANGED <<jobs, tasks>>
         /\ \A t \in Slots \ {s} :
              \/ slot'[t] = slot[t]
              \/ /\ slot[t].pc = "selected" /\ slot'[t].pc = "outdated"
                 /\ slot'[t].flagged = slot[t].flagged
                 /\ slot'[t].listed = slot[t].listed
         /\ \/ /\ ~Executing(s)' /\ UNCHANGED runs
               /\ \/ slot'[s] = Idle
                  \/ /\ slot[s].pc = "idle"
                     /\ slot'[s].flagged = slot[s].flagged
                     /\ slot'[s].listed = slot[s].listed
            \/ /\ slot[s].pc = "selected" /\ slot[s].run \in RunIds
               /\ ClaimMatches(slot[s].run)
               /\ slot'[s].pc = "load" /\ slot'[s].run = slot[s].run
               /\ slot'[s].flagged = slot[s].flagged
               /\ slot'[s].ctx = runs[slot[s].run].ctx
               /\ \A q \in RunIds \ {slot[s].run} : runs'[q] = runs[q]
               /\ runs'[slot[s].run].status = "running"
               /\ runs'[slot[s].run].job = runs[slot[s].run].job
               /\ runs'[slot[s].run].ctx = runs[slot[s].run].ctx
<1>a. /\ slot \in [Slots -> SlotState] /\ slot[s] \in SlotState
      /\ runs \in [RunIds -> RunRow]
  BY DEF Typed, TypeOK, BackendTypeOK
<1>1. \/ SelectRun(s) \/ ClaimSelected(s) \/ MissSelected(s) \/ LeaveRun(s)
      \/ CallFails(s)
  BY DEF CallStep, TaskStep, LoadJob, CancelLoaded, FailLoaded, ReadRecords,
         PersistExhausted, StartTask, SucceedTask, Checkpoint, CancelTask,
         CancelTaskRun, PersistRetry, RetryTask, ReleaseForRetry,
         PersistFailure, FailTask, Gather, UndoTask, FinalizeFailed,
         CountFailure, RetryWholeRun, Complete, ResetAttempts, FailUnhandled,
         TaskReturns, TaskRaises, TaskAborts, Executing, Claiming, At
<1>2. CASE SelectRun(s)
  <2>1. /\ slot[s].pc = "idle" /\ slot'[s].pc = "selected"
        /\ slot'[s].flagged = slot[s].flagged
        /\ slot'[s].listed = slot[s].listed
        /\ \A t \in Slots \ {s} : slot'[t] = slot[t]
    BY <1>a, <1>2 DEF SelectRun, SlotState, At
  <2>. QED BY <1>2, <2>1 DEF SelectRun, Executing, Claiming, At, tables
<1>3. CASE MissSelected(s) \/ LeaveRun(s) \/ CallFails(s)
  <2>1. Release(s) /\ UNCHANGED tables
    BY <1>3 DEF MissSelected, LeaveRun, CallFails, Executing, Claiming, At
  <2>2. slot'[s] = Idle /\ \A t \in Slots \ {s} : slot'[t] = slot[t]
    BY <1>a, <2>1 DEF Release
  <2>. QED BY <2>1, <2>2 DEF Executing, At, Idle, tables
<1>4. CASE ClaimSelected(s)
  <2>. DEFINE r == slot[s].run
  <2>1. slot[s].pc = "selected" /\ r \in RunIds /\ r = RunOf(s)
    BY <1>4 DEF ClaimSelected, At, Typed, SlotInv, WorkingSlot, RunOf
  <2>2. CASE ~ClaimMatches(r)
    <3>1. Release(s) /\ UNCHANGED <<jobs, tasks>>
      BY <1>4, <2>1, <2>2 DEF ClaimSelected
    <3>2. slot'[s] = Idle /\ \A t \in Slots \ {s} : slot'[t] = slot[t]
      BY <1>a, <3>1 DEF Release
    <3>3. UNCHANGED runs
      BY <1>4, <1>a, <2>1, <2>2 DEF ClaimSelected, ClaimRun, UpdateRun
    <3>. QED BY <3>1, <3>2, <3>3 DEF Executing, At, Idle
  <2>3. CASE ClaimMatches(r)
    <3>1. slot' = Outdate([slot EXCEPT ![s].pc = "load",
                                       ![s].ctx = runs[r].ctx], r)
      BY <1>4, <2>1, <2>3 DEF ClaimSelected
    <3>2. /\ slot'[s].pc = "load" /\ slot'[s].run = r
          /\ slot'[s].flagged = slot[s].flagged /\ slot'[s].ctx = runs[r].ctx
      BY <1>a, <3>1 DEF Outdate, SlotState
    <3>3. \A t \in Slots \ {s} :
            \/ slot'[t] = slot[t]
            \/ /\ slot[t].pc = "selected"
               /\ slot'[t] = [slot[t] EXCEPT !.pc = "outdated"]
      BY <1>a, <3>1 DEF Outdate
    <3>4. runs' = [runs EXCEPT ![r] =
             [runs[r] EXCEPT !.status = "running", !.owner = WorkerOf[s],
                             !.lease = "live"]]
      BY <1>4, <2>1, <2>3 DEF ClaimSelected, ClaimRun, UpdateRun
    <3>5. /\ \A q \in RunIds \ {r} : runs'[q] = runs[q]
          /\ runs'[r].status = "running" /\ runs'[r].job = runs[r].job
          /\ runs'[r].ctx = runs[r].ctx
      BY <1>a, <2>1, <3>4 DEF RunRow
    <3>6. \A t \in Slots \ {s} :
            \/ slot'[t] = slot[t]
            \/ /\ slot[t].pc = "selected" /\ slot'[t].pc = "outdated"
               /\ slot'[t].flagged = slot[t].flagged
               /\ slot'[t].listed = slot[t].listed
      <4>. TAKE t \in Slots \ {s}
      <4>1. slot[t] \in SlotState
        BY <1>a
      <4>2. [slot[t] EXCEPT !.pc = "outdated"].pc = "outdated"
            /\ [slot[t] EXCEPT !.pc = "outdated"].flagged = slot[t].flagged
            /\ [slot[t] EXCEPT !.pc = "outdated"].listed = slot[t].listed
        BY <4>1 DEF SlotState
      <4>. QED BY <3>3, <4>2
    <3>7. UNCHANGED <<jobs, tasks>>
      BY <1>4 DEF ClaimSelected
    <3>. QED BY <2>1, <2>3, <3>2, <3>5, <3>6, <3>7
  <2>. QED BY <2>2, <2>3
<1>. QED BY <1>1, <1>2, <1>3, <1>4

Coroutine(s) == CallStep(s) \/ TaskStep(s) \/ CallFails(s)

Client(j) == ClientEnqueues(j) \/ ClientCancels(j)

\* What a coroutine remembers of its run, apart from what the heartbeat has
\* told it.
Keeps(t) ==
  /\ slot'[t].run = slot[t].run /\ slot'[t].pos = slot[t].pos
  /\ slot'[t].tried = slot[t].tried /\ slot'[t].ctx = slot[t].ctx
  /\ slot'[t].todo = slot[t].todo

\* What is neither a coroutine's step nor a client's ends executions, lists
\* and flags them, or touches leases.
LEMMA OthersKeepRuns ==
  ASSUME Typed, [Next]_vars,
         ~(\E s \in Slots : Coroutine(s)), ~(\E j \in Jobs : Client(j))
  PROVE  /\ UNCHANGED <<jobs, tasks>>
         /\ \A r \in RunIds : /\ runs'[r].status = runs[r].status
                              /\ runs'[r].job = runs[r].job
                              /\ runs'[r].ctx = runs[r].ctx
         /\ \A t \in Slots :
              \/ slot'[t] = Idle
              \/ /\ Keeps(t)
                 /\ \/ slot'[t].pc = slot[t].pc
                    \/ slot[t].pc = "selected" /\ slot'[t].pc = "outdated"
                 /\ \/ slot'[t].flagged = slot[t].flagged
                    \/ slot[t].listed /\ jobs[JobOf(t)].status = "cancelled"
                 /\ \/ slot'[t].listed => slot[t].listed
                    \/ \E w \in Workers, r \in RunIds : active[w][r] = t
<1>a. runs \in [RunIds -> RunRow] /\ slot \in [Slots -> SlotState]
  BY DEF Typed, TypeOK, BackendTypeOK
<1>l. ASSUME NEW r \in RunIds, NEW lease,
             runs' = [runs EXCEPT ![r].lease = lease]
      PROVE  \A q \in RunIds : /\ runs'[q].status = runs[q].status
                               /\ runs'[q].job = runs[q].job
                               /\ runs'[q].ctx = runs[q].ctx
  BY <1>a, <1>l DEF RunRow
<1>0. CASE \E w \in Workers : BeatBegins(w)
  <2>1. PICK w \in Workers : BeatBegins(w)
    BY <1>0
  <2>2. ASSUME NEW t \in Slots
        PROVE  /\ slot'[t].flagged = slot[t].flagged
               /\ \/ slot'[t].listed = slot[t].listed
                  \/ slot'[t].listed => \E r \in RunIds : active[w][r] = t
    <3>1. slot[t] \in SlotState
      BY <1>a
    <3>2. PICK listed \in BOOLEAN :
            /\ slot'[t] = slot[t] \/ slot'[t] = [slot[t] EXCEPT !.listed = listed]
            /\ listed => \E r \in RunIds : active[w][r] = t
      <4>. DEFINE listed == \E r \in RunIds : active[w][r] # None /\ active[w][r] = t
      <4>1. slot'[t] = slot[t] \/ slot'[t] = [slot[t] EXCEPT !.listed = listed]
        BY <2>1 DEF BeatBegins
      <4>. QED BY <4>1
    <3>. QED BY <3>1, <3>2 DEF SlotState
  <2>. QED BY <1>a, <2>1, <2>2, BeatKeepsSlots DEF BeatBegins, tables, Keeps
<1>1. CASE \E w \in Workers : BeatChecks(w)
  <2>1. PICK w \in Workers : BeatChecks(w)
    BY <1>1
  <2>2. PICK r \in beat[w].todo, cancelled \in BOOLEAN :
          /\ cancelled <=> jobs[runs[r].job].status = "cancelled"
          /\ slot' = [t \in Slots |->
                IF WorkerOf[t] = w /\ slot[t].listed /\ RunOf(t) = r
                THEN [slot[t] EXCEPT !.listed = FALSE, !.flagged = @ \/ cancelled]
                ELSE slot[t]]
    BY <2>1 DEF BeatChecks
  <2>3. ASSUME NEW t \in Slots
        PROVE  /\ \/ slot'[t].flagged = slot[t].flagged
                  \/ slot[t].listed /\ jobs[JobOf(t)].status = "cancelled"
               /\ slot'[t].listed => slot[t].listed
    <3>1. slot[t] \in SlotState
      BY <1>a
    <3>2. CASE slot'[t] = slot[t]
      BY <3>2
    <3>3. CASE /\ slot[t].listed /\ RunOf(t) = r
               /\ slot'[t] = [slot[t] EXCEPT !.listed = FALSE,
                                             !.flagged = @ \/ cancelled]
      <4>1. slot'[t].flagged = (slot[t].flagged \/ cancelled)
        BY <3>1, <3>3 DEF SlotState
      <4>2. slot[t].flagged \in BOOLEAN
        BY <3>1 DEF SlotState
      <4>3. cancelled => jobs[JobOf(t)].status = "cancelled"
        BY <2>2, <3>3 DEF JobOf
      <4>. QED BY <3>3, <4>1, <4>2, <4>3
    <3>. QED BY <2>2, <3>2, <3>3
  <2>. QED BY <1>a, <2>1, <2>3, BeatKeepsSlots DEF BeatChecks, tables, Keeps
<1>2. CASE \E w \in Workers : BeatRenews(w)
  <2>1. PICK w \in Workers : BeatRenews(w)
    BY <1>2
  <2>2. beat[w].run \in RunIds
    BY <2>1 DEF BeatRenews, Typed, TypeOK, BeatState
  <2>3. \/ UNCHANGED runs
        \/ runs' = [runs EXCEPT ![beat[w].run].lease = "live"]
    BY <1>a, <2>1, <2>2 DEF BeatRenews, RenewLease, UpdateRun
  <2>4. \A t \in Slots :
          \/ slot'[t] = slot[t]
          \/ slot[t].pc = "selected" /\ slot'[t] = [slot[t] EXCEPT !.pc = "outdated"]
    BY <1>a, <2>1 DEF BeatRenews, Outdate
  <2>5. \A t \in Slots :
          /\ Keeps(t)
          /\ slot'[t].flagged = slot[t].flagged /\ slot'[t].listed = slot[t].listed
          /\ \/ slot'[t].pc = slot[t].pc
             \/ slot[t].pc = "selected" /\ slot'[t].pc = "outdated"
    <3>. TAKE t \in Slots
    <3>1. slot[t] \in SlotState
      BY <1>a
    <3>. QED BY <2>4, <3>1 DEF Keeps, SlotState
  <2>. QED BY <1>l, <2>1, <2>2, <2>3, <2>5 DEF BeatRenews
<1>3. CASE \E w \in Workers : Crash(w)
  BY <1>a, <1>3 DEF Crash, tables, Keeps
<1>4. CASE \E r \in RunIds : LeaseRunsOut(r) \/ LeaseLapses(r)
  BY <1>l, <1>4 DEF LeaseRunsOut, LeaseLapses, LeaseExpires, Keeps
<1>5. CASE UNCHANGED <<tables, slot>>
  BY <1>5 DEF tables, Keeps
<1>. QED
  BY <1>0, <1>1, <1>2, <1>3, <1>4, <1>5
  DEF Next, vars, tables, BeatStep, BeatDrops, Stop, Restart, BeatDies,
      Coroutine, Client

\* A job row changes by a client, a counted failure or a success.
LEMMA StepOnJobs ==
  ASSUME Typed, [Next]_vars, NEW j \in Jobs
  PROVE  \/ jobs'[j] = jobs[j]
         \/ /\ Client(j)
            /\ jobs[j].status # "deleted" => jobs'[j].status # "deleted"
         \/ \E s \in Slots : CountFailure(s) \/ ResetAttempts(s)
<1>a. jobs \in [Jobs -> JobRow] /\ jobs[j] \in JobRow
  BY DEF Safe, Typed, TypeOK, BackendTypeOK
<1>1. CASE \E i \in Jobs : Client(i)
  <2>1. PICK i \in Jobs : Client(i)
    BY <1>1
  <2>2. CASE j # i
    BY <1>a, <2>1, <2>2
    DEF Client, ClientEnqueues, ClientCancels, Enqueue, CancelJob
  <2>3. CASE j = i
    <3>1. \/ jobs' = [jobs EXCEPT ![j] = [status |-> "active", attempts |-> 0]]
          \/ /\ jobs' = [jobs EXCEPT ![j].status =
                           IF JobExists(j) THEN "cancelled" ELSE @]
             /\ jobs[j].status # "absent"
      BY <2>1, <2>3
      DEF Client, ClientEnqueues, ClientCancels, Enqueue, CancelJob
    <3>2. jobs'[j].status \in {"active", "cancelled", jobs[j].status}
      BY <1>a, <3>1 DEF JobRow
    <3>. QED BY <2>1, <2>3, <3>2
  <2>. QED BY <2>2, <2>3
<1>2. CASE \E s \in Slots : Coroutine(s)
  BY <1>2
  DEF Coroutine, CallStep, TaskStep, SelectRun, ClaimSelected, MissSelected,
      LoadJob, CancelLoaded, FailLoaded, ReadRecords, PersistExhausted,
      StartTask, SucceedTask, Checkpoint, CancelTask, CancelTaskRun,
      PersistRetry, RetryTask, ReleaseForRetry, LeaveRun, PersistFailure,
      FailTask, Gather, UndoTask, FinalizeFailed, RetryWholeRun, Complete,
      FailUnhandled, TaskReturns, TaskRaises, TaskAborts, CallFails, tables
<1>. QED BY <1>1, <1>2, OthersKeepRuns

-----------------------------------------------------------------------------
(* Outcomes.                                                                *)

\* What is proved in the modules before this one, and NeverDeleted.
Sound == Safe /\ RegistryInv /\ RunsKnown /\ ActiveJobInv /\ NeverDeleted

LEMMA InitSound == Init => Sound
BY InitSafe
DEF Init, BackendInit, NoRun, Idle, Sound, RegistryInv, RunsKnown, ActiveJobInv,
    NeverDeleted, IsRunning, At

LEMMA StepSound ==
  ASSUME LeasesHold, Sound, [Next]_vars
  PROVE  Sound'
<1>1. Safe' /\ RegistryInv' /\ RunsKnown' /\ ActiveJobInv'
  BY StepSafe, StepRegistered, StepKeepsKnown, StepKeepsActiveJob DEF Sound, Safe
<1>2. \A r \in RunIds : runs'[r].status # "deleted"
  BY StepDeletesNone DEF Sound, Safe, NeverDeleted
<1>3. ASSUME NEW j \in Jobs
      PROVE  jobs'[j].status # "deleted"
  <2>1. CASE \E s \in Slots : CountFailure(s) \/ ResetAttempts(s)
    <3>1. jobs \in [Jobs -> JobRow] /\ jobs[j] \in JobRow
      BY DEF Sound, Safe, Typed, TypeOK, BackendTypeOK
    <3>2. jobs'[j].status = jobs[j].status
      BY <2>1, <3>1
      DEF CountFailure, ResetAttempts, IncrementJobAttempts, ResetJobAttempts,
          JobRow
    <3>. QED BY <3>2 DEF Sound, NeverDeleted
  <2>. QED BY <2>1, StepOnJobs DEF Sound, Safe, NeverDeleted
<1>. QED BY <1>1, <1>2, <1>3 DEF Sound, NeverDeleted

\* An execution whose job is cancelled works on a run that is over.
LEMMA CancelledIsOver ==
  ASSUME Sound, NEW s \in Slots, Executing(s),
         jobs[JobOf(s)].status = "cancelled"
  PROVE  runs[RunOf(s)].status \in Over
<1>1. RunOf(s) \in RunIds
  BY DEF Sound, Safe, Typed, SlotInv, WorkingSlot, Executing, At, RunOf
<1>2. ~IsRunning(RunOf(s))
  BY <1>1 DEF Sound, ActiveJobInv, JobOf, RunOf
<1>. QED BY <1>1, <1>2 DEF Sound, Safe, LeaseInv, HoldsLease, LeaseHeldBy

\* An execution whose run nothing happens to, but that may have been flagged.
LEMMA SameOutcome ==
  ASSUME NEW s \in Slots, SlotOutcome(s),
         slot'[s].pc = slot[s].pc, slot'[s].run = slot[s].run,
         slot'[s].flagged = slot[s].flagged
           \/ runs[slot[s].run].status \in Over,
         runs'[slot[s].run].status = runs[slot[s].run].status
  PROVE  SlotOutcome(s)'
BY DEF SlotOutcome, RunOf

LEMMA ExecutionOutcome ==
  ASSUME Sound, OutcomeInv, [Next]_vars,
         NEW s \in Slots, Executing(s), Coroutine(s)
  PROVE  OutcomeInv'
<1>. DEFINE r == RunOf(s)
            status == runs[r].status
<1>a. /\ slot \in [Slots -> SlotState] /\ NoneReused /\ Safe /\ RunsKnown /\ Typed
      /\ r \in RunIds
  BY DEF Sound, Safe, Typed, TypeOK, SlotInv, WorkingSlot, Executing, At, RunOf
<1>b. SlotOutcome(s)
  BY DEF OutcomeInv, Outcome
<1>c. /\ \A t \in Slots \ {s} :
           \/ slot'[t] = slot[t]
           \/ /\ slot[t].pc = "selected" /\ slot'[t].pc = "outdated"
              /\ slot'[t].flagged = slot[t].flagged
              /\ slot'[t].listed = slot[t].listed
      /\ \A q \in RunIds : runs[q].status # "absent" /\ q # r => runs'[q] = runs[q]
  <2>1. CallStep(s) \/ TaskStep(s) \/ CallFails(s)
    BY DEF Coroutine
  <2>2. \A q \in RunIds : runs[q].status # "absent" /\ q # r => runs'[q] = runs[q]
    BY <1>a, <2>1, ExecutionWrites
  <2>. QED BY <1>a, <2>1, <2>2, ExecutionMoves
<1>1. ASSUME NEW t \in Slots \ {s}
      PROVE  Outcome(t)'
  <2>1. CASE Executing(t)
    <3>1. slot'[t] = slot[t] /\ Executing(t)'
      BY <1>c, <2>1 DEF Executing, Claiming, At
    <3>2. /\ slot[t].run \in RunIds /\ slot[t].run # r
          /\ runs[slot[t].run].status # "absent"
      BY <1>a, <2>1
      DEF RunsKnown, Safe, LeaseInv, ExclusiveExecution, Typed, SlotInv,
          WorkingSlot, Executing, At, RunOf
    <3>3. runs'[slot[t].run] = runs[slot[t].run]
      BY <1>c, <3>2
    <3>4. Outcome(t) /\ SlotOutcome(t)
      BY <2>1 DEF OutcomeInv, Outcome
    <3>. QED BY <3>1, <3>3, <3>4, SameOutcome DEF Outcome
  <2>2. CASE ~Executing(t)
    BY <1>c, <2>2 DEF OutcomeInv, Outcome, Executing, Claiming, At
  <2>. QED BY <2>1, <2>2
<1>2. CASE slot'[s] = Idle \/ slot'[s] = [slot[s] EXCEPT !.pc = "leave"]
  <2>1. slot[s] \in SlotState
    BY <1>a
  <2>2. Outcome(s)'
    BY <1>2, <2>1 DEF Outcome, Executing, Claiming, At, Idle, SlotState
  <2>. QED BY <1>1, <2>2 DEF OutcomeInv
<1>3. CASE slot'[s] # Idle /\ slot'[s] # [slot[s] EXCEPT !.pc = "leave"]
  <2>1. /\ slot'[s].run = r /\ slot'[s].flagged = slot[s].flagged
        /\ slot'[s].pc \notin {"idle", "selected", "outdated", "leave"}
        /\ slot'[s].pc = "cancelLoaded" => LoadJob(s)
        /\ slot'[s].pc = "cancelTask" => slot[s].flagged
        /\ slot'[s].pc = "cancelRun" => slot[s].pc = "cancelTask"
        /\ slot'[s].pc = "resetAttempts" => Complete(s)
        /\ slot'[s].pc = "increment" => FinalizeFailed(s)
        /\ slot'[s].pc = "retryRun" => CountFailure(s)
        /\ slot'[s].pc # "abort"
             => slot[s].pc \notin {"resetAttempts", "retryRun", "abort"}
    BY <1>3, <1>a, ExecutionMoves DEF Coroutine, RunOf
  <2>2. ~FailLoaded(s) /\ ~FailUnhandled(s) /\ ~CancelLoaded(s)
        /\ ~CancelTaskRun(s) /\ ~ReleaseForRetry(s)
    <3>1. FailLoaded(s) \/ FailUnhandled(s) \/ CancelLoaded(s) \/ CancelTaskRun(s)
            => Release(s)
      BY DEF FailLoaded, FailUnhandled, CancelLoaded, CancelTaskRun
    <3>2. Release(s) => slot'[s] = Idle
      BY <1>a DEF Release
    <3>3. ReleaseForRetry(s) => slot'[s] = [slot[s] EXCEPT !.pc = "leave"]
      BY <1>a, ReleaseLeaves
    <3>. QED BY <1>3, <3>1, <3>2, <3>3
  <2>3. \/ runs'[r].status = status
        \/ /\ status = "running" /\ runs'[r].status = "failed"
           /\ FinalizeFailed(s)
        \/ /\ status = "running" /\ runs'[r].status = "succeeded"
           /\ Complete(s)
    BY <1>a, <2>2, ExecutionWrites DEF Coroutine, IsRunning
  <2>4. status \in Over \/ status = "running"
    BY <1>a DEF Safe, LeaseInv, HoldsLease, LeaseHeldBy, IsRunning
  <2>5. FinalizeFailed(s) => slot'[s].pc = "increment" /\ runs'[r].status \in Over
    <3>1. ASSUME FinalizeFailed(s)
          PROVE  slot'[s].pc = "increment"
      <4>1. Goto(s, "increment")
        BY <1>3, <1>a, <3>1 DEF FinalizeFailed, Release
      <4>. QED BY <1>a, <4>1 DEF Goto, SlotState
    <3>2. ASSUME FinalizeFailed(s)
          PROVE  runs'[r].status \in Over
      BY <1>a, <2>4, <3>2, OwnWrites
      DEF FinalizeFailed, Safe, Typed, TypeOK, BackendTypeOK
    <3>. QED BY <3>1, <3>2
  <2>6. Complete(s) => slot'[s].pc = "resetAttempts" /\ runs'[r].status \in Over
    <3>1. ASSUME Complete(s)
          PROVE  slot'[s].pc = "resetAttempts"
      BY <1>a, <3>1 DEF Complete, Goto, SlotState
    <3>2. ASSUME Complete(s)
          PROVE  runs'[r].status \in Over
      BY <1>a, <2>4, <3>2, OwnWrites
      DEF Complete, Safe, Typed, TypeOK, BackendTypeOK
    <3>. QED BY <3>1, <3>2
  <2>7. LoadJob(s) /\ slot'[s].pc = "cancelLoaded" => status \in Over
    <3>1. ASSUME LoadJob(s), jobs[JobOf(s)].status # "cancelled"
          PROVE  slot'[s].pc # "cancelLoaded"
      <4>1. Goto(s, "failLoaded") \/ Goto(s, "records")
        BY <3>1 DEF LoadJob
      <4>. QED BY <1>a, <4>1 DEF Goto, SlotState
    <3>. QED BY <3>1, CancelledIsOver
  <2>8. CountFailure(s) => slot[s].pc = "increment" /\ runs'[r].status = status
    BY <1>a DEF CountFailure, At
  <2>9. Executing(s)'
    BY <2>1 DEF Executing, Claiming, At
  <2>10. status = "failed" => slot'[s].pc \in {"increment", "retryRun", "abort"}
    <3>1. status = "failed" /\ slot'[s].pc # "abort" => slot[s].pc = "increment"
      BY <1>b, <2>1 DEF SlotOutcome
    <3>2. slot[s].pc = "increment" => slot'[s].pc \in {"abort", "retryRun"}
      <4>. SUFFICES ASSUME slot[s].pc = "increment", slot'[s].pc # "abort"
                    PROVE  slot'[s].pc = "retryRun"
        OBVIOUS
      <4>1. CountFailure(s)
        BY <1>3, <1>a
        DEF Coroutine, CallStep, TaskStep, SelectRun, ClaimSelected, MissSelected,
            LoadJob, CancelLoaded, FailLoaded, ReadRecords, PersistExhausted,
            StartTask, SucceedTask, Checkpoint, CancelTask, CancelTaskRun,
            PersistRetry, RetryTask, ReleaseForRetry, LeaveRun, PersistFailure,
            FailTask, Gather, UndoTask, FinalizeFailed, RetryWholeRun, Complete,
            ResetAttempts, FailUnhandled, TaskReturns, TaskRaises, TaskAborts,
            CallFails, At, Goto, Claiming, SlotState
      <4>. QED BY <1>3, <1>a, <4>1 DEF CountFailure, Goto, Release, SlotState
    <3>. QED BY <3>1, <3>2
  <2>11. SlotOutcome(s)'
    <3>1. runs'[r].status = "succeeded" => slot'[s].pc \in {"resetAttempts", "abort"}
      BY <1>b, <2>1, <2>3, <2>6 DEF SlotOutcome
    <3>2. runs'[r].status = "failed" => slot'[s].pc \in {"increment", "retryRun", "abort"}
      BY <2>3, <2>5, <2>10
    <3>3. slot'[s].pc \in {"resetAttempts", "increment", "retryRun"}
            => runs'[r].status \in Over
      BY <1>b, <2>1, <2>5, <2>6, <2>8 DEF SlotOutcome
    <3>4. slot'[s].flagged
          \/ slot'[s].pc \in {"cancelLoaded", "cancelTask", "cancelRun"}
            => runs'[r].status \in Over
      <4>1. slot'[s].flagged
            \/ slot'[s].pc \in {"cancelLoaded", "cancelTask", "cancelRun"}
              => status \in Over
        BY <1>b, <2>1, <2>7 DEF SlotOutcome
      <4>2. status \in Over => runs'[r].status \in Over
        BY <1>a, StepKeepsOver DEF Safe
      <4>. QED BY <4>1, <4>2
    <3>. QED BY <2>1, <3>1, <3>2, <3>3, <3>4 DEF SlotOutcome, RunOf
  <2>. QED BY <1>1, <2>9, <2>11 DEF OutcomeInv, Outcome
<1>. QED BY <1>2, <1>3

LEMMA ClientOnRuns ==
  ASSUME Sound, NEW j \in Jobs, Client(j),
         NEW r \in RunIds, runs[r].status # "absent"
  PROVE  /\ runs'[r].job = runs[r].job
         /\ runs'[r].ctx = runs[r].ctx
         /\ \/ runs'[r] = runs[r]
            \/ /\ ClientCancels(j) /\ runs[r].job = j /\ InFlight(r)
               /\ runs'[r].status = "cancelled"
<1>a. runs \in [RunIds -> RunRow] /\ runs[r] \in RunRow /\ NoneReused
  BY DEF Sound, Safe, Typed, TypeOK, BackendTypeOK
<1>1. CASE ClientEnqueues(j)
  BY <1>a, <1>1, NewRowWasAbsent DEF ClientEnqueues, Enqueue
<1>2. CASE ClientCancels(j)
  <2>1. \/ runs'[r] = runs[r]
        \/ /\ runs'[r] = [runs[r] EXCEPT !.status = "cancelled", !.lease = "none"]
           /\ runs[r].job = j /\ InFlight(r)
    BY <1>2 DEF ClientCancels, CancelJob, InFlight
  <2>. QED BY <1>a, <1>2, <2>1 DEF RunRow
<1>. QED BY <1>1, <1>2 DEF Client

LEMMA StepOutcome ==
  ASSUME Sound, OutcomeInv, [Next]_vars
  PROVE  OutcomeInv'
<1>a. /\ slot \in [Slots -> SlotState] /\ Safe /\ RunsKnown /\ RegistryInv /\ Typed
  BY DEF Sound, Safe, Typed, TypeOK
<1>b. \A t \in Slots : Executing(t)
        => /\ slot[t].run \in RunIds /\ runs[slot[t].run].status # "absent"
           /\ SlotOutcome(t)
  BY <1>a
  DEF RunsKnown, Typed, SlotInv, WorkingSlot, Executing, At, RunOf, OutcomeInv,
      Outcome
<1>1. CASE \E s \in Slots : Executing(s) /\ Coroutine(s)
  BY <1>1, ExecutionOutcome
<1>2. ASSUME NEW s \in Slots, ~Executing(s), Coroutine(s)
      PROVE  OutcomeInv'
  <2>. DEFINE r == slot[s].run
  <2>1. \A t \in Slots \ {s} :
          \/ slot'[t] = slot[t]
          \/ /\ slot[t].pc = "selected" /\ slot'[t].pc = "outdated"
             /\ slot'[t].flagged = slot[t].flagged
             /\ slot'[t].listed = slot[t].listed
    BY <1>2, <1>a, ClaimMoves DEF Coroutine
  <2>2. \/ /\ ~Executing(s)' /\ UNCHANGED runs
           /\ \/ slot'[s] = Idle
              \/ /\ slot[s].pc = "idle" /\ slot'[s].flagged = slot[s].flagged
                 /\ slot'[s].listed = slot[s].listed
        \/ /\ slot[s].pc = "selected" /\ r \in RunIds /\ ClaimMatches(r)
           /\ slot'[s].pc = "load" /\ slot'[s].run = r
           /\ slot'[s].flagged = slot[s].flagged
           /\ \A q \in RunIds \ {r} : runs'[q] = runs[q]
           /\ runs'[r].status = "running"
    BY <1>2, <1>a, ClaimMoves DEF Coroutine
  <2>3. ASSUME NEW t \in Slots \ {s}
        PROVE  Outcome(t)'
    <3>1. CASE Executing(t)
      <4>1. slot'[t] = slot[t] /\ Executing(t)'
        BY <2>1, <3>1 DEF Executing, Claiming, At
      <4>2. runs[slot[t].run].status \in Over
              \/ /\ runs[slot[t].run].status = "running"
                 /\ runs[slot[t].run].lease = "live"
        BY <1>a, <3>1
        DEF Safe, LeaseInv, HoldsLease, LeaseHeldBy, IsRunning, RunOf
      <4>3. ~ClaimMatches(slot[t].run)
        BY <4>2 DEF ClaimMatches, Over, Terminal
      <4>4. runs'[slot[t].run] = runs[slot[t].run]
        BY <1>b, <2>2, <3>1, <4>3
      <4>. QED BY <1>b, <3>1, <4>1, <4>4, SameOutcome DEF Outcome
    <3>2. CASE ~Executing(t)
      BY <2>1, <3>2 DEF OutcomeInv, Outcome, Executing, Claiming, At
    <3>. QED BY <3>1, <3>2
  <2>4. Outcome(s)'
    <3>1. slot[s].pc # "leave" => ~slot[s].flagged /\ ~slot[s].listed
      BY <1>2 DEF OutcomeInv, Outcome, At
    <3>2. ~Idle.flagged /\ ~Idle.listed
      BY DEF Idle
    <3>3. CASE ~Executing(s)' /\ slot'[s] = Idle
      BY <3>2, <3>3 DEF Outcome
    <3>4. CASE /\ ~Executing(s)' /\ slot[s].pc = "idle"
               /\ slot'[s].flagged = slot[s].flagged
               /\ slot'[s].listed = slot[s].listed
      BY <3>1, <3>4 DEF Outcome
    <3>5. CASE /\ slot[s].pc = "selected"
               /\ slot'[s].pc = "load" /\ slot'[s].run = r
               /\ slot'[s].flagged = slot[s].flagged
               /\ runs'[r].status = "running"
      BY <3>1, <3>5 DEF Outcome, SlotOutcome, Executing, Claiming, At, RunOf
    <3>. QED BY <2>2, <3>3, <3>4, <3>5
  <2>. QED BY <2>3, <2>4 DEF OutcomeInv
<1>3. ASSUME NEW j \in Jobs, Client(j)
      PROVE  OutcomeInv'
  <2>1. UNCHANGED slot
    BY <1>3 DEF Client, ClientEnqueues, ClientCancels
  <2>2. ASSUME NEW t \in Slots, Executing(t)
        PROVE  SlotOutcome(t)'
    <3>. DEFINE r == slot[t].run
    <3>1. \/ runs'[r] = runs[r]
          \/ runs[r].status \in {"ready", "running"} /\ runs'[r].status = "cancelled"
      BY <1>3, <1>b, <2>2, ClientOnRuns DEF InFlight
    <3>2. CASE runs'[r] = runs[r]
      BY <1>b, <2>1, <2>2, <3>2, SameOutcome
    <3>3. CASE runs'[r].status = "cancelled"
      BY <2>1, <3>3 DEF SlotOutcome, RunOf, Over, Terminal
    <3>. QED BY <3>1, <3>2, <3>3
  <2>. QED BY <2>1, <2>2 DEF OutcomeInv, Outcome, Executing, Claiming, At
<1>4. CASE ~(\E s \in Slots : Coroutine(s)) /\ ~(\E j \in Jobs : Client(j))
  <2>1. /\ \A r \in RunIds : runs'[r].status = runs[r].status
        /\ \A t \in Slots :
             \/ slot'[t] = Idle
             \/ /\ slot'[t].run = slot[t].run
                /\ \/ slot'[t].pc = slot[t].pc
                   \/ slot[t].pc = "selected" /\ slot'[t].pc = "outdated"
                /\ \/ slot'[t].flagged = slot[t].flagged
                   \/ slot[t].listed /\ jobs[JobOf(t)].status = "cancelled"
                /\ \/ slot'[t].listed => slot[t].listed
                   \/ \E w \in Workers, r \in RunIds : active[w][r] = t
    BY <1>4, <1>a, OthersKeepRuns DEF Keeps
  <2>2. ASSUME NEW t \in Slots
        PROVE  Outcome(t)'
    <3>1. CASE slot'[t] = Idle
      BY <3>1 DEF Idle, Outcome, Executing, Claiming, At
    <3>2. CASE slot'[t] # Idle /\ Executing(t)
      <4>1. slot'[t].pc = slot[t].pc /\ slot'[t].run = slot[t].run /\ Executing(t)'
        BY <2>1, <3>2 DEF Executing, Claiming, At
      <4>2. slot'[t].flagged = slot[t].flagged \/ runs[RunOf(t)].status \in Over
        BY <2>1, <3>2, CancelledIsOver
      <4>. QED BY <1>b, <2>1, <3>2, <4>1, <4>2, SameOutcome DEF Outcome, RunOf
    <3>3. CASE slot'[t] # Idle /\ ~Executing(t)
      <4>1. ~Executing(t)' /\ (At(t, "leave") => At(t, "leave")')
        BY <2>1, <3>3 DEF Executing, Claiming, At
      <4>2. slot[t].flagged \/ slot[t].listed => At(t, "leave")
        BY <3>3 DEF OutcomeInv, Outcome
      <4>3. (\E w \in Workers, r \in RunIds : active[w][r] = t) => At(t, "leave")
        BY <1>a, <3>3, WorkerAssumption DEF RegistryInv, Entry, Registered
      <4>. QED BY <2>1, <3>3, <4>1, <4>2, <4>3 DEF Outcome
    <3>. QED BY <3>1, <3>2, <3>3
  <2>. QED BY <2>2 DEF OutcomeInv
<1>. QED BY <1>1, <1>2, <1>3, <1>4

\* How a run ended and where its execution is always fit together: nobody is
\* about to write to a run that has succeeded or failed, and whoever is about
\* to cancel one works on a run that is over (worker.py _run, _run_task,
\* _finalize_failed; cancel_run has no condition).
THEOREM OutcomeInvariant == LeasesHold => (Spec => [](Sound /\ OutcomeInv))
<1>1. SUFFICES ASSUME LeasesHold PROVE Spec => [](Sound /\ OutcomeInv)
  OBVIOUS
<1>2. Init => Sound /\ OutcomeInv
  <2>1. Init => OutcomeInv
    BY DEF Init, Idle, OutcomeInv, Outcome, Executing, At
  <2>. QED BY <2>1, InitSound
<1>3. Sound /\ OutcomeInv /\ [Next]_vars => (Sound /\ OutcomeInv)'
  BY <1>1, StepSound, StepOutcome
<1>. QED BY <1>2, <1>3, PTL DEF Spec

LEMMA StepKeepsOutcome ==
  ASSUME Sound, OutcomeInv, [Next]_vars, NEW r \in RunIds,
         runs[r].status \in Terminal
  PROVE  runs'[r].status = runs[r].status
<1>a. NoneReused /\ Safe /\ RunsKnown /\ RegistryInv /\ Typed /\ runs[r].status # "absent"
  BY DEF Sound, Safe, Terminal
<1>1. ASSUME NEW s \in Slots, Executing(s), Coroutine(s)
      PROVE  runs'[r].status = runs[r].status
  <2>1. CASE r # RunOf(s)
    BY <1>1, <1>a, <2>1, ExecutionWrites
    DEF Coroutine, Executing, At, RunOf, Typed, SlotInv, WorkingSlot
  <2>2. CASE r = RunOf(s)
    <3>1. \/ runs'[r].status = runs[r].status
          \/ IsRunning(r)
          \/ /\ runs'[r].status = "cancelled"
             /\ CancelLoaded(s) \/ CancelTaskRun(s)
      BY <1>1, <1>a, <2>2, ExecutionWrites DEF Coroutine
    <3>2. CancelLoaded(s) \/ CancelTaskRun(s) => runs[r].status = "cancelled"
      BY <1>1, <2>2
      DEF OutcomeInv, Outcome, SlotOutcome, CancelLoaded, CancelTaskRun, At, Terminal
    <3>. QED BY <3>1, <3>2 DEF IsRunning, Terminal
  <2>. QED BY <2>1, <2>2
<1>2. ASSUME NEW s \in Slots, ~Executing(s), Coroutine(s)
      PROVE  runs'[r].status = runs[r].status
  <2>1. \/ UNCHANGED runs
        \/ /\ ClaimMatches(slot[s].run)
           /\ \A q \in RunIds \ {slot[s].run} : runs'[q] = runs[q]
    BY <1>2, <1>a, ClaimMoves DEF Coroutine
  <2>2. ~ClaimMatches(r)
    BY DEF ClaimMatches, Terminal
  <2>. QED BY <2>1, <2>2
<1>3. ASSUME NEW j \in Jobs, Client(j)
      PROVE  runs'[r].status = runs[r].status
  BY <1>3, <1>a, ClientOnRuns DEF InFlight, Terminal
<1>4. CASE ~(\E s \in Slots : Coroutine(s)) /\ ~(\E j \in Jobs : Client(j))
  BY <1>4, <1>a, OthersKeepRuns
<1>. QED BY <1>1, <1>2, <1>3, <1>4

\* An outcome, once written, is the outcome, although cancel_run overwrites
\* whatever it finds: where leases hold, nobody calls it for a run that has
\* succeeded or failed.
THEOREM OutcomesAreFinal == LeasesHold => (Spec => OutcomeIsFinal)
<1>1. Sound /\ OutcomeInv /\ [Next]_vars
        => [\A r \in RunIds : runs[r].status \in Terminal
              => runs'[r].status = runs[r].status]_vars
  BY StepKeepsOutcome
<1>. QED BY <1>1, OutcomeInvariant, PTL DEF Spec, OutcomeIsFinal

-----------------------------------------------------------------------------
(* The executor implements RunLifecycle, one step of it at a time.          *)

HoldersOf(r) == {s \in Slots : Executing(s) /\ RunOf(s) = r}

LEMMA LifeCases ==
  ASSUME NEW r \in RunIds
  PROVE  /\ runs[r].status = "ready" => LifeOf(r) = "waiting"
         /\ runs[r].status = "running" => LifeOf(r) = "held"
         /\ runs[r].status \notin {"ready", "running"} => LifeOf(r) = runs[r].status
         /\ runs'[r].status = "ready" => LifeOf(r)' = "waiting"
         /\ runs'[r].status = "running" => LifeOf(r)' = "held"
         /\ runs'[r].status \notin {"ready", "running"} => LifeOf(r)' = runs'[r].status
         /\ runs'[r].status = runs[r].status => LifeOf(r)' = LifeOf(r)
BY DEF LifeOf

\* The executions that go on, and those that are gone.
Kept(gone) ==
  \A t \in Slots :
    IF t \in gone THEN ~Executing(t)'
    ELSE /\ Executing(t)' <=> Executing(t)
         /\ Executing(t) => slot'[t].run = slot[t].run

LEMMA KeptHolders ==
  ASSUME NEW gone, Kept(gone)
  PROVE  [r \in RunIds |-> HoldersOf(r)']
           = [r \in RunIds |-> [q \in RunIds |-> HoldersOf(q)][r] \ gone]
<1>1. \A r \in RunIds : HoldersOf(r)' = HoldersOf(r) \ gone
  BY DEF Kept, HoldersOf, RunOf
<1>. QED BY <1>1

\* One run moves on in its life, and executions may end.
LEMMA LifeMoves ==
  ASSUME NEW r \in RunIds, NEW life, LifeOf(r)' = life,
         \A q \in RunIds \ {r} : runs'[q].status = runs[q].status
  PROVE  [q \in RunIds |-> LifeOf(q)']
           = [[q \in RunIds |-> LifeOf(q)] EXCEPT ![r] = life]
<1>1. \A q \in RunIds \ {r} : LifeOf(q)' = LifeOf(q)
  BY LifeCases
<1>. QED BY <1>1

LEMMA LifeStays ==
  ASSUME \A q \in RunIds : runs'[q].status = runs[q].status
  PROVE  [q \in RunIds |-> LifeOf(q)'] = [q \in RunIds |-> LifeOf(q)]
<1>1. \A q \in RunIds : LifeOf(q)' = LifeOf(q)
  BY LifeCases
<1>. QED BY <1>1

LEMMA Vanishes ==
  ASSUME NEW gone \in SUBSET Slots, Kept(gone),
         \A q \in RunIds : runs'[q].status = runs[q].status
  PROVE  Life!LifeNext
<1>1. Life!Vanish(gone)
  BY KeptHolders, LifeStays DEF Life!Vanish, Life!Without, HoldersOf
<1>. QED BY <1>1 DEF Life!LifeNext

LEMMA Creates ==
  ASSUME NEW gone \in SUBSET Slots, Kept(gone),
         runs \in [RunIds -> RunRow], NeverDeleted,
         NEW r \in RunIds, NEW j, CreateRun(r, j)
  PROVE  Life!LifeNext
<1>1. runs[r].status = "absent"
  <2>1. r \in r .. MaxRuns
    BY BackendAssumption DEF RunIds
  <2>. QED BY <2>1 DEF CreateRun, NextId, FreeId, NeverDeleted
<1>2. /\ runs'[r].status = "ready"
      /\ \A q \in RunIds \ {r} : runs'[q].status = runs[q].status
  BY DEF CreateRun, NoRun
<1>3. Life!Create(r, gone)
  BY <1>1, <1>2, KeptHolders, LifeMoves, LifeCases
  DEF Life!Create, Life!Without, HoldersOf
<1>. QED BY <1>3 DEF Life!LifeNext

LEMMA ExecutionLives ==
  ASSUME Sound, OutcomeInv, [Next]_vars,
         NEW s \in Slots, Executing(s), Coroutine(s),
         NEW r \in RunIds, r = RunOf(s)
  PROVE  Life!LifeNext
<1>. DEFINE gone == IF Executing(s)' THEN {} ELSE {s}
<1>a. /\ NoneReused /\ Safe /\ RunsKnown /\ Typed /\ NeverDeleted
      /\ runs \in [RunIds -> RunRow] /\ slot \in [Slots -> SlotState]
  BY DEF Sound, Safe, Typed, TypeOK, BackendTypeOK, SlotInv, WorkingSlot,
         Executing, At, RunOf
<1>b. Kept(gone)
  <2>1. \A t \in Slots \ {s} : \/ slot'[t] = slot[t]
                               \/ slot[t].pc = "selected" /\ slot'[t].pc = "outdated"
    BY <1>a, ExecutionMoves DEF Coroutine
  <2>2. ASSUME NEW t \in Slots \ {s}
        PROVE  /\ Executing(t)' <=> Executing(t)
               /\ Executing(t) => slot'[t].run = slot[t].run
    BY <2>1 DEF Executing, Claiming, At
  <2>3. CASE ~Executing(s)'
    BY <2>2, <2>3 DEF Kept
  <2>4. CASE Executing(s)'
    <3>1. slot'[s].run = slot[s].run
      BY <1>a, <2>4, ExecutionGoesOn DEF Coroutine
    <3>. QED BY <2>2, <2>4, <3>1 DEF Kept
  <2>. QED BY <2>3, <2>4
<1>c. gone \in SUBSET Slots /\ gone \in {{}, {s}}
  OBVIOUS
<1>d. /\ ~RetryWholeRun(s) => \A q \in RunIds \ {r} : runs'[q] = runs[q]
      /\ \/ runs'[r].status = runs[r].status
         \/ /\ IsRunning(r) /\ runs'[r].status = "failed"
            /\ FailLoaded(s) \/ FinalizeFailed(s) \/ FailUnhandled(s)
         \/ /\ runs'[r].status = "cancelled"
            /\ CancelLoaded(s) \/ CancelTaskRun(s)
         \/ /\ IsRunning(r) /\ runs'[r].status = "ready"
            /\ ReleaseForRetry(s)
         \/ /\ IsRunning(r) /\ runs'[r].status = "succeeded"
            /\ Complete(s)
  BY <1>a, ExecutionWrites DEF Coroutine
<1>. HIDE DEF gone
<1>1. CASE RetryWholeRun(s)
  <2>1. PICK q \in RunIds : CreateRun(q, JobOf(s))
    BY <1>1 DEF RetryWholeRun
  <2>. QED BY <1>a, <1>b, <1>c, <2>1, Creates
<1>2. CASE ~RetryWholeRun(s)
  <2>1. \A q \in RunIds \ {r} : runs'[q].status = runs[q].status
    BY <1>d, <1>2
  <2>2. CASE runs'[r].status = runs[r].status
    BY <1>a, <1>b, <1>c, <2>1, <2>2, Vanishes
  <2>3. CASE /\ runs'[r].status = "cancelled"
             /\ CancelLoaded(s) \/ CancelTaskRun(s)
    <3>1. runs[r].status \in Terminal
      BY <1>a, <2>3
      DEF OutcomeInv, Outcome, SlotOutcome, CancelLoaded, CancelTaskRun, At, Over,
          NeverDeleted
    <3>2. runs'[r].status = runs[r].status
      BY <1>a, <3>1, StepKeepsOutcome
    <3>. QED BY <1>a, <1>b, <1>c, <2>1, <3>2, Vanishes
  <2>4. s \in HoldersOf(r)
    BY DEF HoldersOf
  <2>5. CASE IsRunning(r) /\ runs'[r].status \in {"failed", "succeeded"}
    <3>1. PICK outcome \in {"failed", "succeeded"} : runs'[r].status = outcome
      BY <2>5
    <3>2. LifeOf(r) = "held" /\ LifeOf(r)' = outcome
      BY <1>a, <2>5, <3>1, LifeCases DEF IsRunning
    <3>3. Life!Finish(r, s, outcome, gone)
      BY <1>a, <1>b, <1>c, <2>1, <2>4, <3>2, KeptHolders, LifeMoves
      DEF Life!Finish, Life!Without, HoldersOf
    <3>. QED BY <1>a, <1>c, <3>3 DEF Life!LifeNext
  <2>6. CASE IsRunning(r) /\ runs'[r].status = "ready" /\ ReleaseForRetry(s)
    <3>1. gone = {s}
      <4>0. slot[s] \in SlotState
        BY <1>a
      <4>1. slot'[s].pc = "leave"
        BY <1>a, <2>6, <4>0, ReleaseLeaves DEF SlotState
      <4>. QED BY <4>1 DEF gone, Executing, Claiming, At
    <3>2. LifeOf(r) = "held" /\ LifeOf(r)' = "waiting"
      BY <1>a, <2>6, LifeCases DEF IsRunning
    <3>3. Life!PutBack(r, s)
      BY <1>a, <1>b, <2>1, <2>4, <3>1, <3>2, KeptHolders, LifeMoves
      DEF Life!PutBack, Life!Without, HoldersOf
    <3>. QED BY <1>a, <3>3 DEF Life!LifeNext
  <2>. QED BY <1>d, <2>2, <2>3, <2>5, <2>6
<1>. QED BY <1>1, <1>2

LEMMA ClaimLives ==
  ASSUME Sound, NEW s \in Slots, ~Executing(s), Coroutine(s)
  PROVE  Life!LifeNext
<1>a. Safe /\ Typed
  BY DEF Sound, Safe
<1>1. /\ \A t \in Slots \ {s} :
           \/ slot'[t] = slot[t]
           \/ slot[t].pc = "selected" /\ slot'[t].pc = "outdated"
      /\ \/ ~Executing(s)' /\ UNCHANGED runs
         \/ \E r \in RunIds :
              /\ ClaimMatches(r)
              /\ slot'[s].pc = "load" /\ slot'[s].run = r
              /\ \A q \in RunIds \ {r} : runs'[q] = runs[q]
              /\ runs'[r].status = "running"
  BY <1>a, ClaimMoves DEF Coroutine
<1>2. ASSUME NEW t \in Slots \ {s}
      PROVE  /\ Executing(t)' <=> Executing(t)
             /\ Executing(t) => slot'[t].run = slot[t].run
  BY <1>1 DEF Executing, Claiming, At
<1>3. CASE ~Executing(s)' /\ UNCHANGED runs
  <2>1. Kept({})
    BY <1>2, <1>3 DEF Kept
  <2>. QED BY <1>3, <2>1, Vanishes
<1>4. ASSUME NEW r \in RunIds, ClaimMatches(r),
             slot'[s].pc = "load" /\ slot'[s].run = r,
             \A q \in RunIds \ {r} : runs'[q] = runs[q],
             runs'[r].status = "running"
      PROVE  Life!LifeNext
  <2>1. LifeOf(r) \in {"waiting", "held"} /\ LifeOf(r)' = "held"
    BY <1>4, LifeCases DEF ClaimMatches
  <2>2. HoldersOf(r) = {}
    <3>. SUFFICES ASSUME NEW t \in Slots, Executing(t), RunOf(t) = r
                  PROVE  FALSE
      BY DEF HoldersOf
    <3>1. \/ runs[r].status \in Over
          \/ runs[r].status = "running" /\ runs[r].lease = "live"
      BY <1>a DEF Safe, LeaseInv, HoldsLease, LeaseHeldBy, IsRunning
    <3>. QED BY <1>4, <3>1 DEF ClaimMatches, Over, Terminal
  <2>3. \A q \in RunIds : s \notin HoldersOf(q)
    BY DEF HoldersOf
  <2>4. [q \in RunIds |-> HoldersOf(q)']
          = [[q \in RunIds |-> HoldersOf(q)] EXCEPT ![r] = {s}]
    <3>1. Executing(s)'
      BY <1>4 DEF Executing, Claiming, At
    <3>2. \A q \in RunIds \ {r} : HoldersOf(q)' = HoldersOf(q)
      BY <1>2, <1>4 DEF HoldersOf, RunOf
    <3>3. HoldersOf(r)' = {s}
      BY <1>2, <1>4, <2>2, <3>1 DEF HoldersOf, RunOf
    <3>. QED BY <3>2, <3>3
  <2>5. Life!Take(r, s)
    BY <1>4, <2>1, <2>2, <2>3, <2>4, LifeMoves DEF Life!Take, HoldersOf
  <2>. QED BY <1>4, <2>5 DEF Life!LifeNext
<1>. QED BY <1>1, <1>3, <1>4

LEMMA StepLives ==
  ASSUME Sound, OutcomeInv, [Next]_vars
  PROVE  Life!LifeNext
<1>a. /\ Safe /\ RegistryInv /\ NeverDeleted
      /\ runs \in [RunIds -> RunRow] /\ slot \in [Slots -> SlotState]
  BY DEF Sound, Safe, Typed, TypeOK, BackendTypeOK
<1>1. ASSUME NEW s \in Slots, Coroutine(s)
      PROVE  Life!LifeNext
  <2>1. Executing(s) => RunOf(s) \in RunIds
    BY <1>a DEF Safe, Typed, SlotInv, WorkingSlot, Executing, At, RunOf
  <2>. QED BY <1>1, <2>1, ExecutionLives, ClaimLives
<1>2. ASSUME NEW j \in Jobs, Client(j)
      PROVE  Life!LifeNext
  <2>1. UNCHANGED slot
    BY <1>2 DEF Client, ClientEnqueues, ClientCancels
  <2>2. Kept({})
    BY <2>1 DEF Kept, Executing, Claiming, At
  <2>3. CASE ClientEnqueues(j)
    <3>1. PICK q \in RunIds : CreateRun(q, j)
      BY <2>3 DEF ClientEnqueues, Enqueue
    <3>. QED BY <1>a, <2>2, <3>1, Creates
  <2>4. CASE ClientCancels(j)
    <3>. DEFINE some == {q \in RunIds : runs[q].job = j /\ InFlight(q)}
    <3>1. \A q \in RunIds : IF q \in some THEN runs'[q].status = "cancelled"
                                          ELSE runs'[q] = runs[q]
      BY <1>a, <2>4, CancelOnRuns DEF ClientCancels, InFlight
    <3>2. \A q \in some : LifeOf(q) \in {"waiting", "held"}
      BY LifeCases DEF InFlight
    <3>3. \A q \in RunIds : LifeOf(q)' = IF q \in some THEN "cancelled" ELSE LifeOf(q)
      BY <3>1, LifeCases
    <3>4. \A q \in RunIds : HoldersOf(q)' = HoldersOf(q)
      BY <2>2 DEF Kept, HoldersOf, RunOf
    <3>. HIDE DEF some
    <3>5. some \in SUBSET RunIds
      BY DEF some
    <3>6. Life!Cancel(some)
      BY <3>2, <3>3, <3>4, <3>5 DEF Life!Cancel, HoldersOf
    <3>. QED BY <3>5, <3>6 DEF Life!LifeNext
  <2>. QED BY <1>2, <2>3, <2>4 DEF Client
<1>3. CASE ~(\E s \in Slots : Coroutine(s)) /\ ~(\E j \in Jobs : Client(j))
  <2>. DEFINE gone == {t \in Slots : ~Executing(t)'}
  <2>1. /\ \A r \in RunIds : runs'[r].status = runs[r].status
        /\ \A t \in Slots :
             \/ slot'[t] = Idle
             \/ /\ slot'[t].run = slot[t].run
                /\ \/ slot'[t].pc = slot[t].pc
                   \/ slot[t].pc = "selected" /\ slot'[t].pc = "outdated"
    BY <1>3, <1>a, OthersKeepRuns DEF Safe, Keeps
  <2>2. \A t \in Slots : Executing(t)' => Executing(t) /\ slot'[t].run = slot[t].run
    BY <2>1 DEF Executing, Claiming, At, Idle
  <2>3. Kept(gone)
    BY <2>2 DEF Kept
  <2>. QED BY <2>1, <2>3, Vanishes
<1>. QED BY <1>1, <1>2, <1>3

\* Claiming, leases, heartbeats, checkpoints, retries, compensation, crashes
\* and cancellations together give each run one holder at a time and one
\* outcome, written by its holder or by a cancellation: where leases hold,
\* every step of the executor is a step of RunLifecycle.
THEOREM ExecutorIsLifecycle == LeasesHold => (Spec => ImplementsLifecycle)
<1>1. Init => Life!LifeInit
  BY DEF Init, BackendInit, NoRun, Idle, Life!LifeInit, LifeOf, Executing, At
<1>2. Sound /\ OutcomeInv /\ [Next]_vars => [Life!LifeNext]_Life!lifeVars
  BY StepLives
<1>. QED BY <1>1, <1>2, OutcomeInvariant, PTL
         DEF Spec, ImplementsLifecycle, Life!LifeSpec

-----------------------------------------------------------------------------
(* A job has one run at a time, and no more runs than its retries allow.    *)

\* Where an execution was before a step, or how it has just begun.
LEMMA StepOnExecutions ==
  ASSUME Sound, [Next]_vars, NEW t \in Slots, Executing(t)'
  PROVE  /\ slot'[t].run \in RunIds
         /\ \/ /\ Executing(t) /\ slot'[t].run = slot[t].run
               /\ slot'[t].pc \notin {"resetAttempts", "abort"}
                    => slot[t].pc \notin {"resetAttempts", "abort"}
               /\ slot'[t].pc = "retryRun"
                    => slot[t].pc = "retryRun" \/ CountFailure(t)
            \/ /\ InFlight(slot'[t].run) /\ slot'[t].pc = "load"
               /\ UNCHANGED jobs
               /\ \A q \in RunIds : runs'[q].job = runs[q].job
<1>a. /\ Safe /\ RegistryInv /\ Typed /\ slot[t] \in SlotState
      /\ slot \in [Slots -> SlotState]
      /\ Executing(t) => slot[t].run \in RunIds
  BY DEF Sound, Safe, Typed, TypeOK, SlotInv, WorkingSlot, Executing, At
<1>1. ASSUME NEW s \in Slots, Executing(s), Coroutine(s)
      PROVE  /\ Executing(t) /\ slot'[t].run = slot[t].run
             /\ slot'[t].pc \notin {"resetAttempts", "abort"}
                  => slot[t].pc \notin {"resetAttempts", "abort"}
             /\ slot'[t].pc = "retryRun"
                  => slot[t].pc = "retryRun" \/ CountFailure(t)
  <2>1. CASE t = s
    BY <1>1, <1>a, <2>1, ExecutionGoesOn DEF Coroutine
  <2>2. CASE t # s
    <3>1. \/ slot'[t] = slot[t]
          \/ slot[t].pc = "selected" /\ slot'[t].pc = "outdated"
      BY <1>1, <1>a, <2>2, ExecutionMoves DEF Coroutine
    <3>. QED BY <3>1 DEF Executing, Claiming, At
  <2>. QED BY <2>1, <2>2
<1>2. ASSUME NEW s \in Slots, ~Executing(s), Coroutine(s)
      PROVE  \/ Executing(t) /\ slot'[t] = slot[t]
             \/ /\ slot'[t].run \in RunIds
                /\ InFlight(slot'[t].run) /\ slot'[t].pc = "load"
                /\ UNCHANGED jobs
                /\ \A q \in RunIds : runs'[q].job = runs[q].job
  <2>1. CASE t = s
    <3>1. /\ UNCHANGED jobs
          /\ slot[s].run \in RunIds /\ ClaimMatches(slot[s].run)
          /\ slot'[s].pc = "load" /\ slot'[s].run = slot[s].run
          /\ \A q \in RunIds \ {slot[s].run} : runs'[q] = runs[q]
          /\ runs'[slot[s].run].job = runs[slot[s].run].job
      BY <1>2, <1>a, <2>1, ClaimMoves DEF Coroutine
    <3>. QED BY <2>1, <3>1 DEF ClaimMatches, InFlight
  <2>2. CASE t # s
    <3>1. \/ slot'[t] = slot[t]
          \/ slot[t].pc = "selected" /\ slot'[t].pc = "outdated"
      BY <1>2, <1>a, <2>2, ClaimMoves DEF Coroutine
    <3>. QED BY <3>1 DEF Executing, Claiming, At
  <2>. QED BY <2>1, <2>2
<1>3. CASE \E j \in Jobs : Client(j)
  BY <1>3, <1>a DEF Client, ClientEnqueues, ClientCancels, Executing, Claiming, At
<1>4. CASE ~(\E s \in Slots : Coroutine(s)) /\ ~(\E j \in Jobs : Client(j))
  <2>1. \/ slot'[t] = Idle
        \/ /\ slot'[t].run = slot[t].run
           /\ \/ slot'[t].pc = slot[t].pc
              \/ slot[t].pc = "selected" /\ slot'[t].pc = "outdated"
    BY <1>4, <1>a, OthersKeepRuns DEF Keeps
  <2>. QED BY <1>a, <2>1 DEF Executing, Claiming, At, Idle
<1>. QED BY <1>1, <1>2, <1>3, <1>4, <1>a

\* A step inserts a run, or it takes no run into flight.
LEMMA StepOnRunRows ==
  ASSUME Typed, RunsKnown, NoneReused, RegistryInv, [Next]_vars,
         ~(\E j \in Jobs : ClientEnqueues(j)), ~(\E s \in Slots : RetryWholeRun(s)),
         NEW r \in RunIds
  PROVE  runs'[r].job = runs[r].job /\ (InFlight(r)' => InFlight(r))
<1>a. /\ runs \in [RunIds -> RunRow] /\ slot \in [Slots -> SlotState]
  BY DEF Typed, TypeOK, BackendTypeOK
<1>1. ASSUME NEW s \in Slots, Executing(s), Coroutine(s)
      PROVE  runs'[r].job = runs[r].job /\ (InFlight(r)' => InFlight(r))
  <2>1. PICK q \in RunIds : q = RunOf(s)
    BY <1>1, <1>a DEF Typed, SlotInv, WorkingSlot, Executing, At, RunOf
  <2>2. CASE r # q
    <3>1. runs'[r] = runs[r]
      BY <1>1, <1>a, <2>1, <2>2, ExecutionWrites DEF Coroutine
    <3>. QED BY <3>1 DEF InFlight
  <2>3. CASE r = q
    <3>1. /\ runs'[r].job = runs[r].job
          /\ \/ runs'[r].status = runs[r].status
             \/ runs'[r].status \in {"failed", "cancelled", "succeeded"}
             \/ IsRunning(r)
      BY <1>1, <1>a, <2>1, <2>3, ExecutionWrites DEF Coroutine
    <3>. QED BY <3>1 DEF InFlight, IsRunning
  <2>. QED BY <2>2, <2>3
<1>2. ASSUME NEW s \in Slots, ~Executing(s), Coroutine(s)
      PROVE  runs'[r].job = runs[r].job /\ (InFlight(r)' => InFlight(r))
  <2>1. \/ runs'[r] = runs[r]
        \/ ClaimMatches(r) /\ runs'[r].job = runs[r].job
    BY <1>2, <1>a, ClaimMoves DEF Coroutine
  <2>. QED BY <2>1 DEF ClaimMatches, InFlight
<1>3. ASSUME NEW j \in Jobs, ClientCancels(j)
      PROVE  runs'[r].job = runs[r].job /\ (InFlight(r)' => InFlight(r))
  <2>1. runs[r] \in RunRow
    BY <1>a
  <2>2. \/ runs'[r] = runs[r]
        \/ runs'[r] = [runs[r] EXCEPT !.status = "cancelled", !.lease = "none"]
    BY <1>3 DEF ClientCancels, CancelJob
  <2>. QED BY <2>1, <2>2 DEF InFlight, RunRow
<1>4. CASE ~(\E s \in Slots : Coroutine(s)) /\ ~(\E j \in Jobs : Client(j))
  BY <1>4, <1>a, OthersKeepRuns DEF InFlight
<1>. QED BY <1>1, <1>2, <1>3, <1>4 DEF Client

\* What an inserted run does to the runs of each job.
LEMMA NewRunOfJob ==
  ASSUME runs \in [RunIds -> RunRow], NoneReused, NEW q, NEW j, CreateRun(q, j),
         NEW r \in RunIds
  PROVE  /\ r # q => runs'[r] = runs[r]
         /\ r = q => runs[r].status \in {"absent", "deleted"} /\ runs'[r].job = j
<1>1. CASE r # q
  BY <1>1 DEF CreateRun
<1>2. CASE r = q
  <2>1. q \in q .. MaxRuns
    BY <1>2, BackendAssumption DEF RunIds
  <2>2. runs' = [runs EXCEPT ![q] = [NoRun EXCEPT !.status = "ready", !.job = j]]
        /\ FreeId(runs[q].status)
    BY <2>1 DEF CreateRun, NextId
  <2>. QED BY <1>2, <2>2 DEF FreeId, NoRun
<1>. QED BY <1>1, <1>2

\* Without a new run, no run and no job gets busy.
LEMMA BusyShrinks ==
  ASSUME Sound, [Next]_vars,
         ~(\E j \in Jobs : ClientEnqueues(j)), ~(\E s \in Slots : RetryWholeRun(s)),
         NEW r \in RunIds, Busy(r)'
  PROVE  Busy(r)
<1>1. InFlight(r)' => InFlight(r)
  BY StepOnRunRows DEF Sound, Safe
<1>2. ASSUME NEW t \in Slots, Executing(t)', slot'[t].run = r
      PROVE  Busy(r)
  BY <1>2, StepOnExecutions DEF Busy, Held, RunOf
<1>. QED BY <1>1, <1>2 DEF Busy, Held, RunOf

LEMMA AbsentJobsStay ==
  ASSUME Sound, [Next]_vars, NEW j \in Jobs, jobs'[j].status = "absent"
  PROVE  jobs[j].status = "absent"
<1>a. /\ Safe /\ RegistryInv
      /\ jobs \in [Jobs -> JobRow] /\ jobs[j] \in JobRow
  BY DEF Sound, Safe, Typed, TypeOK, BackendTypeOK
<1>1. CASE Client(j)
  <2>1. \/ jobs' = [jobs EXCEPT ![j] = [status |-> "active", attempts |-> 0]]
        \/ jobs' = [jobs EXCEPT ![j].status = IF JobExists(j) THEN "cancelled" ELSE @]
    BY <1>1 DEF Client, ClientEnqueues, ClientCancels, Enqueue, CancelJob
  <2>. QED BY <1>a, <2>1 DEF JobRow
<1>2. ASSUME NEW s \in Slots, CountFailure(s) \/ ResetAttempts(s)
      PROVE  jobs[j].status = "absent"
  <2>1. \E i, n : jobs' = [jobs EXCEPT ![i].attempts = n]
    BY <1>2 DEF CountFailure, ResetAttempts, IncrementJobAttempts, ResetJobAttempts
  <2>. QED BY <1>a, <2>1 DEF JobRow
<1>. QED BY <1>a, <1>1, <1>2, StepOnJobs DEF Safe

LEMMA StepSerial ==
  ASSUME LeasesHold, Sound, OutcomeInv, SerialInv, [Next]_vars
  PROVE  SerialInv'
<1>a. /\ Safe /\ RunsKnown /\ Typed /\ NoneReused /\ NeverDeleted /\ ExclusiveExecution
      /\ runs \in [RunIds -> RunRow] /\ jobs \in [Jobs -> JobRow]
      /\ slot \in [Slots -> SlotState]
  BY DEF Sound, Safe, Typed, TypeOK, BackendTypeOK, LeaseInv
<1>1. ASSUME ~(\E j \in Jobs : ClientEnqueues(j)), ~(\E s \in Slots : RetryWholeRun(s))
      PROVE  SerialInv'
  <2>1. \A r \in RunIds : runs'[r].job = runs[r].job /\ (Busy(r)' => Busy(r))
    BY <1>1, StepOnRunRows, BusyShrinks DEF Sound, Safe
  <2>2. \A r, q \in RunIds :
          Busy(r)' /\ Busy(q)' /\ runs'[r].job = runs'[q].job => r = q
    BY <2>1 DEF SerialInv
  <2>3. \A j \in Jobs : jobs'[j].status = "absent" => RunsOf(j)' = {}
    BY <2>1, AbsentJobsStay DEF SerialInv, RunsOf
  <2>. QED BY <2>2, <2>3 DEF SerialInv
<1>2. ASSUME NEW j \in Jobs, ClientEnqueues(j)
      PROVE  SerialInv'
  <2>1. PICK q \in RunIds : CreateRun(q, j)
    BY <1>2 DEF ClientEnqueues, Enqueue
  <2>2. /\ jobs[j].status = "absent" /\ UNCHANGED slot
        /\ jobs'[j].status = "active" /\ \A i \in Jobs \ {j} : jobs'[i] = jobs[i]
    BY <1>a, <1>2 DEF ClientEnqueues, Enqueue, FreeId, NeverDeleted
  <2>3. \A r \in RunIds : runs[r].job # j
    BY <2>2 DEF SerialInv, RunsOf
  <2>4. /\ \A r \in RunIds \ {q} : runs'[r] = runs[r]
        /\ runs'[q].job = j
    BY <1>a, <2>1, NewRunOfJob
  <2>5. \A r \in RunIds \ {q} : Busy(r)' => Busy(r)
    BY <2>2, <2>4 DEF Busy, InFlight, Held, Executing, Claiming, At, RunOf
  <2>6. \A r, p \in RunIds :
          Busy(r)' /\ Busy(p)' /\ runs'[r].job = runs'[p].job => r = p
    BY <2>3, <2>4, <2>5 DEF SerialInv
  <2>7. \A i \in Jobs : jobs'[i].status = "absent" => RunsOf(i)' = {}
    BY <2>2, <2>4 DEF SerialInv, RunsOf
  <2>. QED BY <2>6, <2>7 DEF SerialInv
<1>3. ASSUME NEW s \in Slots, RetryWholeRun(s)
      PROVE  SerialInv'
  <2>1. PICK q \in RunIds : CreateRun(q, JobOf(s))
    BY <1>3 DEF RetryWholeRun
  <2>2. /\ Executing(s) /\ At(s, "retryRun") /\ UNCHANGED jobs
        /\ slot' = [slot EXCEPT ![s] = Idle]
    BY <1>3 DEF RetryWholeRun, Release, Executing, Claiming, At
  <2>3. PICK r0 \in RunIds : r0 = RunOf(s)
    BY <1>a, <2>2 DEF Typed, SlotInv, WorkingSlot, Executing, At, RunOf
  <2>4. /\ runs[r0].status # "absent" /\ runs[r0].status \in Over
        /\ runs[r0].status # "deleted" /\ runs[r0].job \in Jobs
    BY <1>a, <2>2, <2>3
    DEF OutcomeInv, Outcome, SlotOutcome, At, RunsKnown, NeverDeleted
  <2>5. /\ \A r \in RunIds \ {q} : runs'[r] = runs[r]
        /\ runs'[q].job = runs[r0].job /\ q # r0
    BY <1>a, <2>1, <2>3, <2>4, NewRunOfJob DEF JobOf
  <2>6. \A t \in Slots : Executing(t)' => t # s /\ Executing(t) /\ slot'[t] = slot[t]
    BY <1>a, <2>2 DEF Executing, Claiming, At, Idle
  <2>7. \A r \in RunIds \ {q} : Busy(r)' => Busy(r)
    BY <2>5, <2>6 DEF Busy, InFlight, Held, RunOf
  <2>8. ~Busy(r0)' /\ Busy(r0)
    <3>1. ~InFlight(r0)'
      BY <2>4, <2>5 DEF InFlight, Over, Terminal
    <3>2. ~Held(r0)'
      BY <1>a, <2>2, <2>3, <2>6 DEF Held, ExclusiveExecution, RunOf
    <3>. QED BY <2>2, <2>3, <3>1, <3>2 DEF Busy, Held
  <2>9. \A r \in RunIds \ {q} : Busy(r)' => runs[r].job # runs[r0].job
    BY <2>7, <2>8 DEF SerialInv
  <2>10. \A r, p \in RunIds :
           Busy(r)' /\ Busy(p)' /\ runs'[r].job = runs'[p].job => r = p
    BY <2>5, <2>7, <2>9 DEF SerialInv
  <2>11. \A i \in Jobs : jobs'[i].status = "absent" => RunsOf(i)' = {}
    BY <2>2, <2>4, <2>5 DEF SerialInv, RunsOf
  <2>. QED BY <2>10, <2>11 DEF SerialInv
<1>. QED BY <1>1, <1>2, <1>3

LEMMA SerialInvariant == LeasesHold => (Spec => [](Sound /\ OutcomeInv /\ SerialInv))
<1>1. SUFFICES ASSUME LeasesHold PROVE Spec => [](Sound /\ OutcomeInv /\ SerialInv)
  OBVIOUS
<1>2. Init => SerialInv
  <2>. SUFFICES ASSUME Init PROVE SerialInv
    OBVIOUS
  <2>1. \A r \in RunIds : ~Busy(r)
    BY DEF Init, BackendInit, NoRun, Idle, Busy, InFlight, Held, Executing, At
  <2>2. \A r \in RunIds : runs[r].job \notin Jobs
    BY BackendAssumption DEF Init, BackendInit, NoRun
  <2>. QED BY <2>1, <2>2 DEF SerialInv, RunsOf
<1>3. Sound /\ OutcomeInv /\ SerialInv /\ [Next]_vars => SerialInv'
  BY <1>1, StepSerial
<1>. QED BY <1>1, <1>2, <1>3, OutcomeInvariant, PTL DEF Spec

\* A job never has two runs waiting or running, whole-run retries included: a
\* run is retried by its own execution, after its last write to it, and a
\* job's first run comes with the job itself (worker.py _finalize_failed,
\* sqlalchemy.py enqueue).
THEOREM OneRunAtATime == LeasesHold => (Spec => []SerialRuns)
<1>1. SerialInv => SerialRuns
  BY DEF SerialInv, SerialRuns, Busy
<1>. QED BY <1>1, SerialInvariant, PTL

-----------------------------------------------------------------------------
(* The runs of a job against the failures counted for it.                   *)

LEMMA RunsCounted ==
  ASSUME NEW j
  PROVE  IsFiniteSet(RunsOf(j)) /\ Cardinality(RunsOf(j)) \in Nat
<1>1. IsFiniteSet(RunIds)
  BY FS_Interval, BackendAssumption DEF RunIds
<1>2. RunsOf(j) \in SUBSET RunIds
  BY DEF RunsOf
<1>3. IsFiniteSet(RunsOf(j))
  BY <1>1, <1>2, FS_Subset
<1>. QED BY <1>3, FS_CardinalityType

\* No two coroutines execute runs of one job.
LEMMA JobsApart ==
  ASSUME Sound, SerialInv, NEW s \in Slots, NEW t \in Slots,
         Executing(s), Executing(t), JobOf(s) = JobOf(t)
  PROVE  s = t
<1>1. RunOf(s) \in RunIds /\ RunOf(t) \in RunIds /\ ExclusiveExecution
  BY DEF Sound, Safe, Typed, SlotInv, WorkingSlot, LeaseInv, Executing, At, RunOf
<1>2. Busy(RunOf(s)) /\ Busy(RunOf(t))
  BY DEF Busy, Held
<1>3. RunOf(s) = RunOf(t)
  BY <1>1, <1>2 DEF SerialInv, JobOf
<1>. QED BY <1>1, <1>3 DEF ExclusiveExecution

\* The count of a job that has a run changes at the end of such a run only.
LEMMA StepOnAttempts ==
  ASSUME Sound, SerialInv, [Next]_vars, NEW j \in Jobs, RunsOf(j) # {}
  PROVE  /\ jobs[j].attempts \in Nat
         /\ \/ jobs'[j].attempts = jobs[j].attempts
            \/ \E s \in Slots : /\ CountFailure(s) /\ JobOf(s) = j
                                /\ AttemptsAfter(j) = jobs[j].attempts + 1
                                /\ jobs'[j].attempts = jobs[j].attempts + 1
            \/ \E s \in Slots : /\ ResetAttempts(s) /\ JobOf(s) = j
                                /\ jobs'[j].attempts = 0
<1>a. /\ Safe /\ RegistryInv /\ jobs \in [Jobs -> JobRow]
      /\ jobs[j] \in JobRow /\ jobs[j].attempts \in Nat
  BY DEF Sound, Safe, Typed, TypeOK, BackendTypeOK, JobRow
<1>b. JobExists(j)
  BY DEF SerialInv, Sound, NeverDeleted, JobExists
<1>1. CASE Client(j)
  <2>1. ~ClientEnqueues(j)
    BY <1>b DEF ClientEnqueues, Enqueue, FreeId, JobExists, Sound, NeverDeleted
  <2>2. jobs' = [jobs EXCEPT ![j].status = "cancelled"]
    BY <1>1, <1>b, <2>1 DEF Client, ClientCancels, CancelJob
  <2>. QED BY <1>a, <2>2 DEF JobRow
<1>2. ASSUME NEW s \in Slots, CountFailure(s)
      PROVE  \/ jobs'[j].attempts = jobs[j].attempts
             \/ /\ JobOf(s) = j /\ AttemptsAfter(j) = jobs[j].attempts + 1
                /\ jobs'[j].attempts = jobs[j].attempts + 1
  BY <1>2, <1>a, <1>b
  DEF CountFailure, IncrementJobAttempts, AttemptsAfter, JobRow
<1>3. ASSUME NEW s \in Slots, ResetAttempts(s)
      PROVE  \/ jobs'[j].attempts = jobs[j].attempts
             \/ JobOf(s) = j /\ jobs'[j].attempts = 0
  BY <1>3, <1>a, <1>b DEF ResetAttempts, ResetJobAttempts, JobRow
<1>. QED BY <1>a, <1>1, <1>2, <1>3, StepOnJobs DEF Safe

LEMMA CountWithoutNewRun ==
  ASSUME LeasesHold, Sound, OutcomeInv, SerialInv, CountInv, [Next]_vars,
         ~(\E j \in Jobs : ClientEnqueues(j)), ~(\E s \in Slots : RetryWholeRun(s))
  PROVE  CountInv'
<1>a. /\ Safe /\ RunsKnown /\ Typed
      /\ \A t \in Slots : Executing(t) => RunOf(t) \in RunIds
  BY DEF Sound, Safe, Typed, SlotInv, WorkingSlot, Executing, At, RunOf
<1>b. /\ \A j : RunsOf(j)' = RunsOf(j)
      /\ \A r \in RunIds : runs'[r].job = runs[r].job /\ (InFlight(r)' => InFlight(r))
  BY StepOnRunRows DEF RunsOf, Sound, Safe
<1>c. ASSUME NEW r \in RunIds, Busy(r)
      PROVE  runs[r].job \in Jobs /\ RunsOf(runs[r].job) # {}
  <2>1. runs[r].status # "absent"
    BY <1>c, <1>a DEF Busy, InFlight, Held, RunsKnown, Executing
  <2>. QED BY <1>a, <2>1 DEF RunsKnown, RunsOf
<1>d. ASSUME NEW t \in Slots, Executing(t)
      PROVE  /\ JobOf(t) \in Jobs
             /\ jobs[JobOf(t)].attempts \in Nat
             /\ \/ jobs'[JobOf(t)].attempts = jobs[JobOf(t)].attempts
                \/ /\ CountFailure(t)
                   /\ AttemptsAfter(JobOf(t)) = jobs[JobOf(t)].attempts + 1
                   /\ jobs'[JobOf(t)].attempts = jobs[JobOf(t)].attempts + 1
                \/ At(t, "resetAttempts")
  <2>1. Busy(RunOf(t)) /\ RunOf(t) \in RunIds
    BY <1>d, <1>a DEF Busy, Held
  <2>2. JobOf(t) \in Jobs /\ RunsOf(JobOf(t)) # {}
    BY <1>c, <2>1 DEF JobOf
  <2>3. ASSUME NEW s \in Slots, CountFailure(s) \/ ResetAttempts(s), JobOf(s) = JobOf(t)
        PROVE  s = t
    BY <1>d, <2>3, JobsApart DEF CountFailure, ResetAttempts, Executing, Claiming, At
  <2>. QED BY <2>2, <2>3, StepOnAttempts DEF ResetAttempts
<1>e. \A t \in Slots : Executing(t)' /\ Executing(t) /\ slot'[t].run = slot[t].run
                         => JobOf(t)' = JobOf(t)
  BY <1>a, <1>b DEF JobOf, RunOf
<1>1. ASSUME NEW r \in RunIds, InFlight(r)'
      PROVE  (Cardinality(RunsOf(runs[r].job)) <= 1 + jobs[runs[r].job].attempts)'
  <2>. DEFINE j == runs[r].job
  <2>1. InFlight(r) /\ Busy(r) /\ j \in Jobs /\ RunsOf(j) # {}
    BY <1>1, <1>b, <1>c DEF Busy
  <2>2. ASSUME NEW s \in Slots, ResetAttempts(s), JobOf(s) = j
        PROVE  FALSE
    <3>1. Executing(s) /\ At(s, "resetAttempts")
      BY <2>2 DEF ResetAttempts, Executing, Claiming, At
    <3>2. Busy(RunOf(s)) /\ RunOf(s) \in RunIds
      BY <1>a, <3>1 DEF Busy, Held
    <3>3. RunOf(s) = r
      BY <2>1, <2>2, <3>2 DEF SerialInv, JobOf
    <3>. QED BY <2>1, <3>1, <3>3
             DEF OutcomeInv, Outcome, SlotOutcome, At, InFlight, Over, Terminal
  <2>3. /\ jobs[j].attempts \in Nat
        /\ jobs'[j].attempts \in {jobs[j].attempts, jobs[j].attempts + 1}
    BY <2>1, <2>2, StepOnAttempts
  <2>4. Cardinality(RunsOf(j)) <= 1 + jobs[j].attempts
    BY <2>1 DEF CountInv
  <2>. QED BY <1>b, <2>3, <2>4, RunsCounted
<1>2. ASSUME NEW t \in Slots, Executing(t)', slot'[t].pc \notin {"resetAttempts", "abort"}
      PROVE  (Cardinality(RunsOf(JobOf(t))) <= 1 + jobs[JobOf(t)].attempts)'
  <2>1. CASE /\ Executing(t) /\ slot'[t].run = slot[t].run
             /\ slot[t].pc \notin {"resetAttempts", "abort"}
    <3>1. Cardinality(RunsOf(JobOf(t))) <= 1 + jobs[JobOf(t)].attempts
      BY <2>1 DEF CountInv
    <3>2. /\ jobs[JobOf(t)].attempts \in Nat
          /\ jobs'[JobOf(t)].attempts \in
               {jobs[JobOf(t)].attempts, jobs[JobOf(t)].attempts + 1}
      BY <1>d, <2>1 DEF At
    <3>3. Cardinality(RunsOf(JobOf(t))) <= 1 + jobs'[JobOf(t)].attempts
      BY <3>1, <3>2, RunsCounted
    <3>. QED BY <1>2, <1>b, <1>e, <2>1, <3>3
  <2>2. CASE InFlight(slot'[t].run) /\ UNCHANGED jobs /\ slot'[t].run \in RunIds
    <3>1. JobOf(t)' = runs[slot'[t].run].job
      BY <1>b, <2>2 DEF JobOf, RunOf
    <3>2. Cardinality(RunsOf(JobOf(t)')) <= 1 + jobs[JobOf(t)'].attempts
      BY <2>2, <3>1 DEF CountInv
    <3>. QED BY <1>b, <2>2, <3>2
  <2>. QED BY <1>2, <2>1, <2>2, StepOnExecutions
<1>3. ASSUME NEW t \in Slots, slot'[t].pc = "retryRun"
      PROVE  (/\ Cardinality(RunsOf(JobOf(t))) <= jobs[JobOf(t)].attempts
              /\ jobs[JobOf(t)].attempts <= Retries)'
  <2>1. Executing(t)'
    BY <1>3 DEF Executing, Claiming, At
  <2>2. /\ Executing(t) /\ slot'[t].run = slot[t].run
        /\ slot[t].pc = "retryRun" \/ CountFailure(t)
    BY <1>3, <2>1, StepOnExecutions
  <2>3. JobOf(t)' = JobOf(t)
    BY <1>e, <2>1, <2>2
  <2>4. CASE slot[t].pc = "retryRun"
    <3>1. jobs'[JobOf(t)].attempts = jobs[JobOf(t)].attempts
      BY <1>d, <2>2, <2>4 DEF CountFailure, At
    <3>. QED BY <1>b, <2>3, <2>4, <3>1 DEF CountInv, At
  <2>5. CASE CountFailure(t)
    <3>1. slot[t].pc = "increment"
      BY <2>5 DEF CountFailure, At
    <3>2. AttemptsAfter(JobOf(t)) <= Retries
      <4>1. slot \in [Slots -> SlotState]
        BY <1>a DEF Typed, TypeOK
      <4>. QED BY <1>3, <2>5, <4>1 DEF CountFailure, Release, Idle
    <3>3. /\ jobs'[JobOf(t)].attempts <= Retries
          /\ jobs'[JobOf(t)].attempts = jobs[JobOf(t)].attempts + 1
          /\ jobs[JobOf(t)].attempts \in Nat
      <4>. DEFINE j == JobOf(t)
      <4>1. /\ jobs \in [Jobs -> JobRow] /\ j \in Jobs
            /\ jobs[j] \in JobRow /\ jobs[j].attempts \in Nat
        BY <1>a, <1>d, <2>2 DEF Typed, TypeOK, BackendTypeOK, JobRow
      <4>2. JobExists(j)
        <5>1. RunsOf(j) # {}
          BY <1>a, <2>2 DEF RunsOf, JobOf
        <5>. QED BY <4>1, <5>1 DEF SerialInv, Sound, NeverDeleted, JobExists
      <4>3. jobs' = [jobs EXCEPT ![j].attempts = jobs[j].attempts + 1]
        BY <2>5, <4>1, <4>2 DEF CountFailure, IncrementJobAttempts
      <4>. QED BY <3>2, <4>1, <4>2, <4>3 DEF AttemptsAfter, JobRow
    <3>4. Cardinality(RunsOf(JobOf(t))) <= 1 + jobs[JobOf(t)].attempts
      BY <2>2, <3>1 DEF CountInv
    <3>. QED BY <1>b, <2>3, <3>3, <3>4, RunsCounted
  <2>. QED BY <2>2, <2>4, <2>5
<1>4. RunsBounded'
  BY <1>b DEF CountInv, RunsBounded
<1>. QED BY <1>1, <1>2, <1>3, <1>4 DEF CountInv, At

\* A client's job comes with its first run.
LEMMA CountFirstRun ==
  ASSUME Sound, SerialInv, CountInv, NEW j \in Jobs, ClientEnqueues(j)
  PROVE  CountInv'
<1>a. /\ Safe /\ RunsKnown /\ NoneReused
      /\ runs \in [RunIds -> RunRow] /\ jobs \in [Jobs -> JobRow]
      /\ \A t \in Slots : Executing(t) => RunOf(t) \in RunIds
  BY DEF Sound, Safe, Typed, TypeOK, BackendTypeOK, SlotInv, WorkingSlot,
         Executing, At, RunOf
<1>1. PICK q \in RunIds : CreateRun(q, j)
  BY DEF ClientEnqueues, Enqueue
<1>2. /\ RunsOf(j) = {} /\ UNCHANGED slot
      /\ jobs'[j].attempts = 0 /\ \A i \in Jobs \ {j} : jobs'[i] = jobs[i]
  BY <1>a DEF ClientEnqueues, Enqueue, FreeId, Sound, NeverDeleted, SerialInv
<1>3. /\ \A r \in RunIds \ {q} : runs'[r] = runs[r]
      /\ runs'[q].job = j /\ runs[q].status = "absent"
  BY <1>a, <1>1, NewRunOfJob DEF Sound, NeverDeleted
<1>4. RunsOf(j)' = {q} /\ \A i \in Jobs \ {j} : RunsOf(i)' \subseteq RunsOf(i)
  BY <1>2, <1>3 DEF RunsOf
<1>5. Cardinality(RunsOf(j)') = 1
  BY <1>4, FS_Singleton
<1>6. \A i \in Jobs \ {j} :
        /\ Cardinality(RunsOf(i)') <= Cardinality(RunsOf(i))
        /\ Cardinality(RunsOf(i)) \in Nat /\ Cardinality(RunsOf(i)') \in Nat
        /\ jobs[i].attempts \in Nat
  <2>. TAKE i \in Jobs \ {j}
  <2>1. IsFiniteSet(RunsOf(i)) /\ RunsOf(i)' \in SUBSET RunsOf(i)
    BY <1>4, RunsCounted
  <2>2. jobs[i].attempts \in Nat
    BY <1>a DEF JobRow
  <2>. QED BY <2>1, <2>2, FS_Subset, FS_CardinalityType
<1>7. ASSUME NEW t \in Slots, Executing(t)
      PROVE  JobOf(t)' = JobOf(t) /\ JobOf(t) \in Jobs \ {j}
  <2>1. RunOf(t) \in RunIds \ {q} /\ runs[RunOf(t)].job \in Jobs
    BY <1>7, <1>a, <1>3 DEF RunsKnown, Executing
  <2>. QED BY <1>2, <1>3, <2>1 DEF JobOf, RunOf, RunsOf
<1>8. ASSUME NEW r \in RunIds, InFlight(r)'
      PROVE  (Cardinality(RunsOf(runs[r].job)) <= 1 + jobs[runs[r].job].attempts)'
  <2>1. CASE r = q
    BY <1>2, <1>3, <1>5, <2>1
  <2>2. CASE r # q
    <3>1. runs'[r] = runs[r] /\ InFlight(r) /\ runs[r].job \in Jobs \ {j}
      BY <1>8, <1>a, <1>2, <1>3, <2>2 DEF InFlight, RunsKnown, RunsOf
    <3>2. Cardinality(RunsOf(runs[r].job)) <= 1 + jobs[runs[r].job].attempts
      BY <3>1 DEF CountInv
    <3>. QED BY <1>2, <1>6, <3>1, <3>2
  <2>. QED BY <2>1, <2>2
<1>9. ASSUME NEW t \in Slots, Executing(t)', slot'[t].pc \notin {"resetAttempts", "abort"}
      PROVE  (Cardinality(RunsOf(JobOf(t))) <= 1 + jobs[JobOf(t)].attempts)'
  <2>1. Executing(t) /\ slot[t].pc \notin {"resetAttempts", "abort"}
    BY <1>9, <1>2 DEF Executing, Claiming, At
  <2>2. Cardinality(RunsOf(JobOf(t))) <= 1 + jobs[JobOf(t)].attempts
    BY <2>1 DEF CountInv
  <2>. QED BY <1>2, <1>6, <1>7, <2>1, <2>2
<1>10. ASSUME NEW t \in Slots, slot'[t].pc = "retryRun"
       PROVE  (/\ Cardinality(RunsOf(JobOf(t))) <= jobs[JobOf(t)].attempts
               /\ jobs[JobOf(t)].attempts <= Retries)'
  <2>1. Executing(t) /\ At(t, "retryRun")
    BY <1>10, <1>2 DEF Executing, Claiming, At
  <2>2. /\ Cardinality(RunsOf(JobOf(t))) <= jobs[JobOf(t)].attempts
        /\ jobs[JobOf(t)].attempts <= Retries
    BY <2>1 DEF CountInv
  <2>. QED BY <1>2, <1>6, <1>7, <2>1, <2>2
<1>11. RunsBounded'
  <2>. SUFFICES ASSUME NEW i \in Jobs
                PROVE  Cardinality(RunsOf(i)') <= 1 + Retries
    BY DEF RunsBounded
  <2>1. CASE i = j
    BY <1>5, <2>1, WorkerAssumption
  <2>2. CASE i # j
    BY <1>6, <2>2, WorkerAssumption DEF CountInv, RunsBounded
  <2>. QED BY <2>1, <2>2
<1>. QED BY <1>8, <1>9, <1>10, <1>11 DEF CountInv, At

\* A whole-run retry.
LEMMA CountRetriedRun ==
  ASSUME Sound, SerialInv, CountInv, NEW s \in Slots, RetryWholeRun(s)
  PROVE  CountInv'
<1>a. /\ Safe /\ RunsKnown /\ NoneReused
      /\ runs \in [RunIds -> RunRow] /\ jobs \in [Jobs -> JobRow]
      /\ slot \in [Slots -> SlotState]
      /\ \A t \in Slots : Executing(t) => RunOf(t) \in RunIds
  BY DEF Sound, Safe, Typed, TypeOK, BackendTypeOK, SlotInv, WorkingSlot,
         Executing, At, RunOf
<1>b. PICK j \in Jobs : j = JobOf(s)
  BY <1>a DEF RetryWholeRun, At, RunsKnown, JobOf, Executing, Claiming
<1>1. PICK q \in RunIds : CreateRun(q, j)
  BY <1>b DEF RetryWholeRun
<1>2. /\ At(s, "retryRun") /\ Executing(s) /\ UNCHANGED jobs
      /\ slot' = [slot EXCEPT ![s] = Idle]
  BY DEF RetryWholeRun, Release, Executing, Claiming, At
<1>3. /\ \A r \in RunIds \ {q} : runs'[r] = runs[r]
      /\ runs'[q].job = j /\ runs[q].status = "absent"
  BY <1>a, <1>1, NewRunOfJob DEF Sound, NeverDeleted
<1>4. /\ RunsOf(j)' \subseteq RunsOf(j) \cup {q}
      /\ \A i \in Jobs \ {j} : RunsOf(i)' \subseteq RunsOf(i)
  BY <1>3 DEF RunsOf
<1>5. \A i \in Jobs : /\ Cardinality(RunsOf(i)) \in Nat /\ Cardinality(RunsOf(i)') \in Nat
                      /\ jobs[i].attempts \in Nat
                      /\ Cardinality(RunsOf(i)') <= Cardinality(RunsOf(i)) + 1
                      /\ i # j => Cardinality(RunsOf(i)') <= Cardinality(RunsOf(i))
  <2>. TAKE i \in Jobs
  <2>1. IsFiniteSet(RunsOf(i)) /\ Cardinality(RunsOf(i)) \in Nat
    BY RunsCounted
  <2>2. /\ IsFiniteSet(RunsOf(i) \cup {q})
        /\ Cardinality(RunsOf(i) \cup {q}) <= Cardinality(RunsOf(i)) + 1
    <3>1. /\ IsFiniteSet(RunsOf(i) \cup {q})
          /\ Cardinality(RunsOf(i) \cup {q})
               \in {Cardinality(RunsOf(i)), Cardinality(RunsOf(i)) + 1}
      BY <2>1, FS_AddElement
    <3>. QED BY <2>1, <3>1
  <2>3. RunsOf(i)' \in SUBSET (RunsOf(i) \cup {q})
    BY <1>4
  <2>4. /\ IsFiniteSet(RunsOf(i)')
        /\ Cardinality(RunsOf(i)') <= Cardinality(RunsOf(i) \cup {q})
    BY <2>2, <2>3, FS_Subset
  <2>5. Cardinality(RunsOf(i)') \in Nat /\ Cardinality(RunsOf(i) \cup {q}) \in Nat
    BY <2>2, <2>4, FS_CardinalityType
  <2>6. ASSUME i # j
        PROVE  Cardinality(RunsOf(i)') <= Cardinality(RunsOf(i))
    <3>1. RunsOf(i)' \in SUBSET RunsOf(i)
      BY <1>4, <2>6
    <3>. QED BY <2>1, <3>1, FS_Subset
  <2>7. jobs[i].attempts \in Nat
    BY <1>a DEF JobRow
  <2>. QED BY <2>1, <2>2, <2>4, <2>5, <2>6, <2>7
<1>6. Cardinality(RunsOf(j)) <= jobs[j].attempts /\ jobs[j].attempts <= Retries
  BY <1>2, <1>b DEF CountInv
<1>7. ASSUME NEW t \in Slots, Executing(t)'
      PROVE  /\ Executing(t) /\ slot'[t] = slot[t]
             /\ JobOf(t)' = JobOf(t) /\ JobOf(t) \in Jobs \ {j}
  <2>1. t # s /\ Executing(t) /\ slot'[t] = slot[t]
    BY <1>7, <1>a, <1>2 DEF Executing, Claiming, At, Idle
  <2>2. RunOf(t) \in RunIds \ {q} /\ runs[RunOf(t)].job \in Jobs
    BY <1>a, <1>3, <2>1 DEF RunsKnown, Executing
  <2>3. JobOf(t) # j
    BY <1>2, <1>b, <2>1, JobsApart
  <2>. QED BY <1>3, <2>1, <2>2, <2>3 DEF JobOf, RunOf
<1>8. ASSUME NEW r \in RunIds, InFlight(r)'
      PROVE  (Cardinality(RunsOf(runs[r].job)) <= 1 + jobs[runs[r].job].attempts)'
  <2>1. CASE runs'[r].job = j
    BY <1>2, <1>3, <1>5, <1>6, <2>1
  <2>2. CASE runs'[r].job # j
    <3>1. runs'[r] = runs[r] /\ InFlight(r) /\ runs[r].job \in Jobs
      BY <1>8, <1>a, <1>3, <2>2 DEF InFlight, RunsKnown
    <3>2. Cardinality(RunsOf(runs[r].job)) <= 1 + jobs[runs[r].job].attempts
      BY <3>1 DEF CountInv
    <3>. QED BY <1>2, <1>5, <2>2, <3>1, <3>2
  <2>. QED BY <2>1, <2>2
<1>9. ASSUME NEW t \in Slots, Executing(t)', slot'[t].pc \notin {"resetAttempts", "abort"}
      PROVE  (Cardinality(RunsOf(JobOf(t))) <= 1 + jobs[JobOf(t)].attempts)'
  <2>1. Cardinality(RunsOf(JobOf(t))) <= 1 + jobs[JobOf(t)].attempts
    BY <1>7, <1>9 DEF CountInv
  <2>. QED BY <1>2, <1>5, <1>7, <1>9, <2>1
<1>10. ASSUME NEW t \in Slots, slot'[t].pc = "retryRun"
       PROVE  (/\ Cardinality(RunsOf(JobOf(t))) <= jobs[JobOf(t)].attempts
               /\ jobs[JobOf(t)].attempts <= Retries)'
  <2>1. Executing(t)'
    BY <1>10 DEF Executing, Claiming, At
  <2>2. /\ Cardinality(RunsOf(JobOf(t))) <= jobs[JobOf(t)].attempts
        /\ jobs[JobOf(t)].attempts <= Retries
    BY <1>7, <1>10, <2>1 DEF CountInv, At
  <2>. QED BY <1>2, <1>5, <1>7, <2>1, <2>2
<1>11. RunsBounded'
  <2>. SUFFICES ASSUME NEW i \in Jobs
                PROVE  Cardinality(RunsOf(i)') <= 1 + Retries
    BY DEF RunsBounded
  <2>1. CASE i = j
    BY <1>3, <1>5, <1>6, <2>1, WorkerAssumption
  <2>2. CASE i # j
    BY <1>5, <2>2, WorkerAssumption DEF CountInv, RunsBounded
  <2>. QED BY <2>1, <2>2
<1>. QED BY <1>8, <1>9, <1>10, <1>11 DEF CountInv, At

\* A job runs once and then at most Retries times more, whatever crashes or
\* fails: a whole-run retry follows a counted failure, the count is reset by a
\* success alone, and no run of the job is in flight then (worker.py
\* _finalize_failed, _run).
THEOREM RunsAreBounded == LeasesHold => (Spec => []RunsBounded)
<1>1. SUFFICES ASSUME LeasesHold PROVE Spec => []RunsBounded
  OBVIOUS
<1>2. Init => CountInv
  <2>. SUFFICES ASSUME Init PROVE CountInv
    OBVIOUS
  <2>1. \A r \in RunIds : ~InFlight(r) /\ runs[r].job \notin Jobs
    BY BackendAssumption DEF Init, BackendInit, NoRun, InFlight
  <2>2. \A s \in Slots : ~Executing(s) /\ ~At(s, "retryRun")
    BY DEF Init, Idle, Executing, At
  <2>3. RunsBounded
    <3>1. \A j \in Jobs : RunsOf(j) = {}
      BY <2>1 DEF RunsOf
    <3>2. \A j \in Jobs : Cardinality(RunsOf(j)) = 0
      BY <3>1, FS_EmptySet
    <3>3. 0 <= 1 + Retries
      BY WorkerAssumption
    <3>. QED BY <3>2, <3>3 DEF RunsBounded
  <2>. QED BY <2>1, <2>2, <2>3 DEF CountInv
<1>3. Sound /\ OutcomeInv /\ SerialInv /\ CountInv /\ [Next]_vars => CountInv'
  BY <1>1, CountWithoutNewRun, CountFirstRun, CountRetriedRun
<1>4. CountInv => RunsBounded
  BY DEF CountInv
<1>. QED BY <1>1, <1>2, <1>3, <1>4, SerialInvariant, PTL DEF Spec

-----------------------------------------------------------------------------
(* What has been undone when a run fails.                                   *)

\* A coroutine writes to the tasks of its own run only, and before its end.
LEMMA StepOnTasks ==
  ASSUME Typed, NEW s \in Slots, Coroutine(s), NEW r \in RunIds
  PROVE  \/ tasks'[r] = tasks[r]
         \/ /\ Executing(s) /\ r = RunOf(s)
            /\ \/ StartTask(s) \/ SucceedTask(s) \/ CancelTask(s) \/ RetryTask(s)
               \/ FailTask(s) \/ UndoTask(s)
<1>a. tasks \in [RunIds -> [Positions -> TaskRow]]
  BY DEF Safe, Typed, TypeOK, BackendTypeOK
<1>1. CASE \/ StartTask(s) \/ SucceedTask(s) \/ CancelTask(s) \/ RetryTask(s)
           \/ FailTask(s) \/ UndoTask(s)
  <2>1. Executing(s)
    BY <1>1 DEF StartTask, SucceedTask, CancelTask, RetryTask, FailTask, UndoTask,
                Executing, Claiming, At
  <2>2. \E p, row : tasks' = [tasks EXCEPT ![RunOf(s)][p] = row]
    BY <1>1 DEF StartTask, SucceedTask, CancelTask, RetryTask, FailTask, UndoTask,
                TaskStarts, TaskSucceeds, TaskIsCancelled, TaskFails,
                TaskIsCompensated, UpdateTask
  <2>. QED BY <1>a, <1>1, <2>1, <2>2
<1>2. CASE UNCHANGED tasks
  BY <1>2
<1>. QED
  BY <1>1, <1>2
  DEF Coroutine, CallStep, TaskStep, SelectRun, ClaimSelected, MissSelected,
      LoadJob, CancelLoaded, FailLoaded, ReadRecords, PersistExhausted,
      Checkpoint, CancelTaskRun, PersistRetry, ReleaseForRetry, LeaveRun,
      PersistFailure, Gather, FinalizeFailed, CountFailure, RetryWholeRun,
      Complete, ResetAttempts, FailUnhandled, TaskReturns, TaskRaises,
      TaskAborts, CallFails, tables

\* Nobody is about to write to a run that has failed.
LEMMA FailedStaysUndone ==
  ASSUME Sound, OutcomeInv, UndoneInv, [Next]_vars,
         NEW r \in RunIds, runs[r].status = "failed"
  PROVE  tasks'[r] = tasks[r]
<1>1. ASSUME NEW s \in Slots, Coroutine(s)
      PROVE  tasks'[r] = tasks[r]
  <2>1. ASSUME Executing(s), r = RunOf(s)
        PROVE  slot[s].pc \in {"increment", "retryRun"}
    BY <2>1 DEF OutcomeInv, Outcome, SlotOutcome, UndoneInv
  <2>. QED BY <1>1, <2>1, StepOnTasks
           DEF Sound, Safe, StartTask, SucceedTask, CancelTask, RetryTask, FailTask,
               UndoTask, At
<1>2. CASE \E j \in Jobs : Client(j)
  BY <1>2 DEF Client, ClientEnqueues, ClientCancels
<1>. QED BY <1>1, <1>2, OthersKeepRuns DEF Sound, Safe

LEMMA StepUndone ==
  ASSUME LeasesHold, NothingAborts, Sound, ProgressInv, OutcomeInv, SerialInv,
         UndoneInv, [Next]_vars
  PROVE  UndoneInv'
<1>a. /\ NoneReused /\ Safe /\ Typed /\ RunsKnown /\ RegistryInv /\ ExclusiveExecution
      /\ slot \in [Slots -> SlotState] /\ runs \in [RunIds -> RunRow]
      /\ tasks \in [RunIds -> [Positions -> TaskRow]]
      /\ faults \in [FaultKinds -> Nat]
      /\ \A t \in Slots : Executing(t) => RunOf(t) \in RunIds
  BY DEF Sound, Safe, Typed, TypeOK, BackendTypeOK, LeaseInv, SlotInv,
         WorkingSlot, Executing, At, RunOf
<1>1. ASSUME NEW t \in Slots
      PROVE  /\ slot'[t].pc \in {"failLoaded", "abort", "failRun"}
                  => /\ Executing(t) /\ slot'[t].run = slot[t].run
                     /\ \/ slot'[t].pc = slot[t].pc
                        \/ slot'[t].pc = "failLoaded" /\ LoadJob(t)
                        \/ slot'[t].pc = "abort" /\ CallFails(t)
                        \/ slot'[t].pc = "failRun" /\ (Gather(t) \/ UndoTask(t))
  <2>. SUFFICES ASSUME slot'[t].pc \in {"failLoaded", "abort", "failRun"}
                PROVE  /\ Executing(t) /\ slot'[t].run = slot[t].run
                       /\ \/ slot'[t].pc = slot[t].pc
                          \/ slot'[t].pc = "failLoaded" /\ LoadJob(t)
                          \/ slot'[t].pc = "abort" /\ CallFails(t)
                          \/ slot'[t].pc = "failRun" /\ (Gather(t) \/ UndoTask(t))
    OBVIOUS
  <2>1. Executing(t)' /\ slot'[t].pc \notin {"load", "idle", "selected", "outdated", "leave"}
    BY DEF Executing, Claiming, At
  <2>2. Executing(t) /\ slot'[t].run = slot[t].run
    BY <2>1, StepOnExecutions
  <2>3. CASE Coroutine(t)
    <3>1. slot[t] \in SlotState
      BY <1>a
    <3>2. slot'[t] # Idle /\ slot'[t] # [slot[t] EXCEPT !.pc = "leave"]
      BY <2>1, <3>1 DEF Idle, SlotState
    <3>. QED BY <1>a, <2>1, <2>2, <2>3, <3>2, ExecutionMoves DEF Coroutine
  <2>4. ASSUME NEW s \in Slots, s # t, Coroutine(s)
        PROVE  slot'[t] = slot[t]
    BY <1>a, <2>1, <2>4, OthersStay DEF Coroutine
  <2>5. CASE \E j \in Jobs : Client(j)
    BY <2>2, <2>5 DEF Client, ClientEnqueues, ClientCancels
  <2>6. CASE ~(\E s \in Slots : Coroutine(s)) /\ ~(\E j \in Jobs : Client(j))
    <3>1. \/ slot'[t] = Idle
          \/ slot'[t].pc = slot[t].pc
          \/ slot'[t].pc = "outdated"
      BY <1>a, <2>6, OthersKeepRuns
    <3>2. slot'[t].pc = slot[t].pc
      BY <2>1, <3>1 DEF Idle
    <3>. QED BY <2>2, <3>2
  <2>. QED BY <2>2, <2>3, <2>4, <2>5, <2>6
<1>2. ASSUME NEW t \in Slots
      PROVE  slot'[t].pc \notin {"failLoaded", "abort"}
  <2>1. ASSUME LoadJob(t), slot'[t].pc = "failLoaded"
        PROVE  FALSE
    <3>1. Executing(t) /\ RunOf(t) \in RunIds
      BY <1>1, <1>a, <2>1
    <3>2. JobOf(t) \in Jobs /\ RunsOf(JobOf(t)) # {}
      BY <1>a, <3>1 DEF RunsKnown, Executing, JobOf, RunsOf
    <3>3. JobExists(JobOf(t))
      BY <3>2 DEF SerialInv, Sound, NeverDeleted, JobExists
    <3>4. <<WorkerOf[t], JobOf(t)>> \in Resolvable
      BY <3>2, WorkerAssumption DEF NothingAborts
    <3>5. Goto(t, "cancelLoaded") \/ Goto(t, "records")
      BY <2>1, <3>3, <3>4 DEF LoadJob
    <3>. QED BY <1>a, <2>1, <3>5 DEF Goto, SlotState
  <2>2. ~CallFails(t)
    BY <1>a DEF CallFails, Fault, NothingAborts, FaultKinds
  <2>. QED BY <1>1, <2>1, <2>2 DEF UndoneInv
<1>3. ASSUME NEW t \in Slots, slot'[t].pc = "failRun"
      PROVE  Succeeded(RunOf(t))' = {}
  <2>a. Executing(t) /\ RunOf(t) \in RunIds
    BY <1>a, <1>1, <1>3
  <2>b. PICK r \in RunIds : r = slot[t].run
    BY <2>a DEF RunOf
  <2>1. /\ Executing(t) /\ slot'[t].run = r /\ RunOf(t) = r
        /\ slot[t].pc = "failRun" \/ Gather(t) \/ UndoTask(t)
    BY <2>a, <2>b, <1>1, <1>3 DEF RunOf
  <2>2. SUFFICES Succeeded(r)' = {}
    BY <2>1 DEF RunOf, Succeeded
  <2>3. CASE Gather(t)
    <3>1. Succeeded(r) = {} /\ UNCHANGED tasks
      BY <1>a, <1>3, <2>1, <2>3 DEF Gather, SlotState, tables
    <3>. QED BY <3>1 DEF Succeeded
  <2>4. CASE UndoTask(t)
    <3>1. PICK p \in slot[t].todo :
            /\ TaskIsCompensated(r, p)
            /\ slot[t].todo = {p}
      BY <1>a, <1>3, <2>1, <2>4 DEF UndoTask, SlotState
    <3>2. slot[t].todo = Succeeded(r)
      BY <2>1, <2>4 DEF ProgressInv, SlotProgress, UndoTask, At
    <3>3. /\ p \in Positions /\ tasks[r][p] \in TaskRow
          /\ tasks[r][p].status = "succeeded"
      BY <1>a, <2>1, <3>1, <3>2 DEF Succeeded
    <3>4. Writes(r, p, [tasks[r][p] EXCEPT !.status = "compensated"])
      BY <3>1, <3>3 DEF TaskIsCompensated, UpdateTask, TaskExists, Writes
    <3>5. [tasks[r][p] EXCEPT !.status = "compensated"].status = "compensated"
      BY <3>3 DEF TaskRow
    <3>6. Succeeded(r)' = Succeeded(r) \ {p}
      BY <1>a, <2>1, <3>3, <3>4, <3>5, TaskWrite
    <3>. QED BY <3>1, <3>2, <3>6
  <2>5. CASE slot[t].pc = "failRun"
    <3>1. Succeeded(r) = {}
      BY <2>1, <2>5 DEF UndoneInv, At
    <3>2. tasks'[r] = tasks[r]
      <4>1. ASSUME NEW s \in Slots, Coroutine(s)
            PROVE  tasks'[r] = tasks[r]
        <5>1. Executing(s) /\ r = RunOf(s) => s = t
          BY <1>a, <2>1 DEF ExclusiveExecution
        <5>. QED BY <1>a, <2>1, <2>5, <4>1, <5>1, StepOnTasks
                 DEF StartTask, SucceedTask, CancelTask, RetryTask, FailTask,
                     UndoTask, At
      <4>2. CASE \E j \in Jobs : Client(j)
        BY <4>2 DEF Client, ClientEnqueues, ClientCancels
      <4>. QED BY <1>a, <4>1, <4>2, OthersKeepRuns
    <3>. QED BY <3>1, <3>2 DEF Succeeded
  <2>. QED BY <2>1, <2>3, <2>4, <2>5
<1>4. ASSUME NEW r \in RunIds, runs'[r].status = "failed"
      PROVE  Succeeded(r)' = {}
  <2>1. CASE runs[r].status = "failed"
    <3>1. tasks'[r] = tasks[r]
      BY <2>1, FailedStaysUndone
    <3>. QED BY <2>1, <3>1 DEF UndoneInv, FailedAfterUndo, Succeeded
  <2>2. CASE runs[r].status # "failed"
    <3>1. PICK s \in Slots : Executing(s) /\ r = RunOf(s) /\ FinalizeFailed(s)
      <4>1. ASSUME NEW s \in Slots, Executing(s), Coroutine(s)
            PROVE  r = RunOf(s) /\ FinalizeFailed(s)
        <5>1. CASE r # RunOf(s)
          <6>1. PICK q \in RunIds : q = RunOf(s)
            BY <1>a, <4>1
          <6>2. CASE ~RetryWholeRun(s)
            BY <1>4, <1>a, <2>2, <4>1, <5>1, <6>1, <6>2, ExecutionWrites DEF Coroutine
          <6>3. CASE RetryWholeRun(s)
            <7>1. PICK p : CreateRun(p, JobOf(s))
              BY <6>3 DEF RetryWholeRun
            <7>. QED BY <1>4, <1>a, <2>2, <7>1 DEF CreateRun, NoRun
          <6>. QED BY <6>2, <6>3
        <5>2. CASE r = RunOf(s)
          <6>1. FailLoaded(s) \/ FinalizeFailed(s) \/ FailUnhandled(s)
            BY <1>4, <1>a, <2>2, <4>1, <5>2, ExecutionWrites DEF Coroutine
          <6>. QED BY <5>2, <6>1 DEF UndoneInv, FailLoaded, FailUnhandled, At
        <5>. QED BY <5>1, <5>2
      <4>2. ASSUME NEW s \in Slots, ~Executing(s), Coroutine(s)
            PROVE  FALSE
        <5>1. \/ UNCHANGED runs
              \/ /\ slot[s].run \in RunIds
                 /\ \A q \in RunIds \ {slot[s].run} : runs'[q] = runs[q]
                 /\ runs'[slot[s].run].status = "running"
          BY <1>a, <4>2, ClaimMoves DEF Coroutine
        <5>. QED BY <1>4, <2>2, <5>1
      <4>3. ASSUME NEW j \in Jobs, Client(j)
            PROVE  FALSE
        <5>1. CASE ClientEnqueues(j)
          <6>1. PICK p : CreateRun(p, j)
            BY <5>1 DEF ClientEnqueues, Enqueue
          <6>. QED BY <1>4, <1>a, <2>2, <6>1 DEF CreateRun, NoRun
        <5>2. CASE ClientCancels(j)
          BY <1>4, <1>a, <2>2, <5>2, CancelOnRuns DEF ClientCancels
        <5>. QED BY <4>3, <5>1, <5>2 DEF Client
      <4>. QED BY <1>4, <1>a, <2>2, <4>1, <4>2, <4>3, OthersKeepRuns
    <3>2. Succeeded(r) = {} /\ UNCHANGED tasks
      BY <3>1 DEF UndoneInv, FinalizeFailed
    <3>. QED BY <3>2 DEF Succeeded
  <2>. QED BY <2>1, <2>2
<1>. QED BY <1>2, <1>3, <1>4 DEF UndoneInv, FailedAfterUndo, At

\* A run that failed has been compensated as a whole, whenever processes die
\* in between, as long as no database call fails and every class is there.
THEOREM FailureIsUndone ==
  LeasesHold /\ NothingAborts => (Spec => []FailedAfterUndo)
<1>1. SUFFICES ASSUME LeasesHold, NothingAborts PROVE Spec => []FailedAfterUndo
  OBVIOUS
<1>2. Init => UndoneInv
  BY DEF Init, BackendInit, NoRun, Idle, UndoneInv, FailedAfterUndo, At
<1>3. Sound /\ ProgressInv /\ OutcomeInv /\ SerialInv /\ UndoneInv /\ [Next]_vars
        => UndoneInv'
  BY <1>1, StepUndone
<1>4. UndoneInv => FailedAfterUndo
  BY DEF UndoneInv
<1>. QED BY <1>1, <1>2, <1>3, <1>4, SerialInvariant, ProgressInvariant, PTL DEF Spec
=============================================================================
