------------------------------ MODULE TriesProofs ------------------------------
(***************************************************************************)
(* Proofs that crashes and failed calls cost a task or a checkpoint one    *)
(* try each and no more: how often a task is tried, and how far the        *)
(* persisted ctx lags behind the tasks that have succeeded.                *)
(***************************************************************************)
EXTENDS OutcomeProofs

\* A task of a run has a try left, interruptions apart, and what the slot has
\* read of it is still so.
Room(r, p) == tasks[r][p].attempts < Budget(p) + Interruptions

Fresh(s, p) == /\ tasks[RunOf(s)][p].attempts = slot[s].tried[p]
               /\ Room(RunOf(s), p)

\* Between the read of the records and the outcome of the try.
Trying == {"body", "retryCtx", "retryTask", "failCtx", "failTask"}

SlotTries(s) ==
  LET pos == slot[s].pos
  IN  /\ slot[s].pc \in {"load", "records", "release"} =>
           \A p \in Positions \ Succeeded(RunOf(s)) : Room(RunOf(s), p)
      /\ slot[s].pc \in AtTask \cup {"checkpoint"} =>
           \A p \in Positions : p > pos => Fresh(s, p)
      /\ At(s, "start") => Fresh(s, pos)
      /\ slot[s].pc \in Trying =>
           slot[s].tried[pos] < Budget(pos) + Interruptions
      /\ slot[s].pc \in {"retryCtx", "retryTask"} => Attempt(s) < Budget(pos)

TriesInv ==
  /\ AttemptsBounded
  /\ \A r \in RunIds, p \in Positions : ~TaskExists(r, p) => tasks[r][p].attempts = 0
  /\ \A r \in RunIds :
       ~Held(r) /\ runs[r].status \notin Over =>
         \A p \in Positions \ Succeeded(r) : Room(r, p)
  /\ \A s \in Slots : Executing(s) => SlotTries(s)

\* The results a run has not persisted.
Unsaved(r) == Succeeded(r) \ runs[r].ctx

LagInv ==
  /\ \A r \in RunIds :
       Cardinality(Unsaved(r))
         <= (IF Checkpointing(r) THEN 1 ELSE 0) + Interruptions
  /\ \A s \in Slots :
       Executing(s) => Cardinality(Succeeded(RunOf(s)) \ slot[s].ctx) <= Interruptions
  /\ \A s \in Slots :
       slot[s].pc \in {"succeed", "checkpoint"} => slot[s].pos \in slot[s].ctx
  /\ \A r \in RunIds : runs[r].status = "absent" => Succeeded(r) = {}

-----------------------------------------------------------------------------
(* What a step does to an execution, to the rows of a run, and to the       *)
(* count of interruptions.                                                  *)

LEMMA StepInterrupts ==
  ASSUME Typed, [Next]_vars
  PROVE  /\ Interruptions \in Nat /\ Interruptions' \in Nat
         /\ Interruptions <= Interruptions'
         /\ (\E s \in Slots : CallFails(s)) \/ (\E w \in Workers : Crash(w))
              => Interruptions' = Interruptions + 1
<1>a. /\ faults \in [FaultKinds -> Nat]
      /\ "crash" \in FaultKinds /\ "dbError" \in FaultKinds
  BY DEF Typed, TypeOK, FaultKinds
<1>1. \/ UNCHANGED faults
      \/ \E kind \in FaultKinds : faults' = [faults EXCEPT ![kind] = @ + 1]
  BY DEF Next, vars, CallStep, TaskStep, SelectRun, ClaimSelected, MissSelected,
         LoadJob, CancelLoaded, FailLoaded, ReadRecords, PersistExhausted,
         StartTask, SucceedTask, Checkpoint, CancelTask, CancelTaskRun,
         PersistRetry, RetryTask, ReleaseForRetry, LeaveRun, PersistFailure,
         FailTask, Gather, UndoTask, FinalizeFailed, CountFailure, RetryWholeRun,
         Complete, ResetAttempts, FailUnhandled, TaskReturns, TaskRaises,
         TaskAborts, CallFails, BeatStep, BeatBegins, BeatChecks, BeatRenews,
         BeatDrops, Crash, Stop, Restart,
         BeatDies, LeaseRunsOut, LeaseLapses, ClientEnqueues, ClientCancels,
         Fault, FaultKinds, processVars, workerVars
<1>2. /\ faults["crash"] \in Nat /\ faults["dbError"] \in Nat
      /\ faults'["crash"] \in {faults["crash"], faults["crash"] + 1}
      /\ faults'["dbError"] \in {faults["dbError"], faults["dbError"] + 1}
  BY <1>a, <1>1
<1>3. ASSUME (\E s \in Slots : CallFails(s)) \/ (\E w \in Workers : Crash(w))
      PROVE  Interruptions' = Interruptions + 1
  <2>1. \E kind \in {"crash", "dbError"} : faults' = [faults EXCEPT ![kind] = @ + 1]
    BY <1>3 DEF CallFails, Crash, Fault
  <2>. QED BY <1>a, <2>1 DEF Interruptions
<1>. QED BY <1>2, <1>3 DEF Interruptions

\* An execution and its tasks, when somebody else takes a step.
Untouched(t) ==
  /\ slot'[t].pc = slot[t].pc /\ slot'[t].run = slot[t].run
  /\ slot'[t].pos = slot[t].pos /\ slot'[t].tried = slot[t].tried
  /\ slot'[t].ctx = slot[t].ctx
  /\ tasks'[slot[t].run] = tasks[slot[t].run]

\* An execution goes on by its own step, stays untouched, or has just begun.
LEMMA StepOnExecution ==
  ASSUME Sound, [Next]_vars, NEW t \in Slots, Executing(t)'
  PROVE  \/ Executing(t) /\ Coroutine(t)
         \/ Executing(t) /\ Untouched(t)
         \/ /\ ~Executing(t) /\ slot[t].run \in RunIds
            /\ ClaimMatches(slot[t].run) /\ UNCHANGED tasks
            /\ slot'[t].pc = "load" /\ slot'[t].run = slot[t].run
            /\ slot'[t].ctx = runs[slot[t].run].ctx
<1>a. /\ Safe /\ RegistryInv /\ Typed /\ slot[t] \in SlotState
      /\ slot \in [Slots -> SlotState] /\ ExclusiveExecution
      /\ \A s \in Slots : Executing(s) => slot[s].run \in RunIds
  BY DEF Sound, Safe, Typed, TypeOK, SlotInv, WorkingSlot, Executing, At, LeaseInv
<1>1. ASSUME NEW s \in Slots, t # s, Coroutine(s)
      PROVE  Executing(t) /\ Untouched(t)
  <2>1. slot'[t] = slot[t] /\ Executing(t)
    BY <1>1, <1>a, OthersStay DEF Coroutine, Executing, Claiming, At
  <2>2. Executing(s) => slot[t].run # slot[s].run
    BY <1>1, <1>a, <2>1 DEF ExclusiveExecution, RunOf
  <2>3. tasks'[slot[t].run] = tasks[slot[t].run]
    BY <1>1, <1>a, <2>1, <2>2, StepOnTasks DEF RunOf
  <2>. QED BY <2>1, <2>3 DEF Untouched
<1>2. CASE ~Executing(t) /\ Coroutine(t)
  BY <1>2, <1>a, ClaimMoves DEF Coroutine
<1>3. CASE \E j \in Jobs : Client(j)
  BY <1>3 DEF Client, ClientEnqueues, ClientCancels, Executing, Claiming, At, Untouched
<1>4. CASE ~(\E s \in Slots : Coroutine(s)) /\ ~(\E j \in Jobs : Client(j))
  <2>1. /\ UNCHANGED tasks
        /\ \/ slot'[t] = Idle
           \/ /\ Keeps(t)
              /\ slot'[t].pc = slot[t].pc \/ slot'[t].pc = "outdated"
    BY <1>4, <1>a, OthersKeepRuns
  <2>. QED BY <2>1 DEF Executing, Claiming, At, Idle, Keeps, Untouched
<1>. QED BY <1>1, <1>2, <1>3, <1>4

\* The others end executions by a crash only.
LEMMA OnlyCrashEnds ==
  ASSUME Typed, [Next]_vars, NEW t \in Slots, Executing(t),
         ~(\E s \in Slots : Coroutine(s))
  PROVE  \/ slot'[t].pc = slot[t].pc /\ slot'[t].run = slot[t].run
         \/ \E w \in Workers : Crash(w)
<1>a. slot \in [Slots -> SlotState] /\ slot[t] \in SlotState
  BY DEF Typed, TypeOK
<1>1. CASE \E w \in Workers : BeatBegins(w) \/ BeatChecks(w)
  BY <1>a, <1>1, BeatKeepsSlots
<1>2. CASE \E w \in Workers : BeatRenews(w)
  <2>1. slot'[t] = slot[t]
    BY <1>a, <1>2 DEF BeatRenews, Outdate, Executing, Claiming, At
  <2>. QED BY <2>1
<1>3. CASE UNCHANGED slot
  BY <1>3
<1>. QED
  BY <1>1, <1>2, <1>3
  DEF Next, vars, BeatStep, BeatDrops, Stop, Restart, BeatDies, LeaseRunsOut,
      LeaseLapses, ClientEnqueues, ClientCancels, Coroutine

\* The tasks and the checkpoint of a run stay unless its own execution takes a
\* step, and an execution of it stays where it is or is cut short.
LEMMA StepOnRow ==
  ASSUME Sound, [Next]_vars, NEW r \in RunIds
  PROVE  /\ runs[r].status # "absent" => runs'[r].status # "absent"
         /\ \/ \E s \in Slots : Executing(s) /\ Coroutine(s) /\ RunOf(s) = r
            \/ /\ tasks'[r] = tasks[r]
               /\ runs[r].status # "absent" => runs'[r].ctx = runs[r].ctx
               /\ \A t \in Slots : Executing(t) /\ RunOf(t) = r =>
                    \/ slot'[t].pc = slot[t].pc /\ slot'[t].run = slot[t].run
                    \/ Interruptions' = Interruptions + 1
<1>a. /\ Safe /\ RegistryInv /\ Typed /\ NoneReused /\ RunsKnown
      /\ slot \in [Slots -> SlotState]
      /\ \A s \in Slots : Executing(s) => RunOf(s) \in RunIds
  BY DEF Sound, Safe, Typed, TypeOK, SlotInv, WorkingSlot, Executing, At, RunOf
<1>1. ASSUME NEW s \in Slots, Executing(s), Coroutine(s)
      PROVE  /\ runs[r].status # "absent" => runs'[r].status # "absent"
             /\ \/ RunOf(s) = r
                \/ /\ tasks'[r] = tasks[r]
                   /\ runs[r].status # "absent" => runs'[r].ctx = runs[r].ctx
                   /\ \A t \in Slots : Executing(t) /\ RunOf(t) = r =>
                        slot'[t].pc = slot[t].pc /\ slot'[t].run = slot[t].run
  <2>1. PICK q \in RunIds : q = RunOf(s)
    BY <1>1, <1>a
  <2>2. \/ runs'[q].status = runs[q].status
        \/ runs'[q].status \in {"failed", "cancelled", "ready", "succeeded"}
    BY <1>1, <1>a, <2>1, ExecutionWrites DEF Coroutine
  <2>3. runs[r].status # "absent" /\ r # q => runs'[r] = runs[r]
    BY <1>1, <1>a, <2>1, ExecutionWrites DEF Coroutine
  <2>4. r # q => tasks'[r] = tasks[r]
    BY <1>1, <1>a, <2>1, StepOnTasks
  <2>5. \A t \in Slots : Executing(t) /\ t # s => slot'[t] = slot[t]
    BY <1>1, <1>a, ExecutionMoves DEF Coroutine, Executing, Claiming, At
  <2>. QED BY <2>1, <2>2, <2>3, <2>4, <2>5
<1>2. ASSUME NEW s \in Slots, ~Executing(s), Coroutine(s)
      PROVE  /\ runs[r].status # "absent" => runs'[r].status # "absent"
             /\ tasks'[r] = tasks[r] /\ runs'[r].ctx = runs[r].ctx
             /\ \A t \in Slots : Executing(t) => slot'[t] = slot[t]
  <2>1. \/ UNCHANGED runs
        \/ /\ \A q \in RunIds \ {slot[s].run} : runs'[q] = runs[q]
           /\ runs'[slot[s].run].status = "running"
           /\ runs'[slot[s].run].ctx = runs[slot[s].run].ctx
    BY <1>2, <1>a, ClaimMoves DEF Coroutine
  <2>2. /\ UNCHANGED tasks
        /\ \A t \in Slots : Executing(t) => slot'[t] = slot[t]
    BY <1>2, <1>a, ClaimMoves DEF Coroutine, Executing, Claiming, At
  <2>. QED BY <2>1, <2>2
<1>3. ASSUME NEW j \in Jobs, Client(j)
      PROVE  /\ runs[r].status # "absent" =>
                  runs'[r].status # "absent" /\ runs'[r].ctx = runs[r].ctx
             /\ UNCHANGED <<tasks, slot>>
  <2>1. UNCHANGED <<tasks, slot>>
    BY <1>3 DEF Client, ClientEnqueues, ClientCancels
  <2>. QED BY <1>3, <2>1, ClientOnRuns
<1>4. CASE ~(\E s \in Slots : Coroutine(s)) /\ ~(\E j \in Jobs : Client(j))
  <2>1. /\ tasks'[r] = tasks[r]
        /\ runs'[r].status = runs[r].status /\ runs'[r].ctx = runs[r].ctx
    BY <1>4, <1>a, OthersKeepRuns
  <2>2. \A t \in Slots : Executing(t) =>
          \/ slot'[t].pc = slot[t].pc /\ slot'[t].run = slot[t].run
          \/ Interruptions' = Interruptions + 1
    BY <1>4, <1>a, OnlyCrashEnds, StepInterrupts
  <2>. QED BY <2>1, <2>2
<1>. QED BY <1>1, <1>2, <1>3, <1>4

\* An execution that ends of itself leaves a run that is over, or one that is
\* released for the retry of a task.
LEMMA EndsOver ==
  ASSUME Sound, OutcomeInv, NEW s \in Slots, Executing(s), Coroutine(s),
         ~Executing(s)', ~CallFails(s), ~ReleaseForRetry(s)
  PROVE  runs'[RunOf(s)].status \in Over
<1>1. PICK r \in RunIds : r = RunOf(s)
  BY DEF Sound, Safe, Typed, SlotInv, WorkingSlot, Executing, At, RunOf
<1>a. /\ Typed /\ NoneReused /\ RunsKnown /\ slot \in [Slots -> SlotState]
      /\ slot[s] \in SlotState
      /\ runs \in [RunIds -> RunRow] /\ runs[r] \in RunRow
      /\ runs[r].status # "absent"
  BY <1>1 DEF Sound, Safe, Typed, TypeOK, BackendTypeOK, RunsKnown, Executing
<1>b. IsRunning(r) \/ runs[r].status \in Over
  BY <1>1 DEF Sound, Safe, LeaseInv, HoldsLease, LeaseHeldBy
<1>c. SlotOutcome(s)
  BY DEF OutcomeInv, Outcome
<1>g. \A label \in Labels \ {"idle", "selected", "outdated", "leave"} : ~Goto(s, label)
  BY <1>a DEF Goto, Executing, Claiming, At, SlotState
<1>u. ASSUME NEW cond, NEW row, UpdateRun(r, cond, row)
      PROVE  runs'[r] = IF cond THEN row ELSE runs[r]
  BY <1>a, <1>u DEF UpdateRun
<1>2. CASE FailLoaded(s) \/ FinalizeFailed(s) \/ FailUnhandled(s)
  <2>1. FailRun(r)
    BY <1>1, <1>2 DEF FailLoaded, FinalizeFailed, FailUnhandled
  <2>2. runs'[r] = IF IsRunning(r)
                   THEN [runs[r] EXCEPT !.status = "failed", !.lease = "none"]
                   ELSE runs[r]
    BY <1>u, <2>1 DEF FailRun
  <2>. QED BY <1>1, <1>a, <1>b, <2>2 DEF RunRow, Over, Terminal
<1>3. CASE CancelLoaded(s) \/ CancelTaskRun(s)
  <2>1. CancelRun(r)
    BY <1>1, <1>3 DEF CancelLoaded, CancelTaskRun
  <2>2. runs'[r] = IF RunExists(r)
                   THEN [runs[r] EXCEPT !.status = "cancelled", !.lease = "none"]
                   ELSE runs[r]
    BY <1>u, <2>1 DEF CancelRun
  <2>. QED BY <1>1, <1>a, <2>2 DEF RunRow, Over, Terminal, RunExists
<1>4. CASE CountFailure(s) \/ RetryWholeRun(s) \/ ResetAttempts(s)
  <2>1. slot[s].pc \in {"resetAttempts", "increment", "retryRun"}
    BY <1>4 DEF CountFailure, RetryWholeRun, ResetAttempts, At
  <2>2. runs[r].status \in Over
    BY <1>1, <1>c, <2>1 DEF SlotOutcome
  <2>3. runs'[r].status = runs[r].status
    BY <1>1, <1>4, <1>a, ExecutionWrites
    DEF Coroutine, CountFailure, RetryWholeRun, ResetAttempts, FailLoaded, FinalizeFailed,
        FailUnhandled, CancelLoaded, CancelTaskRun, Complete, At
  <2>. QED BY <1>1, <2>2, <2>3
<1>5. CASE \/ LoadJob(s) \/ ReadRecords(s) \/ PersistExhausted(s) \/ StartTask(s)
           \/ SucceedTask(s) \/ Checkpoint(s) \/ CancelTask(s) \/ PersistRetry(s)
           \/ RetryTask(s) \/ PersistFailure(s) \/ FailTask(s) \/ Gather(s)
           \/ UndoTask(s) \/ Complete(s) \/ TaskStep(s)
  <2>1. CASE \/ ReadRecords(s) \/ Checkpoint(s) \/ Gather(s) \/ UndoTask(s)
             \/ TaskReturns(s)
    <3>1. CASE ReadRecords(s)
      <4>1. PICK p \in 0 .. NTasks, label \in {"complete", "exhausted", "start"} :
              slot' = [slot EXCEPT
                ![s].pc = label, ![s].pos = p,
                ![s].tried = [q \in Positions |-> tasks[RunOf(s)][q].attempts]]
        BY <3>1 DEF ReadRecords
      <4>2. slot'[s].pc = label
        BY <1>a, <4>1 DEF SlotState
      <4>. QED BY <4>2 DEF Executing, Claiming, At
    <3>2. CASE Checkpoint(s) \/ Gather(s) \/ UndoTask(s) \/ TaskReturns(s)
      <4>1. slot'[s].pc \in {"complete", "start", "failRun", "undo", "succeed"}
        BY <1>a, <3>2, BoundsAreNumbers
        DEF Checkpoint, AfterTask, Gather, UndoTask, TaskReturns, SlotState
      <4>. QED BY <4>1 DEF Executing, Claiming, At
    <3>. QED BY <2>1, <3>1, <3>2
  <2>2. CASE \/ LoadJob(s) \/ PersistExhausted(s) \/ StartTask(s) \/ SucceedTask(s)
             \/ CancelTask(s) \/ PersistRetry(s) \/ RetryTask(s) \/ PersistFailure(s)
             \/ FailTask(s) \/ Complete(s) \/ TaskRaises(s) \/ TaskAborts(s)
    <3>1. \E label \in {"cancelLoaded", "failLoaded", "records", "gather", "body",
                        "checkpoint", "cancelRun", "retryTask", "release", "failTask",
                        "resetAttempts", "failCtx", "retryCtx", "cancelTask"} :
            Goto(s, label)
      BY <2>2
      DEF LoadJob, PersistExhausted, StartTask, SucceedTask, CancelTask, PersistRetry,
          RetryTask, PersistFailure, FailTask, Complete, TaskRaises, TaskAborts
    <3>. QED BY <1>g, <3>1 DEF Labels
  <2>. QED BY <1>5, <2>1, <2>2 DEF TaskStep
<1>6. ~SelectRun(s) /\ ~ClaimSelected(s) /\ ~MissSelected(s) /\ ~LeaveRun(s)
  BY DEF SelectRun, ClaimSelected, MissSelected, LeaveRun, Executing, Claiming, At
<1>. QED BY <1>2, <1>3, <1>4, <1>5, <1>6 DEF Coroutine, CallStep

\* What a step does to the attempts of a task.
LEMMA TaskTries ==
  ASSUME Typed, NEW s \in Slots, Executing(s), Coroutine(s),
         NEW r \in RunIds, r = RunOf(s), NEW p \in Positions
  PROVE  /\ \/ /\ tasks'[r][p].attempts = tasks[r][p].attempts
               /\ TaskExists(r, p)' <=> TaskExists(r, p)
            \/ /\ p = slot[s].pos /\ TaskExists(r, p)'
               /\ StartTask(s) \/ RetryTask(s) \/ FailTask(s)
               /\ tasks'[r][p].attempts = Attempt(s)
         /\ RetryTask(s) /\ p = slot[s].pos /\ TaskExists(r, p)
              => tasks'[r][p].attempts = Attempt(s)
<1>a. tasks \in [RunIds -> [Positions -> TaskRow]] /\ tasks[r][p] \in TaskRow
  BY DEF Typed, TypeOK, BackendTypeOK
<1>u. ASSUME NEW q \in Positions, NEW row, UpdateTask(r, q, row)
      PROVE  IF p = q /\ TaskExists(r, q) THEN tasks'[r][p] = row
             ELSE tasks'[r][p] = tasks[r][p]
  BY <1>a, <1>u DEF UpdateTask
<1>1. CASE StartTask(s)
  <2>1. /\ tasks' = [tasks EXCEPT ![r][slot[s].pos] =
                       [status |-> "running", attempts |-> Attempt(s)]]
        /\ ~RetryTask(s)
    BY <1>1 DEF StartTask, TaskStarts, RetryTask, At
  <2>2. \/ tasks'[r][p] = tasks[r][p]
        \/ /\ p = slot[s].pos
           /\ tasks'[r][p] = [status |-> "running", attempts |-> Attempt(s)]
    BY <1>a, <2>1
  <2>. QED BY <1>1, <2>1, <2>2 DEF TaskExists
<1>2. CASE RetryTask(s) \/ FailTask(s)
  <2>1. slot[s].pos \in Positions
    BY <1>2 DEF RetryTask, FailTask, At, Typed, SlotInv, WorkingSlot, TaskLabels
  <2>2. UpdateTask(r, slot[s].pos, [status |-> "failed", attempts |-> Attempt(s)])
    BY <1>2 DEF RetryTask, FailTask, TaskFails
  <2>3. IF p = slot[s].pos /\ TaskExists(r, slot[s].pos)
        THEN tasks'[r][p] = [status |-> "failed", attempts |-> Attempt(s)]
        ELSE tasks'[r][p] = tasks[r][p]
    BY <1>u, <2>1, <2>2
  <2>. QED BY <1>2, <2>3 DEF TaskExists
<1>3. CASE SucceedTask(s) \/ CancelTask(s) \/ UndoTask(s)
  <2>1. \E q \in Positions, status \in {"succeeded", "cancelled", "compensated"} :
          UpdateTask(r, q, [tasks[r][q] EXCEPT !.status = status])
    <3>1. CASE SucceedTask(s) \/ CancelTask(s)
      <4>1. slot[s].pos \in Positions
        BY <3>1 DEF SucceedTask, CancelTask, At, Typed, SlotInv, WorkingSlot, TaskLabels
      <4>. QED BY <3>1, <4>1
               DEF SucceedTask, CancelTask, TaskSucceeds, TaskIsCancelled
    <3>2. CASE UndoTask(s)
      BY <3>2 DEF UndoTask, TaskIsCompensated, Typed, TypeOK, SlotState
    <3>. QED BY <1>3, <3>1, <3>2
  <2>2. PICK q \in Positions, status \in {"succeeded", "cancelled", "compensated"} :
          UpdateTask(r, q, [tasks[r][q] EXCEPT !.status = status])
    BY <2>1
  <2>3. IF p = q /\ TaskExists(r, q)
        THEN tasks'[r][p] = [tasks[r][q] EXCEPT !.status = status]
        ELSE tasks'[r][p] = tasks[r][p]
    BY <1>u, <2>2
  <2>4. ~RetryTask(s)
    BY <1>3 DEF SucceedTask, CancelTask, UndoTask, RetryTask, At
  <2>. QED BY <1>a, <2>3, <2>4 DEF TaskExists, TaskRow
<1>4. CASE tasks'[r] = tasks[r] /\ ~RetryTask(s)
  BY <1>4 DEF TaskExists
<1>. QED BY <1>1, <1>2, <1>3, <1>4, StepOnTasks

\* Once an execution has gone on to one of these, it starts no task any more.
Elsewhere ==
  {"cancelLoaded", "failLoaded", "exhausted", "complete", "gather", "undo", "failRun",
   "increment", "retryRun", "cancelRun", "resetAttempts", "abort"}

\* The tries an execution has left after its own step.
LEMMA ExecutionTries ==
  ASSUME Sound, ProgressInv, TriesInv, [Next]_vars, NEW s \in Slots, Executing(s),
         Coroutine(s), Executing(s)'
  PROVE  SlotTries(s)'
<1>1. PICK r \in RunIds : r = RunOf(s)
  BY DEF Sound, Safe, Typed, SlotInv, WorkingSlot, Executing, At, RunOf
<1>2. PICK pos \in 0 .. NTasks : pos = slot[s].pos
  BY DEF Sound, Safe, Typed, TypeOK, SlotState
<1>a. /\ Typed /\ Typed' /\ slot \in [Slots -> SlotState] /\ slot[s] \in SlotState
      /\ r = slot[s].run
      /\ slot[s].pc \in TaskLabels => pos \in Positions
  BY <1>1, <1>2, StepTyped
  DEF Sound, Safe, Typed, TypeOK, RunOf, SlotInv, WorkingSlot
<1>n. /\ \A p \in Positions : /\ slot[s].tried[p] \in Nat /\ Budget(p) \in Nat
                              /\ tasks[r][p].attempts \in Nat
                              /\ tasks'[r][p].attempts \in Nat
      /\ NTasks \in Nat \ {0} /\ Positions = 0 .. NTasks - 1
      /\ Interruptions \in Nat /\ Interruptions' \in Nat
      /\ Interruptions <= Interruptions'
  <2>1. \A p \in Positions : slot[s].tried[p] \in Nat
    BY <1>a DEF SlotState
  <2>2. \A p \in Positions : tasks[r][p] \in TaskRow /\ tasks'[r][p] \in TaskRow
    BY <1>a DEF Typed, TypeOK, BackendTypeOK
  <2>3. \A p \in Positions : Budget(p) \in Nat
    BY WorkerAssumption DEF Budget
  <2>. QED BY <1>a, <2>1, <2>2, <2>3, BoundsAreNumbers, StepInterrupts
           DEF TaskRow, Positions
<1>t. SlotTries(s) /\ SlotProgress(s) /\ RowProgress(r)
  BY <1>1 DEF TriesInv, ProgressInv
<1>r. \A p \in Positions :
        /\ p # pos => tasks'[r][p].attempts = tasks[r][p].attempts
        /\ ~StartTask(s) /\ ~RetryTask(s) /\ ~FailTask(s)
             => tasks'[r][p].attempts = tasks[r][p].attempts
  BY <1>1, <1>2, <1>a, TaskTries
<1>g. ASSUME NEW label \in Labels, Goto(s, label)
      PROVE  /\ slot'[s].pc = label /\ slot'[s].run = r
             /\ slot'[s].pos = pos /\ slot'[s].tried = slot[s].tried
  <2>1. slot'[s] = [slot[s] EXCEPT !.pc = label]
    BY <1>a, <1>g DEF Goto
  <2>. QED BY <1>2, <1>a, <2>1 DEF SlotState
<1>3. CASE slot'[s].pc \in Elsewhere
  BY <1>3 DEF SlotTries, Elsewhere, AtTask, Trying, At
<1>4. CASE LoadJob(s)
  <2>1. slot[s].pc = "load" /\ tasks'[r] = tasks[r]
    BY <1>4 DEF LoadJob, At, tables
  <2>2. \E label \in {"cancelLoaded", "failLoaded", "records"} : Goto(s, label)
    BY <1>4 DEF LoadJob
  <2>3. slot'[s].pc \in {"cancelLoaded", "failLoaded", "records"} /\ slot'[s].run = r
    BY <1>g, <2>2 DEF Labels
  <2>4. /\ \A p \in Positions \ Succeeded(r) : Room(r, p)
        /\ Succeeded(r)' = Succeeded(r)
    BY <1>1, <1>t, <2>1 DEF SlotTries, Succeeded
  <2>5. \A p \in Positions \ Succeeded(r)' : Room(r, p)'
    BY <1>n, <1>r, <2>1, <2>4 DEF Room
  <2>. QED BY <2>3, <2>5 DEF SlotTries, AtTask, Trying, At, RunOf
<1>f. ASSUME slot'[s].tried = slot[s].tried, slot'[s].run = r,
             slot[s].pc \in AtTask \cup {"checkpoint"}
      PROVE  \A p \in Positions : p > pos => Fresh(s, p)'
  <2>1. \A p \in Positions : p > pos => Fresh(s, p)
    BY <1>2, <1>t, <1>f DEF SlotTries
  <2>2. \A p \in Positions : p > pos => p # pos
    BY <1>2, <1>n
  <2>. QED BY <1>1, <1>2, <1>n, <1>r, <1>f, <2>1, <2>2 DEF Fresh, Room, RunOf
<1>5. CASE ReadRecords(s)
  <2>1. PICK q \in 0 .. NTasks, label \in {"complete", "exhausted", "start"} :
          /\ ResumesAt(r, q)
          /\ label = "start" => q # NTasks
          /\ slot' = [slot EXCEPT
                ![s].pc = label, ![s].pos = q,
                ![s].tried = [p \in Positions |-> tasks[r][p].attempts]]
    BY <1>1, <1>5 DEF ReadRecords
  <2>2. /\ slot'[s].pc = label /\ slot'[s].run = r /\ slot'[s].pos = q
        /\ slot'[s].tried = [p \in Positions |-> tasks[r][p].attempts]
    BY <1>a, <2>1 DEF SlotState
  <2>3. \A p \in Positions : p >= q => p \notin Succeeded(r)
    BY <1>n, <1>t, <2>1 DEF ResumesAt, RowProgress
  <2>4. \A p \in Positions \ Succeeded(r) : Room(r, p)
    BY <1>1, <1>5, <1>t DEF ReadRecords, At, SlotTries
  <2>5. \A p \in Positions : p >= q => Fresh(s, p)'
    <3>1. tasks'[r] = tasks[r]
      BY <1>5 DEF ReadRecords, tables
    <3>. QED BY <1>n, <2>2, <2>3, <2>4, <3>1 DEF Fresh, Room, RunOf
  <2>6. label = "start" => q \in Positions
    BY <1>n, <2>1
  <2>7. CASE label = "start"
    <3>1. Fresh(s, q)' /\ \A p \in Positions : p > q => Fresh(s, p)'
      BY <1>n, <2>5, <2>6, <2>7
    <3>. QED BY <2>2, <2>7, <3>1 DEF SlotTries, AtTask, Trying, At
  <2>. QED BY <1>3, <2>1, <2>2, <2>7 DEF Elsewhere
<1>6. CASE StartTask(s) \/ TaskReturns(s) \/ TaskRaises(s) \/ TaskAborts(s)
  <2>1. slot[s].pc \in {"start", "body"} /\ pos \in Positions
    BY <1>6, <1>a DEF StartTask, TaskReturns, TaskRaises, TaskAborts, At, TaskLabels
  <2>2. /\ slot'[s].pc \in {"body", "succeed", "failCtx", "retryCtx", "cancelTask"}
        /\ slot'[s].run = r /\ slot'[s].pos = pos /\ slot'[s].tried = slot[s].tried
        /\ slot'[s].pc = "retryCtx" => ~(Attempt(s) >= Budget(pos))
    <3>1. CASE StartTask(s)
      BY <1>g, <3>1 DEF StartTask, Labels
    <3>2. CASE TaskReturns(s)
      BY <1>2, <1>a, <3>2 DEF TaskReturns, SlotState
    <3>3. CASE TaskRaises(s)
      <4>1. \/ Goto(s, "failCtx")
            \/ Goto(s, "retryCtx") /\ ~(Attempt(s) >= Budget(pos))
        BY <1>2, <3>3 DEF TaskRaises
      <4>. QED BY <1>g, <4>1 DEF Labels
    <3>4. CASE TaskAborts(s)
      BY <1>g, <3>4 DEF TaskAborts, Labels
    <3>. QED BY <1>6, <3>1, <3>2, <3>3, <3>4
  <2>3. slot[s].tried[pos] < Budget(pos) + Interruptions
    BY <1>1, <1>2, <1>t, <2>1 DEF SlotTries, Fresh, Room, Trying, At
  <2>4. slot'[s].tried[pos] < Budget(pos) + Interruptions'
    BY <1>n, <2>1, <2>2, <2>3
  <2>5. slot'[s].pc = "retryCtx" => Attempt(s)' < Budget(pos)
    BY <1>2, <1>n, <2>1, <2>2 DEF Attempt
  <2>6. \A p \in Positions : p > pos => Fresh(s, p)'
    BY <1>f, <2>1, <2>2 DEF AtTask
  <2>. QED BY <2>2, <2>4, <2>5, <2>6 DEF SlotTries, AtTask, At
<1>7. CASE SucceedTask(s)
  <2>1. /\ slot[s].pc = "succeed" /\ slot'[s].pc = "checkpoint"
        /\ slot'[s].run = r /\ slot'[s].pos = pos /\ slot'[s].tried = slot[s].tried
    BY <1>7, <1>g DEF SucceedTask, At, Labels
  <2>2. \A p \in Positions : p > pos => Fresh(s, p)'
    BY <1>f, <2>1 DEF AtTask
  <2>. QED BY <2>1, <2>2 DEF SlotTries, AtTask, Trying, At
<1>8. CASE Checkpoint(s)
  <2>1. /\ slot[s].pc = "checkpoint" /\ pos \in Positions
        /\ slot'[s].pc \in {"start", "complete"}
        /\ slot'[s].pc = "start" => pos + 1 < NTasks
        /\ slot'[s].run = r /\ slot'[s].pos = pos + 1
        /\ slot'[s].tried = slot[s].tried
    BY <1>8, <1>2, <1>a, <1>n DEF Checkpoint, AfterTask, At, SlotState, TaskLabels
  <2>2. \A p \in Positions : p > pos => Fresh(s, p)'
    BY <1>f, <2>1
  <2>3. \A p \in Positions : p > pos + 1 => p > pos
    BY <1>n, <2>1
  <2>4. slot'[s].pc = "start" => pos + 1 \in Positions /\ pos + 1 > pos
    BY <1>n, <2>1
  <2>. QED BY <2>1, <2>2, <2>3, <2>4 DEF SlotTries, AtTask, Trying, At
<1>9. CASE PersistRetry(s) \/ PersistFailure(s)
  <2>1. /\ slot[s].pc \in {"retryCtx", "failCtx"} /\ pos \in Positions
        /\ slot'[s].pc \in {"retryTask", "failTask"}
        /\ slot'[s].pc = "retryTask" => slot[s].pc = "retryCtx"
        /\ slot'[s].run = r /\ slot'[s].pos = pos /\ slot'[s].tried = slot[s].tried
    BY <1>9, <1>a, <1>g DEF PersistRetry, PersistFailure, At, Labels, TaskLabels
  <2>2. slot[s].tried[pos] < Budget(pos) + Interruptions
    BY <1>2, <1>t, <2>1 DEF SlotTries, Trying
  <2>3. slot'[s].tried[pos] < Budget(pos) + Interruptions'
    BY <1>n, <2>1, <2>2
  <2>4. slot'[s].pc = "retryTask" => Attempt(s)' < Budget(pos)
    BY <1>2, <1>t, <2>1 DEF Attempt, SlotTries
  <2>5. \A p \in Positions : p > pos => Fresh(s, p)'
    BY <1>f, <2>1 DEF AtTask
  <2>. QED BY <2>1, <2>3, <2>4, <2>5 DEF SlotTries, AtTask, At
<1>10. CASE RetryTask(s)
  <2>1. /\ slot[s].pc = "retryTask" /\ pos \in Positions
        /\ slot'[s].pc = "release" /\ slot'[s].run = r
    BY <1>10, <1>a, <1>g DEF RetryTask, At, Labels, TaskLabels
  <2>2. /\ Succeeded(r) = Upto(pos)
        /\ \A p \in Positions : p > pos => Room(r, p)
        /\ Attempt(s) < Budget(pos)
    BY <1>1, <1>2, <1>t, <2>1 DEF SlotProgress, SlotTries, AtTask, Fresh
  <2>3. Room(r, pos)'
    <3>1. CASE TaskExists(r, pos)
      <4>1. tasks'[r][pos].attempts = Attempt(s)
        BY <1>1, <1>2, <1>a, <1>10, <2>1, <3>1, TaskTries
      <4>. QED BY <1>n, <2>1, <2>2, <4>1 DEF Room
    <3>2. CASE ~TaskExists(r, pos)
      <4>1. tasks[r][pos].attempts = 0 /\ Attempt(s) = slot[s].tried[pos] + 1
        BY <1>2, <2>1, <3>2 DEF TriesInv, Attempt
      <4>2. \/ tasks'[r][pos].attempts = 0
            \/ tasks'[r][pos].attempts = Attempt(s)
        BY <1>1, <1>2, <1>a, <2>1, <4>1, TaskTries
      <4>. QED BY <1>n, <2>1, <2>2, <4>1, <4>2 DEF Room
    <3>. QED BY <3>1, <3>2
  <2>4. \A p \in Positions : p > pos => Room(r, p)'
    <3>1. \A p \in Positions : p > pos => p # pos
      BY <1>2, <1>n
    <3>. QED BY <1>2, <1>n, <1>r, <2>2, <3>1 DEF Room
  <2>5. \A p \in Positions : p < pos => p \in Succeeded(r)'
    <3>1. UpdateTask(r, pos, [status |-> "failed", attempts |-> Attempt(s)])
      BY <1>1, <1>2, <1>10 DEF RetryTask, TaskFails
    <3>2. \A p \in Positions : p < pos => p \in Succeeded(r) /\ p # pos
      BY <1>2, <1>n, <2>2 DEF Upto
    <3>3. \A p \in Positions : p # pos => tasks'[r][p] = tasks[r][p]
      BY <1>a, <3>1 DEF UpdateTask, Typed, TypeOK, BackendTypeOK
    <3>. QED BY <3>2, <3>3 DEF Succeeded
  <2>6. \A p \in Positions \ Succeeded(r)' : Room(r, p)'
    <3>1. \A p \in Positions : p < pos \/ p = pos \/ p > pos
      BY <1>2, <1>n
    <3>. QED BY <2>3, <2>4, <2>5, <3>1
  <2>. QED BY <2>1, <2>6 DEF SlotTries, AtTask, Trying, At, RunOf
<1>11. ~SelectRun(s) /\ ~ClaimSelected(s) /\ ~MissSelected(s) /\ ~LeaveRun(s)
  BY DEF SelectRun, ClaimSelected, MissSelected, LeaveRun, Executing, Claiming, At
<1>12. CASE \/ CancelLoaded(s) \/ FailLoaded(s) \/ CancelTaskRun(s) \/ ReleaseForRetry(s)
            \/ RetryWholeRun(s) \/ ResetAttempts(s) \/ FailUnhandled(s)
  <2>1. slot'[s].pc \in {"idle", "leave"}
    <3>1. CASE ReleaseForRetry(s)
      BY <1>a, <3>1, ReleaseLeaves DEF SlotState
    <3>2. CASE ~ReleaseForRetry(s)
      BY <1>a, <1>12, <3>2
      DEF CancelLoaded, FailLoaded, CancelTaskRun, RetryWholeRun, ResetAttempts,
          FailUnhandled, Release, Idle
    <3>. QED BY <3>1, <3>2
  <2>. QED BY <2>1 DEF Executing, Claiming, At
<1>13. CASE \/ PersistExhausted(s) \/ CancelTask(s) \/ FailTask(s) \/ Complete(s)
            \/ FinalizeFailed(s) \/ CountFailure(s) \/ CallFails(s)
  <2>1. \/ \E label \in {"gather", "cancelRun", "resetAttempts", "increment", "retryRun",
                         "abort"} : Goto(s, label)
        \/ Release(s)
    BY <1>13
    DEF PersistExhausted, CancelTask, FailTask, Complete, FinalizeFailed, CountFailure,
        CallFails
  <2>2. ~Release(s)
    BY <1>a DEF Release, Executing, At, Idle
  <2>. QED BY <1>3, <1>g, <2>1, <2>2 DEF Labels, Elsewhere
<1>14. CASE Gather(s) \/ UndoTask(s)
  <2>1. slot'[s].pc \in {"failRun", "undo"}
    BY <1>a, <1>14 DEF Gather, UndoTask, SlotState
  <2>. QED BY <1>3, <2>1 DEF Elsewhere
<1>. QED
  BY <1>4, <1>5, <1>6, <1>7, <1>8, <1>9, <1>10, <1>11, <1>12, <1>13, <1>14
  DEF Coroutine, CallStep, TaskStep

\* A task that is tried at all is tried once.
SomeTry == \A p \in Positions : Budget(p) >= 1

LEMMA ExecutionAttempts ==
  ASSUME Typed, ProgressInv, TriesInv, [Next]_vars, NEW s \in Slots, Executing(s),
         Coroutine(s), NEW r \in RunIds, r = RunOf(s), NEW p \in Positions
  PROVE  /\ tasks'[r][p].attempts <= Budget(p) + Interruptions'
         /\ ~TaskExists(r, p)' => tasks'[r][p].attempts = 0
<1>a. /\ tasks[r][p].attempts \in Nat /\ slot[s].tried[p] \in Nat /\ Budget(p) \in Nat
      /\ Interruptions \in Nat /\ Interruptions' \in Nat
      /\ Interruptions <= Interruptions'
  <2>1. tasks[r][p] \in TaskRow /\ slot[s] \in SlotState
    BY DEF Typed, TypeOK, BackendTypeOK
  <2>2. Budget(p) \in Nat
    BY WorkerAssumption DEF Budget
  <2>. QED BY <2>1, <2>2, StepInterrupts DEF TaskRow, SlotState
<1>b. SlotTries(s) /\ tasks[r][p].attempts <= Budget(p) + Interruptions
  BY DEF TriesInv, AttemptsBounded
<1>1. CASE /\ tasks'[r][p].attempts = tasks[r][p].attempts
           /\ TaskExists(r, p)' <=> TaskExists(r, p)
  BY <1>1, <1>a, <1>b DEF TriesInv
<1>2. CASE /\ p = slot[s].pos /\ TaskExists(r, p)'
           /\ StartTask(s) \/ RetryTask(s) \/ FailTask(s)
           /\ tasks'[r][p].attempts = Attempt(s)
  <2>1. slot[s].pc \in {"start", "retryTask", "failTask"}
    BY <1>2 DEF StartTask, RetryTask, FailTask, At
  <2>2. slot[s].tried[p] < Budget(p) + Interruptions
    BY <1>2, <1>b, <2>1 DEF SlotTries, Fresh, Room, Trying, At
  <2>. QED BY <1>2, <1>a, <2>2 DEF Attempt
<1>. QED BY <1>1, <1>2, TaskTries

LEMMA UntouchedTries ==
  ASSUME Typed, TriesInv, [Next]_vars, NEW s \in Slots, Executing(s), Untouched(s)
  PROVE  SlotTries(s)'
<1>1. PICK r \in RunIds : r = RunOf(s)
  BY DEF Typed, SlotInv, WorkingSlot, Executing, At, RunOf
<1>a. /\ slot'[s].pc = slot[s].pc /\ slot'[s].run = r /\ slot[s].run = r
      /\ slot'[s].pos = slot[s].pos /\ slot'[s].tried = slot[s].tried
      /\ tasks'[r] = tasks[r] /\ SlotTries(s)
      /\ slot[s].pc \in Trying => slot[s].pos \in Positions
  BY <1>1 DEF Untouched, RunOf, TriesInv, Typed, SlotInv, WorkingSlot, Trying, TaskLabels
<1>n. /\ \A p \in Positions : /\ tasks[r][p].attempts \in Nat /\ Budget(p) \in Nat
                              /\ slot[s].tried[p] \in Nat
      /\ Interruptions \in Nat /\ Interruptions' \in Nat
      /\ Interruptions <= Interruptions'
  <2>1. \A p \in Positions : tasks[r][p] \in TaskRow
    BY DEF Typed, TypeOK, BackendTypeOK
  <2>2. \A p \in Positions : Budget(p) \in Nat
    BY WorkerAssumption DEF Budget
  <2>3. slot[s] \in SlotState
    BY DEF Typed, TypeOK
  <2>. QED BY <2>1, <2>2, <2>3, StepInterrupts DEF TaskRow, SlotState
<1>2. \A p \in Positions : Room(r, p) => Room(r, p)'
  BY <1>a, <1>n DEF Room
<1>3. \A p \in Positions : Fresh(s, p) => Fresh(s, p)'
  BY <1>1, <1>a, <1>2 DEF Fresh, RunOf
<1>4. Succeeded(r)' = Succeeded(r)
  BY <1>a DEF Succeeded
<1>5. /\ slot[s].pc \in {"load", "records", "release"} =>
           \A p \in Positions \ Succeeded(r)' : Room(r, p)'
      /\ slot[s].pc \in AtTask \cup {"checkpoint"} =>
           \A p \in Positions : p > slot[s].pos => Fresh(s, p)'
  BY <1>1, <1>a, <1>2, <1>3, <1>4 DEF SlotTries
<1>6. At(s, "start") => Fresh(s, slot[s].pos)'
  <2>1. At(s, "start") => slot[s].pos \in Positions
    BY DEF Typed, SlotInv, WorkingSlot, TaskLabels, At
  <2>. QED BY <1>a, <1>3, <2>1 DEF SlotTries
<1>7. slot[s].pc \in Trying =>
        slot[s].tried[slot[s].pos] < Budget(slot[s].pos) + Interruptions'
  BY <1>a, <1>n DEF SlotTries
<1>8. slot[s].pc \in {"retryCtx", "retryTask"} =>
        slot[s].tried[slot[s].pos] + 1 < Budget(slot[s].pos)
  BY <1>a DEF SlotTries, Attempt
<1>. QED BY <1>a, <1>5, <1>6, <1>7, <1>8 DEF SlotTries, At, RunOf, Attempt

LEMMA StepTries ==
  ASSUME Sound, Sound', OutcomeInv, ProgressInv, TriesInv, [Next]_vars
  PROVE  TriesInv'
<1>a. /\ Safe /\ Typed /\ NoneReused /\ RunsKnown /\ slot \in [Slots -> SlotState]
      /\ \A s \in Slots : Executing(s) => RunOf(s) \in RunIds
  BY DEF Sound, Safe, Typed, TypeOK, SlotInv, WorkingSlot, Executing, At, RunOf
<1>n. /\ \A r \in RunIds, p \in Positions : tasks[r][p].attempts \in Nat
      /\ \A p \in Positions : Budget(p) \in Nat
      /\ Interruptions \in Nat /\ Interruptions' \in Nat
      /\ Interruptions <= Interruptions'
  <2>1. \A r \in RunIds, p \in Positions : tasks[r][p] \in TaskRow
    BY <1>a DEF Typed, TypeOK, BackendTypeOK
  <2>2. \A p \in Positions : Budget(p) \in Nat
    BY WorkerAssumption DEF Budget
  <2>. QED BY <1>a, <2>1, <2>2, StepInterrupts DEF TaskRow
<1>1. ASSUME NEW r \in RunIds, NEW p \in Positions
      PROVE  /\ tasks'[r][p].attempts <= Budget(p) + Interruptions'
             /\ ~TaskExists(r, p)' => tasks'[r][p].attempts = 0
  <2>1. CASE \E s \in Slots : Executing(s) /\ Coroutine(s) /\ RunOf(s) = r
    BY <1>a, <2>1, ExecutionAttempts
  <2>2. CASE tasks'[r] = tasks[r]
    BY <1>n, <2>2 DEF TriesInv, AttemptsBounded, TaskExists
  <2>. QED BY <2>1, <2>2, StepOnRow
<1>2. ASSUME NEW r \in RunIds, tasks'[r] = tasks[r], Interruptions' = Interruptions + 1
      PROVE  \A p \in Positions : Room(r, p)'
  BY <1>n, <1>2 DEF TriesInv, AttemptsBounded, Room
<1>3. ASSUME NEW r \in RunIds, tasks'[r] = tasks[r],
             \A p \in Positions \ Succeeded(r) : Room(r, p)
      PROVE  \A p \in Positions \ Succeeded(r)' : Room(r, p)'
  <2>1. Succeeded(r)' = Succeeded(r)
    BY <1>3 DEF Succeeded
  <2>. QED BY <1>n, <1>3, <2>1 DEF Room
<1>4. ASSUME NEW r \in RunIds, ~Held(r)', runs'[r].status \notin Over
      PROVE  \A p \in Positions \ Succeeded(r)' : Room(r, p)'
  <2>1. CASE \E s \in Slots : Executing(s) /\ Coroutine(s) /\ RunOf(s) = r
    <3>1. PICK s \in Slots : Executing(s) /\ Coroutine(s) /\ r = RunOf(s)
      BY <2>1
    <3>2. ~Executing(s)'
      <4>1. Executing(s)' => slot'[s].run = r
        BY <1>a, <3>1, ExecutionGoesOn DEF Coroutine, RunOf
      <4>. QED BY <1>4, <4>1 DEF Held, RunOf
    <3>3. CallFails(s) \/ ReleaseForRetry(s)
      BY <1>4, <3>1, <3>2, EndsOver
    <3>4. tasks'[r] = tasks[r]
      BY <3>3 DEF CallFails, ReleaseForRetry, tables
    <3>5. CASE CallFails(s)
      BY <1>2, <1>a, <3>4, <3>5, StepInterrupts
    <3>6. CASE ReleaseForRetry(s)
      <4>1. \A p \in Positions \ Succeeded(r) : Room(r, p)
        BY <3>1, <3>6 DEF TriesInv, SlotTries, ReleaseForRetry, At
      <4>. QED BY <1>3, <3>4, <4>1
    <3>. QED BY <3>3, <3>5, <3>6
  <2>2. CASE /\ tasks'[r] = tasks[r]
             /\ \A t \in Slots : Executing(t) /\ RunOf(t) = r =>
                  \/ slot'[t].pc = slot[t].pc /\ slot'[t].run = slot[t].run
                  \/ Interruptions' = Interruptions + 1
    <3>1. CASE Interruptions' = Interruptions + 1
      BY <1>2, <2>2, <3>1
    <3>2. CASE Interruptions' # Interruptions + 1
      <4>1. ~Held(r)
        BY <1>4, <2>2, <3>2 DEF Held, Executing, Claiming, At, RunOf
      <4>2. runs[r].status \notin Over
        BY <1>4, <1>a, StepKeepsOver
      <4>3. \A p \in Positions \ Succeeded(r) : Room(r, p)
        BY <4>1, <4>2 DEF TriesInv
      <4>. QED BY <1>3, <2>2, <4>3
    <3>. QED BY <3>1, <3>2
  <2>. QED BY <2>1, <2>2, StepOnRow
<1>5. ASSUME NEW t \in Slots, Executing(t)'
      PROVE  SlotTries(t)'
  <2>1. CASE Executing(t) /\ Coroutine(t)
    BY <1>5, <2>1, ExecutionTries
  <2>2. CASE Executing(t) /\ Untouched(t)
    BY <1>a, <2>2, UntouchedTries
  <2>3. CASE /\ ~Executing(t) /\ slot[t].run \in RunIds
             /\ ClaimMatches(slot[t].run) /\ UNCHANGED tasks
             /\ slot'[t].pc = "load" /\ slot'[t].run = slot[t].run
    <3>1. PICK r \in RunIds : r = slot[t].run
      BY <2>3
    <3>2. runs[r].status \notin Over /\ ~(IsRunning(r) /\ runs[r].lease = "live")
      BY <2>3, <3>1 DEF ClaimMatches, Over, Terminal, IsRunning
    <3>3. ~Held(r)
      BY <1>a, <3>2 DEF Held, Safe, LeaseInv, HoldsLease, LeaseHeldBy, IsRunning
    <3>4. \A p \in Positions \ Succeeded(r)' : Room(r, p)'
      BY <1>3, <2>3, <3>2, <3>3 DEF TriesInv
    <3>. QED BY <2>3, <3>1, <3>4 DEF SlotTries, AtTask, Trying, At, RunOf
  <2>. QED BY <1>5, <2>1, <2>2, <2>3, StepOnExecution
<1>6. AttemptsBounded'
  BY <1>1 DEF AttemptsBounded
<1>. QED BY <1>1, <1>4, <1>5, <1>6 DEF TriesInv

\* A task is tried as often as its budget allows, and once more for each crash
\* or failed call: what an execution reads of the attempts stays true while it
\* holds the run, a run that waits has tries left for each task it has yet to
\* do, and only an interruption gives up a try that was counted (worker.py
\* _run, _run_task; sqlalchemy.py start_task, fail_task).
THEOREM TriesAreBounded == LeasesHold /\ SomeTry => (Spec => []AttemptsBounded)
<1>1. SUFFICES ASSUME LeasesHold, SomeTry PROVE Spec => []AttemptsBounded
  OBVIOUS
<1>2. Init => TriesInv
  <2>. SUFFICES ASSUME Init PROVE TriesInv
    OBVIOUS
  <2>1. /\ \A r \in RunIds, p \in Positions : tasks[r][p].attempts = 0
        /\ \A s \in Slots : ~Executing(s)
    BY DEF Init, BackendInit, Idle, Executing, At
  <2>2. Interruptions = 0
    BY DEF Init, Interruptions, FaultKinds
  <2>3. \A p \in Positions : Budget(p) \in Nat /\ Budget(p) >= 1
    BY <1>1, WorkerAssumption DEF SomeTry, Budget
  <2>. QED BY <2>1, <2>2, <2>3 DEF TriesInv, AttemptsBounded, Room
<1>3. Sound /\ Sound' /\ OutcomeInv /\ ProgressInv /\ TriesInv /\ [Next]_vars => TriesInv'
  BY StepTries
<1>4. TriesInv => AttemptsBounded
  BY DEF TriesInv
<1>. QED BY <1>1, <1>2, <1>3, <1>4, OutcomeInvariant, ProgressInvariant, PTL DEF Spec

-----------------------------------------------------------------------------
(* How far the checkpoint lags behind.                                      *)

LEMMA Counted ==
  ASSUME NEW S \in SUBSET Positions
  PROVE  IsFiniteSet(S) /\ Cardinality(S) \in Nat
<1>1. IsFiniteSet(Positions)
  BY BoundsAreNumbers, FS_Interval DEF Positions
<1>2. IsFiniteSet(S)
  BY <1>1, FS_Subset
<1>. QED BY <1>2, FS_CardinalityType

LEMMA Fewer ==
  ASSUME NEW S \in SUBSET Positions, NEW T \in SUBSET S
  PROVE  Cardinality(T) <= Cardinality(S)
BY Counted, FS_Subset

LEMMA OneMore ==
  ASSUME NEW S \in SUBSET Positions, NEW p \in Positions, NEW T \in SUBSET (S \cup {p})
  PROVE  Cardinality(T) <= Cardinality(S) + 1
<1>1. Cardinality(S \cup {p}) <= Cardinality(S) + 1 /\ S \cup {p} \in SUBSET Positions
  BY Counted, FS_AddElement
<1>2. Cardinality(T) <= Cardinality(S \cup {p})
  BY <1>1, Fewer
<1>. QED BY <1>1, <1>2, Counted

\* What a step of an execution does to the results of its run: those of the
\* succeeded tasks, those in the live ctx and those in the persisted one.
LEMMA ExecutionSaves ==
  ASSUME Sound, NEW s \in Slots, Executing(s), Coroutine(s),
         NEW r \in RunIds, r = RunOf(s)
  PROVE  /\ \/ /\ SucceedTask(s)
               /\ Succeeded(r)' \subseteq Succeeded(r) \cup {slot[s].pos}
               /\ runs'[r].ctx = runs[r].ctx
            \/ /\ Succeeded(r)' \subseteq Succeeded(r)
               /\ runs'[r].ctx = slot[s].ctx
            \/ /\ Succeeded(r)' \subseteq Succeeded(r)
               /\ runs'[r].ctx = runs[r].ctx
               /\ At(s, "checkpoint") => CallFails(s)
         /\ Executing(s)' => /\ slot[s].ctx \subseteq slot'[s].ctx
                             /\ slot'[s].run = r
         /\ slot'[s].pc = "succeed" => slot'[s].pos \in slot'[s].ctx
         /\ slot'[s].pc = "checkpoint" =>
              SucceedTask(s) /\ slot'[s].pos = slot[s].pos
         /\ SucceedTask(s) => slot'[s].pc = "checkpoint"
<1>a. /\ Typed /\ slot \in [Slots -> SlotState] /\ slot[s] \in SlotState
      /\ tasks \in [RunIds -> [Positions -> TaskRow]]
      /\ runs \in [RunIds -> RunRow] /\ runs[r] \in RunRow
      /\ RunExists(r) /\ r = slot[s].run
  BY DEF Sound, Safe, Typed, TypeOK, BackendTypeOK, RunsKnown, NeverDeleted, RunExists,
         Executing, RunOf
<1>. DEFINE Writer == \/ PersistExhausted(s) \/ Checkpoint(s) \/ PersistRetry(s)
                     \/ PersistFailure(s)
<1>1. Writer => runs'[r].ctx = slot[s].ctx
  <2>1. Writer => SetRunCtx(r, slot[s].ctx)
    BY DEF PersistExhausted, Checkpoint, PersistRetry, PersistFailure
  <2>. QED BY <1>a, <2>1 DEF SetRunCtx, UpdateRun, RunRow
<1>2. ~Writer => runs'[r].ctx = runs[r].ctx
  <2>1. CASE UNCHANGED runs
    BY <2>1
  <2>2. CASE \/ FailLoaded(s) \/ FinalizeFailed(s) \/ FailUnhandled(s) \/ CancelLoaded(s)
             \/ CancelTaskRun(s) \/ ReleaseForRetry(s) \/ Complete(s)
    <3>1. FailRun(r) \/ CancelRun(r) \/ ReleaseRun(r) \/ CompleteRun(r)
      BY <2>2
      DEF FailLoaded, FinalizeFailed, FailUnhandled, CancelLoaded, CancelTaskRun,
          ReleaseForRetry, Complete
    <3>2. \/ runs'[r] = runs[r]
          \/ \E status : runs'[r] = [runs[r] EXCEPT !.status = status, !.lease = "none"]
          \/ runs'[r] = [runs[r] EXCEPT !.status = "ready", !.lease = "none",
                                        !.owner = None]
      BY <1>a, <3>1 DEF FailRun, CancelRun, ReleaseRun, CompleteRun, UpdateRun
    <3>. QED BY <1>a, <3>2 DEF RunRow
  <2>3. CASE RetryWholeRun(s)
    BY <1>a, <2>3, NewRowWasAbsent DEF RetryWholeRun, Sound, Safe, RunExists
  <2>4. ~SelectRun(s) /\ ~ClaimSelected(s) /\ ~MissSelected(s) /\ ~LeaveRun(s)
    BY DEF SelectRun, ClaimSelected, MissSelected, LeaveRun, Executing, Claiming, At
  <2>. QED
    BY <2>1, <2>2, <2>3, <2>4
    DEF Coroutine, CallStep, TaskStep, LoadJob, ReadRecords, StartTask, SucceedTask,
        CancelTask, RetryTask, FailTask, Gather, UndoTask, CountFailure, ResetAttempts,
        TaskReturns, TaskRaises, TaskAborts, CallFails, tables
<1>3. Succeeded(r)' \subseteq IF SucceedTask(s) THEN Succeeded(r) \cup {slot[s].pos}
                              ELSE Succeeded(r)
  <2>1. CASE tasks'[r] = tasks[r]
    BY <2>1 DEF Succeeded
  <2>2. CASE \/ StartTask(s) \/ SucceedTask(s) \/ CancelTask(s) \/ RetryTask(s)
             \/ FailTask(s) \/ UndoTask(s)
    <3>1. PICK p \in Positions : \E row :
            /\ tasks' = [tasks EXCEPT ![r][p] = row]
            /\ \/ row.status # "succeeded" \/ row = tasks[r][p]
               \/ SucceedTask(s) /\ p = slot[s].pos
      <4>1. CASE UndoTask(s)
        <5>1. PICK p \in slot[s].todo : TaskIsCompensated(r, p)
          BY <4>1 DEF UndoTask
        <5>2. p \in Positions /\ tasks[r][p] \in TaskRow
          BY <1>a DEF SlotState
        <5>3. [tasks[r][p] EXCEPT !.status = "compensated"].status # "succeeded"
          BY <5>2 DEF TaskRow
        <5>. QED BY <5>1, <5>2, <5>3 DEF TaskIsCompensated, UpdateTask
      <4>2. CASE ~UndoTask(s)
        <5>1. PICK p \in Positions : p = slot[s].pos
          BY <1>a, <2>2, <4>2
          DEF StartTask, SucceedTask, CancelTask, RetryTask, FailTask, At, Typed, SlotInv,
              WorkingSlot, TaskLabels
        <5>2. CASE StartTask(s)
          <6>1. PICK row : row = [status |-> "running", attempts |-> Attempt(s)]
            OBVIOUS
          <6>2. tasks' = [tasks EXCEPT ![r][p] = row] /\ row.status # "succeeded"
            BY <5>1, <5>2, <6>1 DEF StartTask, TaskStarts
          <6>. QED BY <6>2
        <5>3. CASE SucceedTask(s)
          BY <5>1, <5>3 DEF SucceedTask, TaskSucceeds, UpdateTask
        <5>4. CASE CancelTask(s)
          <6>1. [tasks[r][p] EXCEPT !.status = "cancelled"].status # "succeeded"
            BY <1>a DEF TaskRow
          <6>. QED BY <5>1, <5>4, <6>1 DEF CancelTask, TaskIsCancelled, UpdateTask
        <5>5. CASE RetryTask(s) \/ FailTask(s)
          <6>1. PICK row : row = [status |-> "failed", attempts |-> Attempt(s)]
            OBVIOUS
          <6>2. UpdateTask(r, p, row) /\ row.status # "succeeded"
            BY <5>1, <5>5, <6>1 DEF RetryTask, FailTask, TaskFails
          <6>. QED BY <6>2 DEF UpdateTask
        <5>. QED BY <2>2, <4>2, <5>2, <5>3, <5>4, <5>5
      <4>. QED BY <4>1, <4>2
    <3>. QED BY <1>a, <3>1 DEF Succeeded
  <2>. QED BY <1>a, <2>1, <2>2, StepOnTasks
<1>g. ASSUME NEW label \in Labels, Goto(s, label)
      PROVE  /\ slot'[s].pc = label /\ slot'[s].ctx = slot[s].ctx
             /\ slot'[s].run = r /\ slot'[s].pos = slot[s].pos
  <2>1. slot'[s] = [slot[s] EXCEPT !.pc = label]
    BY <1>a, <1>g DEF Goto
  <2>. QED BY <1>a, <2>1 DEF SlotState
<1>e. ASSUME slot'[s] = Idle
      PROVE  ~Executing(s)' /\ slot'[s].pc \notin {"succeed", "checkpoint"}
  BY <1>e DEF Executing, At, Idle
<1>4. CASE SucceedTask(s)
  <2>1. ~Writer
    BY <1>4 DEF SucceedTask, PersistExhausted, Checkpoint, PersistRetry, PersistFailure, At
  <2>2. /\ slot'[s].pc = "checkpoint" /\ slot'[s].ctx = slot[s].ctx
        /\ slot'[s].run = r /\ slot'[s].pos = slot[s].pos
    BY <1>4, <1>g DEF SucceedTask, Labels
  <2>. QED BY <1>2, <1>3, <1>4, <2>1, <2>2
<1>5. ASSUME ~SucceedTask(s)
      PROVE  /\ Executing(s)' => /\ slot[s].ctx \subseteq slot'[s].ctx
                                 /\ slot'[s].run = r
             /\ slot'[s].pc = "succeed" => slot'[s].pos \in slot'[s].ctx
             /\ slot'[s].pc # "checkpoint"
  <2>1. CASE Checkpoint(s) \/ Gather(s) \/ UndoTask(s)
    <3>1. /\ slot'[s].pc \in {"start", "complete", "failRun", "undo"}
          /\ slot'[s].ctx = slot[s].ctx /\ slot'[s].run = r
      BY <1>a, <2>1, BoundsAreNumbers
      DEF Checkpoint, AfterTask, Gather, UndoTask, SlotState
    <3>. QED BY <3>1
  <2>2. CASE ReadRecords(s)
    <3>1. PICK q \in 0 .. NTasks, label \in {"complete", "exhausted", "start"} :
            slot' = [slot EXCEPT
                  ![s].pc = label, ![s].pos = q,
                  ![s].tried = [p \in Positions |-> tasks[r][p].attempts]]
      BY <2>2 DEF ReadRecords
    <3>2. slot'[s].pc = label /\ slot'[s].ctx = slot[s].ctx /\ slot'[s].run = r
      BY <1>a, <3>1 DEF SlotState
    <3>. QED BY <3>2
  <2>3. CASE TaskReturns(s)
    <3>1. /\ slot'[s].pc = "succeed" /\ slot'[s].ctx = slot[s].ctx \cup {slot[s].pos}
          /\ slot'[s].run = r /\ slot'[s].pos = slot[s].pos
      BY <1>a, <2>3 DEF TaskReturns, SlotState
    <3>. QED BY <3>1
  <2>4. CASE ReleaseForRetry(s)
    <3>1. slot'[s].pc = "leave"
      BY <1>a, <2>4, ReleaseLeaves DEF SlotState
    <3>. QED BY <3>1 DEF Executing, Claiming, At
  <2>5. CASE \/ LoadJob(s) \/ PersistExhausted(s) \/ StartTask(s) \/ TaskRaises(s)
             \/ TaskAborts(s) \/ CancelTask(s) \/ PersistRetry(s) \/ RetryTask(s)
             \/ PersistFailure(s) \/ FailTask(s) \/ Complete(s) \/ FinalizeFailed(s)
             \/ CountFailure(s) \/ CallFails(s) \/ CancelLoaded(s) \/ FailLoaded(s)
             \/ CancelTaskRun(s) \/ RetryWholeRun(s) \/ ResetAttempts(s)
             \/ FailUnhandled(s)
    <3>1. \/ \E label \in {"cancelLoaded", "failLoaded", "records", "gather", "body",
                           "cancelRun", "retryTask", "release", "failTask", "failCtx",
                           "retryCtx", "cancelTask", "resetAttempts", "increment",
                           "retryRun", "abort"} : Goto(s, label)
          \/ Release(s)
      BY <2>5
      DEF LoadJob, PersistExhausted, StartTask, TaskRaises, TaskAborts, CancelTask,
          PersistRetry, RetryTask, PersistFailure, FailTask, Complete, FinalizeFailed,
          CountFailure, CallFails, CancelLoaded, FailLoaded, CancelTaskRun,
          RetryWholeRun, ResetAttempts, FailUnhandled
    <3>2. Release(s) => slot'[s] = Idle
      BY <1>a DEF Release
    <3>. QED BY <1>e, <1>g, <3>1, <3>2 DEF Labels
  <2>6. ~SelectRun(s) /\ ~ClaimSelected(s) /\ ~MissSelected(s) /\ ~LeaveRun(s)
    BY DEF SelectRun, ClaimSelected, MissSelected, LeaveRun, Executing, Claiming, At
  <2>. QED BY <1>5, <2>1, <2>2, <2>3, <2>4, <2>5, <2>6 DEF Coroutine, CallStep, TaskStep
<1>6. At(s, "checkpoint") => Checkpoint(s) \/ CallFails(s)
  BY DEF Coroutine, CallStep, TaskStep, SelectRun, ClaimSelected, MissSelected, LoadJob,
         CancelLoaded, FailLoaded, ReadRecords, PersistExhausted, StartTask, SucceedTask,
         CancelTask, CancelTaskRun, PersistRetry, RetryTask, ReleaseForRetry,
         LeaveRun, PersistFailure, FailTask, Gather, UndoTask, FinalizeFailed, CountFailure,
         RetryWholeRun, Complete, ResetAttempts, FailUnhandled, TaskReturns, TaskRaises,
         TaskAborts, At
<1>. QED BY <1>1, <1>2, <1>3, <1>4, <1>5, <1>6

LEMMA StepLag ==
  ASSUME Sound, LagInv, [Next]_vars
  PROVE  LagInv'
<1>a. /\ Safe /\ Typed /\ RunsKnown /\ ExclusiveExecution
      /\ \A s \in Slots : Executing(s) => RunOf(s) \in RunIds
      /\ Interruptions \in Nat /\ Interruptions' \in Nat
      /\ Interruptions <= Interruptions'
  BY StepInterrupts
  DEF Sound, Safe, Typed, SlotInv, WorkingSlot, Executing, At, RunOf, LeaseInv
<1>b. \A r \in RunIds : Succeeded(r) \in SUBSET Positions /\ Unsaved(r) \in SUBSET Positions
  BY DEF Succeeded, Unsaved
<1>c. \A r \in RunIds : Cardinality(Unsaved(r)) \in Nat
  BY <1>b, Counted
<1>. DEFINE Step(r) == IF Checkpointing(r) THEN 1 ELSE 0
<1>1. ASSUME NEW s \in Slots, Executing(s), Coroutine(s), NEW r \in RunIds, r = RunOf(s)
      PROVE  /\ Cardinality(Unsaved(r)') <= Step(r)' + Interruptions'
             /\ Executing(s)' =>
                  Cardinality(Succeeded(r)' \ slot'[s].ctx) <= Interruptions'
             /\ slot'[s].pc \in {"succeed", "checkpoint"} => slot'[s].pos \in slot'[s].ctx
  <2>a. /\ Cardinality(Unsaved(r)) <= Step(r) + Interruptions
        /\ Cardinality(Succeeded(r) \ slot[s].ctx) <= Interruptions
        /\ slot[s].pc \in {"succeed", "checkpoint"} => slot[s].pos \in slot[s].ctx
    BY <1>1 DEF LagInv
  <2>b. Succeeded(r) \ slot[s].ctx \in SUBSET Positions
    BY <1>b
  <2>1. CASE SucceedTask(s)
    <3>1. /\ slot[s].pc = "succeed" /\ slot[s].pos \in Positions
          /\ slot'[s].pc = "checkpoint" /\ slot'[s].pos = slot[s].pos
          /\ slot[s].ctx \subseteq slot'[s].ctx /\ slot'[s].run = r
          /\ Succeeded(r)' \subseteq Succeeded(r) \cup {slot[s].pos}
          /\ runs'[r].ctx = runs[r].ctx
      <4>1. /\ slot[s].pc = "succeed" /\ slot[s].pos \in Positions
            /\ ~At(s, "checkpoint") /\ UNCHANGED runs
        BY <1>a, <2>1 DEF SucceedTask, At, Typed, SlotInv, WorkingSlot, TaskLabels
      <4>2. slot'[s].pc = "checkpoint" /\ slot'[s].pos = slot[s].pos
        BY <1>1, <2>1, ExecutionSaves
      <4>3. Executing(s)'
        BY <4>2 DEF Executing, Claiming, At
      <4>. QED BY <1>1, <2>1, <4>1, <4>2, <4>3, ExecutionSaves
    <3>2. Succeeded(r)' \ slot'[s].ctx \in SUBSET (Succeeded(r) \ slot[s].ctx)
      BY <2>a, <3>1
    <3>3. Cardinality(Succeeded(r)' \ slot'[s].ctx) <= Interruptions'
      BY <1>a, <2>a, <2>b, <3>2, Fewer, Counted
    <3>4. Unsaved(r)' \in SUBSET (Unsaved(r) \cup {slot[s].pos})
      BY <3>1 DEF Unsaved
    <3>5. ~Checkpointing(r) /\ Checkpointing(r)'
      BY <1>a, <1>1, <3>1
      DEF Checkpointing, ExclusiveExecution, Executing, Claiming, At, RunOf
    <3>6. Cardinality(Unsaved(r)') <= 1 + Interruptions'
      <4>1. Cardinality(Unsaved(r)') <= Cardinality(Unsaved(r)) + 1
        BY <1>b, <3>1, <3>4, OneMore
      <4>2. Unsaved(r)' \in SUBSET Positions
        BY DEF Unsaved, Succeeded
      <4>. QED BY <1>a, <1>c, <2>a, <3>5, <4>1, <4>2, Counted
    <3>. QED BY <2>a, <3>1, <3>3, <3>5, <3>6
  <2>2. CASE ~SucceedTask(s)
    <3>1. /\ Succeeded(r)' \subseteq Succeeded(r)
          /\ \/ runs'[r].ctx = slot[s].ctx
             \/ runs'[r].ctx = runs[r].ctx /\ (At(s, "checkpoint") => CallFails(s))
          /\ Executing(s)' => slot[s].ctx \subseteq slot'[s].ctx
          /\ slot'[s].pc = "succeed" => slot'[s].pos \in slot'[s].ctx
          /\ slot'[s].pc # "checkpoint"
      BY <1>1, <2>2, ExecutionSaves
    <3>2. Executing(s)' => Cardinality(Succeeded(r)' \ slot'[s].ctx) <= Interruptions'
      <4>. SUFFICES ASSUME Executing(s)'
                    PROVE  Cardinality(Succeeded(r)' \ slot'[s].ctx) <= Interruptions'
        OBVIOUS
      <4>1. Succeeded(r)' \ slot'[s].ctx \in SUBSET (Succeeded(r) \ slot[s].ctx)
        BY <3>1
      <4>. QED BY <1>a, <2>a, <2>b, <4>1, Fewer, Counted
    <3>3. CASE runs'[r].ctx = slot[s].ctx
      <4>1. Unsaved(r)' \in SUBSET (Succeeded(r) \ slot[s].ctx)
        BY <3>1, <3>3 DEF Unsaved
      <4>2. Cardinality(Unsaved(r)') <= Interruptions'
        BY <1>a, <2>a, <2>b, <4>1, Fewer, Counted
      <4>3. Unsaved(r)' \in SUBSET Positions
        BY <1>b, <4>1
      <4>. QED BY <1>a, <3>1, <3>2, <4>2, <4>3, Counted
    <3>4. CASE runs'[r].ctx = runs[r].ctx /\ (At(s, "checkpoint") => CallFails(s))
      <4>1. Unsaved(r)' \in SUBSET Unsaved(r)
        BY <3>1, <3>4 DEF Unsaved
      <4>2. Cardinality(Unsaved(r)') <= Cardinality(Unsaved(r))
        BY <1>b, <4>1, Fewer
      <4>3. Checkpointing(r) => At(s, "checkpoint")
        BY <1>a, <1>1 DEF Checkpointing, ExclusiveExecution, Executing, Claiming, At
      <4>4. Checkpointing(r) => Interruptions' = Interruptions + 1
        BY <1>a, <3>4, <4>3, StepInterrupts
      <4>5. Unsaved(r)' \in SUBSET Positions
        BY <1>b, <4>1
      <4>6. Cardinality(Unsaved(r)') <= Step(r)' + Interruptions'
        BY <1>a, <1>c, <2>a, <4>2, <4>4, <4>5, Counted
      <4>. QED BY <3>1, <3>2, <4>6
    <3>. QED BY <3>1, <3>3, <3>4
  <2>. QED BY <2>1, <2>2
<1>2. ASSUME NEW r \in RunIds, tasks'[r] = tasks[r],
             runs[r].status # "absent" => runs'[r].ctx = runs[r].ctx,
             \A t \in Slots : Executing(t) /\ RunOf(t) = r =>
               \/ slot'[t].pc = slot[t].pc /\ slot'[t].run = slot[t].run
               \/ Interruptions' = Interruptions + 1
      PROVE  Cardinality(Unsaved(r)') <= Step(r)' + Interruptions'
  <2>1. Unsaved(r)' \in SUBSET Unsaved(r)
    BY <1>2 DEF Unsaved, Succeeded, LagInv
  <2>2. Cardinality(Unsaved(r)') <= Cardinality(Unsaved(r))
    BY <1>b, <2>1, Fewer
  <2>3. Unsaved(r)' \in SUBSET Positions
    BY <1>b, <2>1
  <2>4. Checkpointing(r) => Checkpointing(r)' \/ Interruptions' = Interruptions + 1
    BY <1>2 DEF Checkpointing, Executing, Claiming, At, RunOf
  <2>5. Cardinality(Unsaved(r)) <= Step(r) + Interruptions
    BY DEF LagInv
  <2>. QED BY <1>a, <1>c, <2>2, <2>3, <2>4, <2>5, Counted
<1>3. ASSUME NEW r \in RunIds
      PROVE  Cardinality(Unsaved(r)') <= Step(r)' + Interruptions'
  BY <1>1, <1>2, StepOnRow
<1>4. ASSUME NEW t \in Slots, Executing(t)'
      PROVE  /\ Cardinality(Succeeded(RunOf(t))' \ slot'[t].ctx) <= Interruptions'
             /\ slot'[t].pc \in {"succeed", "checkpoint"} => slot'[t].pos \in slot'[t].ctx
  <2>1. CASE Executing(t) /\ Coroutine(t)
    <3>1. PICK r \in RunIds : r = RunOf(t)
      BY <1>a, <2>1
    <3>2. slot'[t].run = r
      BY <1>4, <2>1, <3>1, ExecutionSaves
    <3>. QED BY <1>1, <1>4, <2>1, <3>1, <3>2 DEF RunOf
  <2>2. CASE Executing(t) /\ Untouched(t)
    <3>1. Succeeded(RunOf(t))' = Succeeded(RunOf(t))
      BY <2>2 DEF Untouched, Succeeded, RunOf
    <3>2. Cardinality(Succeeded(RunOf(t)) \ slot[t].ctx) <= Interruptions
      BY <2>2 DEF LagInv
    <3>3. Succeeded(RunOf(t)) \ slot[t].ctx \in SUBSET Positions
      BY DEF Succeeded
    <3>4. Cardinality(Succeeded(RunOf(t))' \ slot'[t].ctx) <= Interruptions'
      BY <1>a, <2>2, <3>1, <3>2, <3>3, Counted DEF Untouched
    <3>. QED BY <2>2, <3>4 DEF Untouched, LagInv
  <2>3. CASE /\ ~Executing(t) /\ slot[t].run \in RunIds
             /\ ClaimMatches(slot[t].run) /\ UNCHANGED tasks
             /\ slot'[t].pc = "load" /\ slot'[t].run = slot[t].run
             /\ slot'[t].ctx = runs[slot[t].run].ctx
    <3>1. PICK r \in RunIds : r = slot[t].run
      BY <2>3
    <3>2. runs[r].status \notin Over /\ ~(IsRunning(r) /\ runs[r].lease = "live")
      BY <2>3, <3>1 DEF ClaimMatches, Over, Terminal, IsRunning
    <3>3. ~Checkpointing(r)
      BY <1>a, <3>2
      DEF Checkpointing, Executing, Claiming, At, Safe, LeaseInv, HoldsLease, LeaseHeldBy,
          IsRunning
    <3>4. Cardinality(Unsaved(r)) <= Interruptions
      BY <1>a, <3>3 DEF LagInv
    <3>5. Succeeded(RunOf(t))' \ slot'[t].ctx = Unsaved(r)
      BY <2>3, <3>1 DEF Succeeded, Unsaved, RunOf
    <3>. QED BY <1>a, <1>c, <2>3, <3>4, <3>5
  <2>. QED BY <1>4, <2>1, <2>2, <2>3, StepOnExecution
<1>5. ASSUME NEW r \in RunIds, runs'[r].status = "absent"
      PROVE  Succeeded(r)' = {}
  <2>1. runs[r].status = "absent"
    BY <1>5, StepOnRow
  <2>2. ~(\E s \in Slots : Executing(s) /\ RunOf(s) = r)
    BY <1>a, <2>1 DEF RunsKnown, Executing
  <2>3. tasks'[r] = tasks[r]
    BY <2>2, StepOnRow
  <2>. QED BY <2>1, <2>3 DEF LagInv, Succeeded
<1>6. \A s \in Slots : slot'[s].pc \in {"succeed", "checkpoint"} => Executing(s)'
  BY DEF Executing, Claiming, At
<1>. QED BY <1>3, <1>4, <1>5, <1>6 DEF LagInv

\* The persisted ctx misses the result of the task being checkpointed and of
\* one task for each crash or failed call in between, never more: an execution
\* starts from the ctx it claimed and writes all of its ctx each time
\* (worker.py _run, _run_task; sqlalchemy.py set_run_ctx).
THEOREM CheckpointLagsByOne == LeasesHold => (Spec => []CheckpointLag)
<1>1. SUFFICES ASSUME LeasesHold PROVE Spec => []CheckpointLag
  OBVIOUS
<1>2. Init => LagInv
  <2>. SUFFICES ASSUME Init PROVE LagInv
    OBVIOUS
  <2>1. /\ \A r \in RunIds : Succeeded(r) = {} /\ Unsaved(r) = {}
        /\ \A s \in Slots : slot[s].pc = "idle"
    BY DEF Init, BackendInit, Idle, Succeeded, Unsaved
  <2>2. Interruptions = 0
    BY DEF Init, Interruptions, FaultKinds
  <2>. QED BY <2>1, <2>2, FS_EmptySet DEF LagInv, Checkpointing, Executing, At
<1>3. Sound /\ LagInv /\ [Next]_vars => LagInv'
  BY StepLag
<1>4. Sound /\ LagInv => CheckpointLag
  <2>. SUFFICES ASSUME Sound, LagInv, NEW r \in RunIds
                PROVE  Cardinality(Succeeded(r) \ runs[r].ctx)
                         <= (IF Checkpointing(r) THEN 1 ELSE 0) + Interruptions
    BY DEF CheckpointLag
  <2>1. Interruptions \in Nat /\ Cardinality(Unsaved(r)) \in Nat
    <3>1. Unsaved(r) \in SUBSET Positions
      BY DEF Unsaved, Succeeded
    <3>2. faults["crash"] \in Nat /\ faults["dbError"] \in Nat
      BY DEF Sound, Safe, Typed, TypeOK, FaultKinds
    <3>. QED BY <3>1, <3>2, Counted DEF Interruptions
  <2>2. Cardinality(Unsaved(r)) <= (IF Checkpointing(r) THEN 1 ELSE 0) + Interruptions
    BY DEF LagInv
  <2>. QED BY <2>1, <2>2 DEF Unsaved
<1>. QED BY <1>1, <1>2, <1>3, <1>4, OutcomeInvariant, PTL DEF Spec
================================================================================
