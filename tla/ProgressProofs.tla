---------------------------- MODULE ProgressProofs ----------------------------
(***************************************************************************)
(* Proofs about the tasks of a run, for any number of tasks: they succeed  *)
(* in order, are undone in reverse order and are never repeated, and a run *)
(* that succeeded has all of them behind it; crashes and failed calls are  *)
(* unbounded, leases hold.                                                 *)
(***************************************************************************)
EXTENDS WorkerProofs

-----------------------------------------------------------------------------
(* One row of tasks, and one slot.                                          *)

Writes(r, p, row) == tasks' = [tasks EXCEPT ![r][p] = row]

\* What a write to one task does to the set of those that have succeeded.
LEMMA TaskWrite ==
  ASSUME tasks \in [RunIds -> [Positions -> TaskRow]],
         NEW r \in RunIds, NEW p \in Positions, NEW row, Writes(r, p, row)
  PROVE  /\ \A q \in RunIds \ {r} : tasks'[q] = tasks[q]
         /\ \A q \in Positions \ {p} : tasks'[r][q] = tasks[r][q]
         /\ tasks'[r][p] = row
         /\ row.status = "succeeded" => Succeeded(r)' = Succeeded(r) \cup {p}
         /\ row.status # "succeeded" => Succeeded(r)' = Succeeded(r) \ {p}
<1>1. /\ \A q \in RunIds \ {r} : tasks'[q] = tasks[q]
      /\ \A q \in Positions \ {p} : tasks'[r][q] = tasks[r][q]
      /\ tasks'[r][p] = row
  BY DEF Writes
<1>. QED BY <1>1 DEF Succeeded

\* A slot and a row that nothing has happened to.
LEMMA SameProgress ==
  ASSUME NEW s \in Slots, SlotProgress(s),
         slot'[s].pc = slot[s].pc, slot'[s].run = slot[s].run,
         slot'[s].pos = slot[s].pos, slot'[s].todo = slot[s].todo,
         tasks'[slot[s].run] = tasks[slot[s].run],
         runs'[slot[s].run].status = "succeeded"
           => runs[slot[s].run].status = "succeeded"
  PROVE  SlotProgress(s)'
BY DEF SlotProgress, RunOf, At, Succeeded, TaskExists

LEMMA SameRow ==
  ASSUME NEW r \in RunIds, RowProgress(r), tasks'[r] = tasks[r],
         runs'[r].status = "succeeded" => runs[r].status = "succeeded"
  PROVE  RowProgress(r)'
BY DEF RowProgress, Succeeded

LEMMA CompletesMoves ==
  ASSUME Typed, NEW r, Completes(r)
  PROVE  \E t \in Slots : /\ slot[t].pc = "complete" /\ slot[t].run = r
                          /\ slot'[t].pc = "resetAttempts"
<1>1. PICK t \in Slots : Complete(t) /\ RunOf(t) = r
  BY DEF Completes
<1>2. slot \in [Slots -> SlotState]
  BY DEF Typed, TypeOK
<1>. QED BY <1>1, <1>2 DEF Complete, Goto, At, RunOf, SlotState

\* The others go on as they are while one coroutine takes a step.
LEMMA OthersStay ==
  ASSUME Typed, NEW s \in Slots, CallStep(s) \/ TaskStep(s) \/ CallFails(s),
         NEW t \in Slots, t # s, Executing(t)'
  PROVE  slot'[t] = slot[t]
<1>a. slot \in [Slots -> SlotState]
  BY DEF Typed, TypeOK
<1>1. ASSUME NEW slots, slots[t] = slot[t], NEW r, slot' = Outdate(slots, r)
      PROVE  slot'[t] = slot[t]
  <2>1. slot'[t] = IF slots[t].pc = "selected" /\ slots[t].run = r
                   THEN [slots[t] EXCEPT !.pc = "outdated"] ELSE slots[t]
    BY <1>1 DEF Outdate
  <2>2. slot[t] \in SlotState
    BY <1>a
  <2>3. [slot[t] EXCEPT !.pc = "outdated"].pc = "outdated"
    BY <2>2 DEF SlotState
  <2>4. slot'[t].pc # "outdated"
    BY DEF Executing, Claiming, At
  <2>. QED BY <1>1, <2>1, <2>3, <2>4
<1>2. CASE ClaimSelected(s)
  <2>1. \/ slot' = Outdate([slot EXCEPT ![s].pc = "load",
                                        ![s].ctx = runs[RunOf(s)].ctx], RunOf(s))
        \/ slot' = [slot EXCEPT ![s] = Idle]
    BY <1>2 DEF ClaimSelected, Release
  <2>. QED BY <1>1, <1>a, <2>1
<1>3. CASE ReleaseForRetry(s)
  <2>1. slot' = Outdate([slot EXCEPT ![s].pc = "leave"], RunOf(s))
    BY <1>3 DEF ReleaseForRetry
  <2>. QED BY <1>1, <1>a, <2>1
<1>4. CASE \/ SelectRun(s) \/ MissSelected(s) \/ LoadJob(s) \/ CancelLoaded(s)
           \/ FailLoaded(s) \/ ReadRecords(s) \/ PersistExhausted(s)
           \/ StartTask(s) \/ SucceedTask(s) \/ Checkpoint(s) \/ CancelTask(s)
           \/ CancelTaskRun(s) \/ PersistRetry(s) \/ RetryTask(s)
           \/ PersistFailure(s) \/ FailTask(s) \/ TaskStep(s) \/ CallFails(s)
  BY <1>a, <1>4
  DEF SelectRun, MissSelected, LoadJob, CancelLoaded, FailLoaded, ReadRecords,
      PersistExhausted, StartTask, SucceedTask, Checkpoint, CancelTask,
      CancelTaskRun, PersistRetry, RetryTask, PersistFailure, FailTask,
      TaskStep, TaskReturns, TaskRaises, TaskAborts, CallFails, Goto, Release
<1>5. CASE \/ Gather(s) \/ UndoTask(s) \/ FinalizeFailed(s) \/ CountFailure(s)
           \/ RetryWholeRun(s) \/ Complete(s) \/ ResetAttempts(s)
           \/ FailUnhandled(s) \/ LeaveRun(s)
  BY <1>a, <1>5
  DEF Gather, UndoTask, FinalizeFailed, CountFailure, RetryWholeRun, Complete,
      ResetAttempts, FailUnhandled, LeaveRun, Goto, Release
<1>. QED BY <1>2, <1>3, <1>4, <1>5 DEF CallStep

\* A coroutine that writes no task and completes no run.
LEMMA QuietStep ==
  ASSUME Safe, ProgressInv, [Next]_vars, UNCHANGED tasks,
         NEW s \in Slots,
         \A r \in RunIds : ~Completes(r),
         \A t \in Slots \ {s} : Executing(t)' => slot'[t] = slot[t],
         Executing(s)' => SlotProgress(s)'
  PROVE  ProgressInv'
<1>1. \A r \in RunIds : runs'[r].status = "succeeded" => runs[r].status = "succeeded"
  BY OnlyCompleteSucceeds DEF Safe
<1>2. \A r \in RunIds : RowProgress(r)'
  BY <1>1, SameRow DEF ProgressInv
<1>3. ASSUME NEW t \in Slots \ {s}, Executing(t)'
      PROVE  SlotProgress(t)'
  <2>1. slot'[t] = slot[t] /\ Executing(t) /\ slot[t].run \in RunIds
    BY <1>3 DEF Executing, Claiming, At, Safe, Typed, SlotInv, WorkingSlot
  <2>. QED BY <1>1, <2>1, SameProgress DEF ProgressInv
<1>. QED BY <1>2, <1>3 DEF ProgressInv

\* A coroutine that writes to its own run and its tasks.
LEMMA OwnProgress ==
  ASSUME Safe, ProgressInv, [Next]_vars,
         NEW s \in Slots, Executing(s), NEW r \in RunIds, r = RunOf(s),
         \A t \in Slots \ {s} : Executing(t)' => slot'[t] = slot[t],
         \A q \in RunIds \ {r} : tasks'[q] = tasks[q] /\ ~Completes(q),
         RowProgress(r)',
         Executing(s)' => SlotProgress(s)'
  PROVE  ProgressInv'
<1>1. \A q \in RunIds \ {r} :
        runs'[q].status = "succeeded" => runs[q].status = "succeeded"
  BY OnlyCompleteSucceeds DEF Safe
<1>2. \A q \in RunIds : RowProgress(q)'
  BY <1>1, SameRow DEF ProgressInv
<1>3. ASSUME NEW t \in Slots \ {s}, Executing(t)'
      PROVE  SlotProgress(t)'
  <2>1. slot'[t] = slot[t] /\ Executing(t) /\ slot[t].run \in RunIds
    BY <1>3 DEF Executing, Claiming, At, Safe, Typed, SlotInv, WorkingSlot
  <2>2. slot[t].run # r
    BY <2>1 DEF Safe, LeaseInv, ExclusiveExecution, RunOf
  <2>. QED BY <1>1, <2>1, <2>2, SameProgress DEF ProgressInv
<1>. QED BY <1>2, <1>3 DEF ProgressInv

LEMMA NotCompleting ==
  ASSUME Typed, NEW s \in Slots,
         slot[s].pc # "complete" \/ slot'[s].pc # "resetAttempts",
         \A t \in Slots \ {s} : Executing(t)' => slot'[t] = slot[t]
  PROVE  \A r \in RunIds : ~Completes(r)
BY CompletesMoves DEF Executing, Claiming, At

-----------------------------------------------------------------------------
(* The steps of a coroutine.                                                *)

\* What is known of a coroutine at work before its step, and of the others.
AtWork(s, r) ==
  /\ Executing(s) /\ r = RunOf(s) /\ r \in RunIds
  /\ slot[s] \in WorkingSlot
  /\ RowProgress(r) /\ SlotProgress(s)
  /\ \A t \in Slots \ {s} : Executing(t)' => slot'[t] = slot[t]

\* Those that write to the tasks.
LEMMA WritersProgress ==
  ASSUME Safe, ProgressInv, [Next]_vars, NEW s \in Slots,
         NEW r \in RunIds, AtWork(s, r),
         \/ StartTask(s) \/ SucceedTask(s) \/ CancelTask(s) \/ RetryTask(s)
         \/ FailTask(s) \/ UndoTask(s)
  PROVE  ProgressInv'
<1>a. /\ slot \in [Slots -> SlotState] /\ slot[s] \in SlotState
      /\ tasks \in [RunIds -> [Positions -> TaskRow]]
      /\ NTasks \in Nat \ {0}
  BY BoundsAreNumbers DEF Safe, Typed, TypeOK, BackendTypeOK
<1>b. /\ r = RunOf(s) /\ r = slot[s].run
      /\ RowProgress(r) /\ SlotProgress(s) /\ slot[s] \in WorkingSlot
  BY DEF AtWork, RunOf
<1>c. \A q \in RunIds : ~Completes(q)
  <2>1. slot[s].pc # "complete"
    BY DEF StartTask, SucceedTask, CancelTask, RetryTask, FailTask, UndoTask, At
  <2>. QED BY <2>1, NotCompleting DEF AtWork, Safe
<1>d. UNCHANGED runs
  BY DEF StartTask, SucceedTask, CancelTask, RetryTask, FailTask, UndoTask
<1>e. ASSUME NEW p \in Positions, NEW row, Writes(r, p, row),
             RowProgress(r)', Executing(s)' => SlotProgress(s)'
      PROVE  ProgressInv'
  BY <1>a, <1>c, <1>e, TaskWrite, OwnProgress DEF AtWork
<1>f. ASSUME NEW p \in Positions, p = slot[s].pos, slot[s].pc \in AtTask,
             NEW row, Writes(r, p, row),
             row.status # "succeeded",
             NEW label \in {"body", "release", "gather", "cancelRun"},
             Goto(s, label), label = "body" => row.status # "absent"
      PROVE  ProgressInv'
  <2>1. Succeeded(r) = Upto(p)
    BY <1>b, <1>f DEF SlotProgress
  <2>2. p \notin Succeeded(r)
    BY <1>a, <2>1 DEF Upto, Positions
  <2>3. Succeeded(r)' = Succeeded(r) /\ tasks'[r][p] = row
    <3>1. /\ tasks \in [RunIds -> [Positions -> TaskRow]]
          /\ Writes(r, p, row) /\ row.status # "succeeded"
      BY <1>a, <1>f
    <3>2. Succeeded(r)' = Succeeded(r) \ {p} /\ tasks'[r][p] = row
      BY <3>1, TaskWrite
    <3>. QED BY <2>2, <3>2
  <2>4. runs[r].status # "succeeded" /\ runs'[r].status # "succeeded"
    BY <1>b, <1>d, <1>f DEF SlotProgress, AtTask
  <2>5. RowProgress(r)'
    BY <1>b, <2>3, <2>4 DEF RowProgress
  <2>6. slot'[s].pc = label /\ slot'[s].run = r /\ slot'[s].pos = p
    <3>1. slot'[s] = [slot[s] EXCEPT !.pc = label]
      BY <1>a, <1>f DEF Goto
    <3>. QED BY <1>a, <1>b, <1>f, <3>1 DEF SlotState
  <2>7. SlotProgress(s)'
    BY <1>f, <2>1, <2>3, <2>4, <2>6
    DEF SlotProgress, RunOf, At, AtTask, TaskExists
  <2>. QED BY <1>e, <1>f, <2>5, <2>7
<1>g. \A p \in Positions : tasks[r][p] \in TaskRow
  BY <1>a
<1>1. CASE StartTask(s) \/ CancelTask(s) \/ RetryTask(s) \/ FailTask(s)
  <2>. DEFINE p == slot[s].pos
  <2>1. p \in Positions /\ slot[s].pc \in AtTask
    BY <1>1, <1>b
    DEF WorkingSlot, TaskLabels, AtTask, StartTask, CancelTask, RetryTask,
        FailTask, At
  <2>2. CASE StartTask(s)
    <3>. DEFINE row == [status |-> "running", attempts |-> Attempt(s)]
    <3>1. Writes(r, p, row) /\ Goto(s, "body")
      BY <1>b, <2>2 DEF StartTask, TaskStarts, Writes
    <3>2. row.status \notin {"succeeded", "absent"}
      OBVIOUS
    <3>. HIDE DEF row
    <3>. QED BY <1>f, <2>1, <3>1, <3>2
  <2>3. CASE RetryTask(s) \/ FailTask(s)
    <3>. DEFINE row == IF TaskExists(r, p)
                       THEN [status |-> "failed", attempts |-> Attempt(s)]
                       ELSE tasks[r][p]
    <3>1. /\ Writes(r, p, row)
          /\ \E label \in {"release", "gather"} : Goto(s, label)
      BY <1>a, <1>b, <2>3 DEF RetryTask, FailTask, TaskFails, UpdateTask, Writes
    <3>2. row.status # "succeeded"
      BY DEF TaskExists
    <3>. HIDE DEF row
    <3>. QED BY <1>f, <2>1, <3>1, <3>2
  <2>4. CASE CancelTask(s)
    <3>. DEFINE row == IF TaskExists(r, p)
                       THEN [tasks[r][p] EXCEPT !.status = "cancelled"]
                       ELSE tasks[r][p]
    <3>1. /\ Writes(r, p, row)
          /\ \E label \in {"cancelRun"} : Goto(s, label)
      BY <1>a, <1>b, <2>4 DEF CancelTask, TaskIsCancelled, UpdateTask,
         Writes
    <3>2. row.status # "succeeded"
      BY <1>g, <2>1 DEF TaskExists, TaskRow
    <3>. HIDE DEF row
    <3>. QED BY <1>f, <2>1, <3>1, <3>2
  <2>. QED BY <1>1, <2>2, <2>3, <2>4
<1>2. CASE SucceedTask(s)
  <2>. DEFINE p == slot[s].pos
  <2>1. /\ p \in Positions /\ slot[s].pc = "succeed"
        /\ Succeeded(r) = Upto(p) /\ TaskExists(r, p)
    BY <1>2, <1>b
    DEF WorkingSlot, TaskLabels, SucceedTask, At, SlotProgress, AtTask
  <2>. DEFINE row == [tasks[r][p] EXCEPT !.status = "succeeded"]
  <2>2. Writes(r, p, row) /\ row.status = "succeeded"
    BY <1>2, <1>b, <1>g, <2>1
    DEF SucceedTask, TaskSucceeds, UpdateTask, TaskExists, TaskRow, Writes
  <2>. HIDE DEF row
  <2>3. Succeeded(r)' = Upto(p) \cup {p}
    <3>1. tasks \in [RunIds -> [Positions -> TaskRow]] /\ p \in Positions
      BY <1>a, <2>1
    <3>2. Succeeded(r)' = Succeeded(r) \cup {p}
      BY <2>2, <3>1, TaskWrite
    <3>. QED BY <2>1, <3>2
  <2>4. Upto(p) \cup {p} = Upto(p + 1)
    BY <1>a, <2>1 DEF Upto, Positions
  <2>5. runs'[r].status # "succeeded"
    BY <1>b, <1>d, <2>1 DEF SlotProgress, AtTask
  <2>6. RowProgress(r)'
    BY <2>1, <2>3, <2>4, <2>5, <1>a DEF RowProgress, Upto, Positions
  <2>7. /\ slot'[s].pc = "checkpoint" /\ slot'[s].run = r /\ slot'[s].pos = p
    BY <1>2, <1>a, <1>b DEF SucceedTask, Goto, SlotState
  <2>8. SlotProgress(s)'
    BY <2>3, <2>4, <2>5, <2>7 DEF SlotProgress, RunOf, At, AtTask
  <2>. QED BY <1>e, <2>1, <2>2, <2>6, <2>8
<1>3. CASE UndoTask(s)
  <2>1. PICK p \in slot[s].todo :
          /\ \A q \in slot[s].todo : q <= p
          /\ TaskIsCompensated(r, p)
          /\ slot' = [slot EXCEPT
               ![s].pc = IF slot[s].todo = {p} THEN "failRun" ELSE "undo",
               ![s].todo = @ \ {p}]
    BY <1>3, <1>b DEF UndoTask
  <2>2. slot[s].pc = "undo" /\ slot[s].todo = Succeeded(r) /\ p \in Positions
    BY <1>3, <1>b, <2>1 DEF UndoTask, At, SlotProgress, Succeeded
  <2>. DEFINE row == [tasks[r][p] EXCEPT !.status = "compensated"]
  <2>3. Writes(r, p, row) /\ row.status = "compensated"
    <3>1. tasks[r][p] \in TaskRow /\ TaskExists(r, p)
      BY <1>g, <2>2 DEF Succeeded, TaskExists
    <3>. QED BY <2>1, <3>1 DEF TaskIsCompensated, UpdateTask, TaskRow, Writes
  <2>. HIDE DEF row
  <2>4. Succeeded(r)' = Succeeded(r) \ {p}
    BY <1>a, <2>2, <2>3, TaskWrite
  <2>5. runs'[r].status # "succeeded"
    BY <1>b, <1>d, <2>2 DEF SlotProgress
  <2>6. RowProgress(r)'
    BY <1>a, <1>b, <2>1, <2>2, <2>4, <2>5 DEF RowProgress, Positions
  <2>7. /\ slot'[s].pc \in {"failRun", "undo"} /\ slot'[s].run = r
        /\ slot'[s].todo = slot[s].todo \ {p}
    BY <2>1, <1>a, <1>b DEF SlotState
  <2>8. SlotProgress(s)'
    BY <2>2, <2>4, <2>5, <2>7 DEF SlotProgress, RunOf, At, AtTask
  <2>. QED BY <1>e, <2>2, <2>3, <2>6, <2>8
<1>. QED BY <1>1, <1>2, <1>3

\* Those that do not.
LEMMA ReadersProgress ==
  ASSUME Safe, ProgressInv, [Next]_vars, NEW s \in Slots,
         NEW r \in RunIds, AtWork(s, r),
         \/ LoadJob(s) \/ CancelLoaded(s) \/ FailLoaded(s) \/ ReadRecords(s)
         \/ PersistExhausted(s) \/ Checkpoint(s) \/ CancelTaskRun(s)
         \/ PersistRetry(s) \/ ReleaseForRetry(s) \/ PersistFailure(s)
         \/ Gather(s) \/ FinalizeFailed(s) \/ CountFailure(s)
         \/ RetryWholeRun(s) \/ Complete(s) \/ ResetAttempts(s)
         \/ FailUnhandled(s) \/ TaskStep(s) \/ CallFails(s)
  PROVE  ProgressInv'
<1>a. /\ slot \in [Slots -> SlotState] /\ slot[s] \in SlotState
      /\ NTasks \in Nat \ {0}
  BY BoundsAreNumbers DEF Safe, Typed, TypeOK, BackendTypeOK
<1>b. /\ r = RunOf(s) /\ r = slot[s].run
      /\ RowProgress(r) /\ SlotProgress(s) /\ slot[s] \in WorkingSlot
  BY DEF AtWork, RunOf
<1>c. UNCHANGED tasks
  BY DEF LoadJob, CancelLoaded, FailLoaded, ReadRecords, PersistExhausted,
         Checkpoint, CancelTaskRun, PersistRetry, ReleaseForRetry,
         PersistFailure, Gather, FinalizeFailed, CountFailure, RetryWholeRun,
         Complete, ResetAttempts, FailUnhandled, TaskStep, TaskReturns,
         TaskRaises, TaskAborts, CallFails, tables
<1>d. Succeeded(r)' = Succeeded(r)
  BY <1>c DEF Succeeded
<1>e. ASSUME slot'[s].pc # "resetAttempts", Executing(s)' => SlotProgress(s)'
      PROVE  ProgressInv'
  BY <1>c, <1>e, NotCompleting, QuietStep DEF AtWork, Safe
<1>f. ASSUME slot'[s].pc # "resetAttempts", runs'[r].status = "succeeded"
      PROVE  slot[s].pc \in {"resetAttempts", "abort"}
  <2>1. ~Completes(r)
    BY <1>f, NotCompleting DEF AtWork, Safe
  <2>2. runs[r].status = "succeeded"
    BY <1>f, <2>1, OnlyCompleteSucceeds DEF Safe
  <2>. QED BY <1>b, <2>2 DEF SlotProgress
\* Nothing is said of what the coroutine is at next.
<1>g. ASSUME NEW label \in {"cancelLoaded", "failLoaded", "records", "gather",
                            "failRun", "increment", "retryRun", "abort"},
             slot[s].pc # "abort",
             label = "abort" \/ slot[s].pc # "resetAttempts",
             Goto(s, label)
      PROVE  ProgressInv'
  <2>1. slot'[s] = [slot[s] EXCEPT !.pc = label]
    BY <1>a, <1>g DEF Goto
  <2>2. slot'[s].pc = label /\ slot'[s].run = r
    BY <1>a, <1>b, <2>1 DEF SlotState
  <2>3. SlotProgress(s)'
    BY <1>f, <1>g, <2>2 DEF SlotProgress, RunOf, At, AtTask
  <2>. QED BY <1>e, <1>g, <2>2, <2>3
\* The task at pos is still the first that has not succeeded.
<1>h. ASSUME NEW label \in AtTask, slot[s].pc \in AtTask,
             label \in {"body", "succeed"} => slot[s].pc \in {"body", "succeed"},
             slot'[s].pc = label, slot'[s].run = slot[s].run,
             slot'[s].pos = slot[s].pos
      PROVE  ProgressInv'
  <2>1. /\ slot[s].pc \notin {"resetAttempts", "abort"}
        /\ slot'[s].pc # "resetAttempts"
    BY <1>h DEF AtTask
  <2>2. Succeeded(r) = Upto(slot[s].pos)
    BY <1>b, <1>h DEF SlotProgress
  <2>3. label \in {"body", "succeed"} => tasks[r][slot[s].pos].status # "absent"
    BY <1>b, <1>h DEF SlotProgress, TaskExists
  <2>4. SlotProgress(s)'
    BY <1>b, <1>c, <1>d, <1>f, <1>h, <2>1, <2>2, <2>3
    DEF SlotProgress, RunOf, At, AtTask, TaskExists
  <2>. QED BY <1>e, <2>1, <2>4
<1>1. CASE Complete(s)
  <2>1. slot[s].pc = "complete" /\ Succeeded(r) = Positions
    BY <1>1, <1>b DEF Complete, At, SlotProgress
  <2>2. slot'[s].pc = "resetAttempts" /\ slot'[s].run = r
    BY <1>1, <1>a, <1>b DEF Complete, Goto, SlotState
  <2>3. RowProgress(r)'
    BY <1>d, <2>1 DEF RowProgress
  <2>4. SlotProgress(s)'
    BY <2>2 DEF SlotProgress, At, AtTask
  <2>5. \A q \in RunIds \ {r} : ~Completes(q)
    BY <1>b, CompletesMoves DEF AtWork, Executing, Claiming, At, Safe
  <2>. QED BY <1>c, <2>3, <2>4, <2>5, OwnProgress DEF AtWork
<1>2. CASE \/ CancelLoaded(s) \/ FailLoaded(s) \/ CancelTaskRun(s)
           \/ ReleaseForRetry(s) \/ RetryWholeRun(s) \/ ResetAttempts(s)
           \/ FailUnhandled(s)
  <2>1. CASE ReleaseForRetry(s)
    <3>1. slot'[s].pc = "leave"
      BY <1>a, <2>1, ReleaseLeaves DEF SlotState
    <3>. QED BY <1>e, <3>1 DEF Executing, At
  <2>2. CASE ~ReleaseForRetry(s)
    <3>1. slot'[s] = Idle
      BY <1>a, <1>2, <2>2
      DEF CancelLoaded, FailLoaded, CancelTaskRun, RetryWholeRun,
          ResetAttempts, FailUnhandled, Release
    <3>. QED BY <1>e, <3>1 DEF Executing, At, Idle
  <2>. QED BY <2>1, <2>2
<1>3. CASE \/ LoadJob(s) \/ PersistExhausted(s) \/ FinalizeFailed(s)
           \/ CountFailure(s) \/ CallFails(s)
  <2>1. CASE Release(s)
    <3>1. slot'[s] = Idle
      BY <1>a, <2>1 DEF Release
    <3>. QED BY <1>e, <3>1 DEF Executing, At, Idle
  <2>2. CASE CallFails(s) /\ ~Release(s)
    <3>1. Goto(s, "abort") /\ slot[s].pc # "abort"
      BY <2>2 DEF CallFails, At
    <3>. QED BY <1>g, <3>1
  <2>3. CASE LoadJob(s)
    <3>1. \E label \in {"cancelLoaded", "failLoaded", "records"} : Goto(s, label)
      BY <2>3 DEF LoadJob
    <3>. QED BY <1>g, <2>3, <3>1 DEF LoadJob, At
  <2>4. CASE PersistExhausted(s)
    BY <1>g, <2>4 DEF PersistExhausted, At
  <2>5. CASE (FinalizeFailed(s) \/ CountFailure(s)) /\ ~Release(s)
    <3>1. \E label \in {"increment", "retryRun"} : Goto(s, label)
      BY <2>5 DEF FinalizeFailed, CountFailure
    <3>. QED BY <1>g, <2>5, <3>1 DEF FinalizeFailed, CountFailure, At
  <2>. QED BY <1>3, <2>1, <2>2, <2>3, <2>4, <2>5
<1>4. CASE TaskStep(s) \/ PersistRetry(s) \/ PersistFailure(s)
  <2>1. CASE TaskReturns(s)
    <3>1. /\ slot[s].pc = "body" /\ slot'[s].pc = "succeed"
          /\ slot'[s].run = slot[s].run /\ slot'[s].pos = slot[s].pos
      BY <1>a, <2>1 DEF TaskReturns, At, SlotState
    <3>. QED BY <1>h, <3>1 DEF AtTask
  <2>2. CASE \/ TaskRaises(s) \/ TaskAborts(s) \/ PersistRetry(s)
             \/ PersistFailure(s)
    <3>1. /\ slot[s].pc \in {"body", "retryCtx", "failCtx"}
          /\ \E label \in {"failCtx", "retryCtx", "cancelTask", "retryTask",
                           "failTask"} : Goto(s, label)
      BY <2>2 DEF TaskRaises, TaskAborts, PersistRetry, PersistFailure, At
    <3>2. PICK label \in {"failCtx", "retryCtx", "cancelTask", "retryTask",
                          "failTask"} :
            slot' = [slot EXCEPT ![s].pc = label]
      BY <3>1 DEF Goto
    <3>3. /\ slot'[s].pc = label /\ slot'[s].run = slot[s].run
          /\ slot'[s].pos = slot[s].pos
      BY <1>a, <3>2 DEF SlotState
    <3>. QED BY <1>h, <3>1, <3>2, <3>3 DEF AtTask
  <2>. QED BY <1>4, <2>1, <2>2 DEF TaskStep
<1>5. CASE ReadRecords(s)
  <2>1. PICK p \in 0 .. NTasks :
          /\ ResumesAt(r, p)
          /\ slot' = [slot EXCEPT
               ![s].pc = CASE p = NTasks -> "complete"
                           [] p # NTasks /\ Exhausted(r, p) -> "exhausted"
                           [] OTHER -> "start",
               ![s].pos = p,
               ![s].tried = [q \in Positions |-> tasks[r][q].attempts]]
    BY <1>5, <1>b DEF ReadRecords
  <2>2. /\ slot'[s].run = r /\ slot'[s].pos = p
        /\ slot'[s].pc \in {"complete", "exhausted", "start"}
        /\ slot'[s].pc = "complete" => p = NTasks
    BY <1>a, <1>b, <2>1 DEF SlotState
  <2>3. Succeeded(r) = Upto(p)
    <3>1. \A q \in Positions : q < p => q \in Succeeded(r)
      BY <2>1 DEF ResumesAt
    <3>2. \A q \in Succeeded(r) : q \in Positions /\ q < p
      <4>. SUFFICES ASSUME NEW q \in Succeeded(r), ~(q < p) PROVE FALSE
        BY DEF Succeeded
      <4>1. q \in Positions /\ p \in Positions /\ p <= q
        BY <1>a DEF Succeeded, Positions
      <4>2. p \notin Succeeded(r)
        BY <2>1 DEF ResumesAt
      <4>. QED BY <1>b, <4>1, <4>2 DEF RowProgress, Positions
    <3>. QED BY <3>1, <3>2 DEF Upto
  <2>4. p = NTasks => Upto(p) = Positions
    BY <1>a DEF Upto, Positions
  <2>5. slot[s].pc = "records"
    BY <1>5 DEF ReadRecords, At
  <2>6. SlotProgress(s)'
    BY <1>d, <1>f, <2>2, <2>3, <2>4, <2>5 DEF SlotProgress, RunOf, At, AtTask
  <2>. QED BY <1>e, <2>2, <2>6
<1>6. CASE Checkpoint(s)
  <2>. DEFINE p == slot[s].pos
  <2>1. slot[s].pc = "checkpoint" /\ p \in Positions
    BY <1>6, <1>b DEF Checkpoint, At, WorkingSlot, TaskLabels
  <2>2. /\ slot'[s].run = r /\ slot'[s].pos = p + 1
        /\ slot'[s].pc = IF p + 1 < NTasks THEN "start" ELSE "complete"
    BY <1>6, <1>a, <1>b DEF Checkpoint, AfterTask, SlotState
  <2>3. Succeeded(r) = Upto(p + 1)
    BY <1>b, <2>1 DEF SlotProgress, At
  <2>4. ~(p + 1 < NTasks) => Upto(p + 1) = Positions
    BY <1>a, <2>1 DEF Upto, Positions
  <2>5. SlotProgress(s)'
    BY <1>d, <1>f, <2>1, <2>2, <2>3, <2>4 DEF SlotProgress, RunOf, At, AtTask
  <2>. QED BY <1>e, <2>2, <2>5
<1>7. CASE Gather(s)
  <2>1. /\ slot[s].pc = "gather" /\ slot'[s].run = r
        /\ slot'[s].pc \in {"failRun", "undo"}
        /\ slot'[s].todo = Succeeded(r)
    BY <1>7, <1>a, <1>b DEF Gather, At, SlotState
  <2>2. SlotProgress(s)'
    BY <1>d, <1>f, <2>1 DEF SlotProgress, RunOf, At, AtTask
  <2>. QED BY <1>e, <2>1, <2>2
<1>. QED BY <1>1, <1>2, <1>3, <1>4, <1>5, <1>6, <1>7

\* A coroutine that holds no run yet.
LEMMA ClaimsProgress ==
  ASSUME Safe, ProgressInv, [Next]_vars, NEW s \in Slots, ~Executing(s),
         CallStep(s) \/ TaskStep(s) \/ CallFails(s)
  PROVE  ProgressInv'
<1>a. slot \in [Slots -> SlotState] /\ slot[s] \in SlotState
  BY DEF Safe, Typed, TypeOK
<1>1. \/ SelectRun(s) \/ ClaimSelected(s) \/ MissSelected(s) \/ CallFails(s)
      \/ LeaveRun(s)
  BY DEF CallStep, TaskStep, LoadJob, CancelLoaded, FailLoaded, ReadRecords,
         PersistExhausted, StartTask, SucceedTask, Checkpoint, CancelTask,
         CancelTaskRun, PersistRetry, RetryTask, ReleaseForRetry,
         PersistFailure, FailTask, Gather, UndoTask, FinalizeFailed,
         CountFailure, RetryWholeRun, Complete, ResetAttempts, FailUnhandled,
         TaskReturns, TaskRaises, TaskAborts, Executing, Claiming, At
<1>2. /\ UNCHANGED tasks
      /\ \A t \in Slots \ {s} : Executing(t)' => slot'[t] = slot[t]
      /\ slot[s].pc # "complete"
  BY <1>1, OthersStay
  DEF SelectRun, ClaimSelected, MissSelected, CallFails, LeaveRun, tables, Safe,
      Executing, Claiming, At
<1>3. \A r \in RunIds : ~Completes(r)
  BY <1>2, NotCompleting DEF Safe
<1>4. ASSUME Executing(s)'
      PROVE  SlotProgress(s)'
  <2>1. ClaimSelected(s) /\ ClaimMatches(RunOf(s))
    <3>1. slot'[s] # Idle
      BY <1>4 DEF Executing, At, Idle
    <3>2. ~Release(s)
      BY <1>a, <3>1 DEF Release
    <3>3. ~MissSelected(s) /\ ~CallFails(s) /\ ~LeaveRun(s)
      BY <3>2 DEF MissSelected, CallFails, LeaveRun, Executing, Claiming, At
    <3>4. ~SelectRun(s)
      <4>1. SelectRun(s) => slot'[s].pc = "selected"
        BY <1>a DEF SelectRun, SlotState
      <4>. QED BY <1>4, <4>1 DEF Executing, Claiming
    <3>. QED BY <1>1, <3>2, <3>3, <3>4 DEF ClaimSelected
  <2>2. slot' = Outdate([slot EXCEPT ![s].pc = "load",
                                     ![s].ctx = runs[RunOf(s)].ctx], RunOf(s))
    BY <2>1 DEF ClaimSelected
  <2>3. slot'[s].pc = "load" /\ slot'[s].run = slot[s].run
    BY <1>a, <2>2 DEF Outdate, SlotState
  <2>4. slot[s].run \in RunIds
    BY <2>1 DEF ClaimSelected, At, Safe, Typed, SlotInv, WorkingSlot
  <2>5. runs'[slot[s].run].status # "succeeded"
    BY <1>3, <2>1, <2>4, OnlyCompleteSucceeds DEF ClaimMatches, RunOf, Safe
  <2>. QED BY <2>3, <2>5 DEF SlotProgress, RunOf, At, AtTask
<1>. QED BY <1>2, <1>3, <1>4, QuietStep

-----------------------------------------------------------------------------
(* Every step.                                                              *)

LEMMA StepProgress ==
  ASSUME Safe, ProgressInv, [Next]_vars
  PROVE  ProgressInv'
<1>a. slot \in [Slots -> SlotState] /\ Typed
  BY DEF Safe, Typed, TypeOK
<1>1. ASSUME NEW s \in Slots, CallStep(s) \/ TaskStep(s) \/ CallFails(s)
      PROVE  ProgressInv'
  <2>1. CASE ~Executing(s)
    BY <1>1, <2>1, ClaimsProgress
  <2>2. CASE Executing(s)
    <3>1. PICK r \in RunIds : r = RunOf(s)
      BY <2>2 DEF Executing, At, RunOf, Safe, Typed, SlotInv, WorkingSlot
    <3>2. AtWork(s, r)
      BY <1>1, <1>a, <2>2, <3>1, OthersStay DEF AtWork, ProgressInv, Typed, SlotInv
    <3>3. ~SelectRun(s) /\ ~ClaimSelected(s) /\ ~MissSelected(s) /\ ~LeaveRun(s)
      BY <2>2
      DEF SelectRun, ClaimSelected, MissSelected, LeaveRun, Executing, Claiming,
          At
    <3>. QED BY <1>1, <3>2, <3>3, WritersProgress, ReadersProgress DEF CallStep
  <2>. QED BY <2>1, <2>2
<1>2. ASSUME UNCHANGED tasks,
             \A t \in Slots : Executing(t)'
               => /\ slot'[t].pc = slot[t].pc /\ slot'[t].run = slot[t].run
                  /\ slot'[t].pos = slot[t].pos /\ slot'[t].todo = slot[t].todo
      PROVE  ProgressInv'
  <2>1. \A r \in RunIds : ~Completes(r)
    BY <1>2, <1>a, CompletesMoves DEF Executing, Claiming, At
  <2>2. \A r \in RunIds :
          runs'[r].status = "succeeded" => runs[r].status = "succeeded"
    BY <1>a, <2>1, OnlyCompleteSucceeds
  <2>3. \A r \in RunIds : RowProgress(r)'
    BY <1>2, <2>2, SameRow DEF ProgressInv
  <2>4. ASSUME NEW t \in Slots, Executing(t)'
        PROVE  SlotProgress(t)'
    <3>1. Executing(t) /\ slot[t].run \in RunIds
      BY <1>2, <1>a, <2>4
      DEF Executing, Claiming, At, Typed, SlotInv, WorkingSlot
    <3>. QED BY <1>2, <2>2, <2>4, <3>1, SameProgress DEF ProgressInv
  <2>. QED BY <2>3, <2>4 DEF ProgressInv
<1>3. CASE UNCHANGED <<tasks, slot>>
  BY <1>2, <1>3
<1>4. CASE \E w \in Workers : BeatBegins(w) \/ BeatChecks(w)
  <2>1. PICK w \in Workers : BeatBegins(w) \/ BeatChecks(w)
    BY <1>4
  <2>2. UNCHANGED tasks
    BY <2>1 DEF BeatBegins, BeatChecks, tables
  <2>. QED BY <1>2, <1>a, <2>1, <2>2, BeatKeepsSlots
<1>5. CASE \E w \in Workers : BeatRenews(w) \/ BeatDrops(w)
  <2>1. PICK w \in Workers : BeatRenews(w) \/ BeatDrops(w)
    BY <1>5
  <2>2. \A t \in Slots : Executing(t)' => slot'[t] = slot[t]
    BY <1>a, <2>1
    DEF BeatRenews, BeatDrops, Outdate, Executing, Claiming, At, SlotState
  <2>. QED BY <1>2, <2>1, <2>2 DEF BeatRenews, BeatDrops, tables
<1>6. CASE \E w \in Workers : Crash(w)
  <2>1. PICK w \in Workers : Crash(w)
    BY <1>6
  <2>2. \A t \in Slots : Executing(t)' => slot'[t] = slot[t]
    BY <2>1 DEF Crash, Idle, Executing, At
  <2>. QED BY <1>2, <2>1, <2>2 DEF Crash, tables
<1>. QED
  BY <1>1, <1>3, <1>4, <1>5, <1>6
  DEF Next, vars, tables, BeatStep, ClientEnqueues, ClientCancels, Stop,
      Restart, BeatDies, LeaseRunsOut, LeaseLapses, processVars

\* What a coroutine remembers of the task records it has read is what they still
\* say, through crashes, reclaims and interrupted compensations: the inductive
\* invariant of progress (worker.py _run, _run_task, _compensate).
THEOREM ProgressInvariant == LeasesHold => (Spec => [](Safe /\ ProgressInv))
<1>1. SUFFICES ASSUME LeasesHold PROVE Spec => [](Safe /\ ProgressInv)
  OBVIOUS
<1>2. Init => Safe /\ ProgressInv
  <2>1. Init => ProgressInv
    BY DEF Init, BackendInit, NoRun, Idle, ProgressInv, RowProgress, Succeeded,
           Executing, At
  <2>. QED BY <2>1, InitSafe
<1>3. Safe /\ ProgressInv /\ [Next]_vars => (Safe /\ ProgressInv)'
  BY <1>1, StepSafe, StepProgress
<1>. QED BY <1>2, <1>3, PTL DEF Spec

\* Tasks succeed in order and are undone in reverse order, through crashes,
\* retries, reclaims and interrupted compensations, however many tasks.
THEOREM TasksInOrder == LeasesHold => (Spec => []SucceededIsPrefix)
<1>1. ProgressInv => SucceededIsPrefix
  BY DEF ProgressInv, RowProgress, SucceededIsPrefix
<1>. QED BY <1>1, ProgressInvariant, PTL

\* A run that succeeded has every task behind it.
THEOREM SuccessIsComplete == LeasesHold => (Spec => []SucceededMeansAllDone)
<1>1. ProgressInv => SucceededMeansAllDone
  BY DEF ProgressInv, RowProgress, SucceededMeansAllDone
<1>. QED BY <1>1, ProgressInvariant, PTL

\* A task that has succeeded is only ever written to by its compensation.
LEMMA StepKeepsDone ==
  ASSUME Safe, ProgressInv, [Next]_vars, NEW r \in RunIds, NEW p \in Positions,
         tasks[r][p].status = "succeeded"
  PROVE  tasks'[r][p].status \in {"succeeded", "compensated"}
<1>a. /\ tasks \in [RunIds -> [Positions -> TaskRow]]
      /\ tasks[r][p] \in TaskRow
      /\ NTasks \in Nat \ {0}
  BY BoundsAreNumbers DEF Safe, Typed, TypeOK, BackendTypeOK
<1>1. CASE UNCHANGED tasks
  BY <1>1
<1>2. ASSUME NEW s \in Slots,
             StartTask(s) \/ CancelTask(s) \/ RetryTask(s) \/ FailTask(s)
      PROVE  tasks'[r][p] = tasks[r][p]
  <2>1. Executing(s) /\ slot[s].pc \in AtTask
    BY <1>2
    DEF StartTask, CancelTask, RetryTask, FailTask, Executing, Claiming, At,
        AtTask
  <2>2. Succeeded(slot[s].run) = Upto(slot[s].pos)
    BY <2>1 DEF ProgressInv, SlotProgress, RunOf
  <2>3. slot[s].pos \in Nat
    BY <2>1 DEF Safe, Typed, TypeOK, SlotState, SlotInv, WorkingSlot, AtTask,
                TaskLabels, Positions
  <2>4. slot[s].run # r \/ slot[s].pos # p
    BY <2>2, <2>3 DEF Succeeded, Upto
  <2>. QED BY <1>a, <1>2, <2>4
           DEF StartTask, CancelTask, RetryTask, FailTask, TaskStarts,
               TaskIsCancelled, TaskFails, UpdateTask, RunOf
<1>3. ASSUME NEW s \in Slots, SucceedTask(s)
      PROVE  tasks'[r][p].status = "succeeded"
  <2>1. \/ tasks'[r][p] = tasks[r][p]
        \/ tasks'[r][p] = [tasks[r][p] EXCEPT !.status = "succeeded"]
    BY <1>a, <1>3 DEF SucceedTask, TaskSucceeds, UpdateTask
  <2>. QED BY <1>a, <2>1 DEF TaskRow
<1>4. ASSUME NEW s \in Slots, UndoTask(s)
      PROVE  tasks'[r][p].status \in {"succeeded", "compensated"}
  <2>1. \/ tasks'[r][p] = tasks[r][p]
        \/ tasks'[r][p] = [tasks[r][p] EXCEPT !.status = "compensated"]
    BY <1>a, <1>4 DEF UndoTask, TaskIsCompensated, UpdateTask
  <2>. QED BY <1>a, <2>1 DEF TaskRow
<1>. QED
  BY <1>1, <1>2, <1>3, <1>4
  DEF Next, vars, tables, CallStep, TaskStep, BeatStep, SelectRun,
      ClaimSelected, MissSelected, LoadJob, CancelLoaded, FailLoaded,
      ReadRecords, PersistExhausted, Checkpoint, CancelTaskRun, PersistRetry,
      ReleaseForRetry, PersistFailure, Gather, FinalizeFailed, CountFailure,
      RetryWholeRun, Complete, ResetAttempts, FailUnhandled, TaskReturns,
      TaskRaises, TaskAborts, CallFails, LeaveRun, BeatBegins, BeatChecks,
      BeatRenews, BeatDrops, Crash, Stop, Restart, BeatDies, LeaseRunsOut,
      LeaseLapses, ClientEnqueues, ClientCancels

\* Completed work is never repeated, by a retry, a reclaim after a crash or
\* another worker: where leases hold, whoever resumes a run has read what has
\* succeeded, and nobody else writes to its tasks.
THEOREM NothingRerun == LeasesHold => (Spec => NoRerun)
<1>1. Safe /\ ProgressInv /\ [Next]_vars
        => [\A r \in RunIds, p \in Positions :
              tasks[r][p].status = "succeeded"
                => tasks'[r][p].status \in {"succeeded", "compensated"}]_vars
  BY StepKeepsDone
<1>. QED BY <1>1, ProgressInvariant, PTL DEF Spec, NoRerun
=============================================================================
