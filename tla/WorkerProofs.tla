----------------------------- MODULE WorkerProofs -----------------------------
(***************************************************************************)
(* Proofs about the executor, for every value of the constants.  Under any *)
(* number of faults of any kind: its states are typed, what ended stays    *)
(* ended, no run is held for a cancelled job, and what the heartbeat flags *)
(* as cancelled is the context of an execution of that very run.  Where    *)
(* leases do not lapse under a live execution, heartbeats survive, workers *)
(* are killed rather than stopped and no pop of an entry comes too late:   *)
(* two coroutines never execute the same run; crashes and failed calls are *)
(* unbounded.                                                              *)
(***************************************************************************)
EXTENDS WorkerProperties, TLAPS

LEMMA BoundsAreNumbers == MaxRuns \in Nat /\ NTasks \in Nat \ {0}
BY BackendAssumption

-----------------------------------------------------------------------------
(* The operators of the database and of the coroutines are typed.           *)

LEMMA UpdateRunTyped ==
  ASSUME runs \in [RunIds -> RunRow], NEW r, NEW cond, NEW row,
         cond /\ r \in RunIds => row \in RunRow,
         UpdateRun(r, cond, row)
  PROVE  runs' \in [RunIds -> RunRow]
BY DEF UpdateRun

LEMMA RunUpdatesTyped ==
  ASSUME runs \in [RunIds -> RunRow], NEW r \in RunIds
  PROVE  /\ CompleteRun(r) \/ FailRun(r) \/ ReleaseRun(r) \/ CancelRun(r)
              \/ LeaseExpires(r)
            => runs' \in [RunIds -> RunRow]
         /\ \A w \in Workers :
              ClaimRun(r, w) \/ RenewLease(r, w) => runs' \in [RunIds -> RunRow]
         /\ \A ctx \in SUBSET Positions :
              SetRunCtx(r, ctx) => runs' \in [RunIds -> RunRow]
         /\ \A j \in Jobs \cup {None} :
              CreateRun(r, j) => runs' \in [RunIds -> RunRow]
<1>1. /\ \A status \in Terminal :
           [runs[r] EXCEPT !.status = status, !.lease = "none"] \in RunRow
      /\ [runs[r] EXCEPT !.status = "ready", !.lease = "none", !.owner = None]
           \in RunRow
      /\ [runs[r] EXCEPT !.lease = "expired"] \in RunRow
  BY DEF RunRow, Over
<1>2. ASSUME CompleteRun(r) \/ FailRun(r) \/ ReleaseRun(r) \/ CancelRun(r)
             \/ LeaseExpires(r)
      PROVE  runs' \in [RunIds -> RunRow]
  <2>1. CASE LeaseExpires(r)
    BY <1>1, <2>1 DEF LeaseExpires
  <2>2. CASE CompleteRun(r) \/ FailRun(r) \/ ReleaseRun(r) \/ CancelRun(r)
    BY <1>1, <2>2, UpdateRunTyped
    DEF CompleteRun, FailRun, ReleaseRun, CancelRun, Terminal
  <2>. QED BY <1>2, <2>1, <2>2
<1>3. ASSUME NEW w \in Workers, ClaimRun(r, w) \/ RenewLease(r, w)
      PROVE  runs' \in [RunIds -> RunRow]
  <2>1. /\ [runs[r] EXCEPT !.status = "running", !.owner = w, !.lease = "live"]
             \in RunRow
        /\ [runs[r] EXCEPT !.lease = "live"] \in RunRow
    BY DEF RunRow
  <2>. QED BY <1>3, <2>1, UpdateRunTyped DEF ClaimRun, RenewLease
<1>4. ASSUME NEW ctx \in SUBSET Positions, SetRunCtx(r, ctx)
      PROVE  runs' \in [RunIds -> RunRow]
  <2>1. [runs[r] EXCEPT !.ctx = ctx] \in RunRow
    BY DEF RunRow
  <2>. QED BY <1>4, <2>1, UpdateRunTyped DEF SetRunCtx
<1>5. ASSUME NEW j \in Jobs \cup {None}, CreateRun(r, j)
      PROVE  runs' \in [RunIds -> RunRow]
  <2>1. [NoRun EXCEPT !.status = "ready", !.job = j] \in RunRow
    BY DEF RunRow, NoRun
  <2>. QED BY <1>5, <2>1 DEF CreateRun
<1>. QED BY <1>2, <1>3, <1>4, <1>5

LEMMA JobUpdatesTyped ==
  ASSUME jobs \in [Jobs -> JobRow], NEW j,
         IncrementJobAttempts(j) \/ ResetJobAttempts(j)
  PROVE  jobs' \in [Jobs -> JobRow]
<1>1. CASE j \in Jobs
  <2>1. jobs[j] \in JobRow /\ jobs[j].attempts \in Nat
    BY <1>1 DEF JobRow
  <2>2. PICK n \in Nat : jobs' = [jobs EXCEPT ![j].attempts = n]
    <3>1. \E n \in Nat : n = IF JobExists(j) THEN jobs[j].attempts + 1
                           ELSE jobs[j].attempts
      BY <2>1
    <3>2. \E n \in Nat : n = IF JobExists(j) THEN 0 ELSE jobs[j].attempts
      BY <2>1
    <3>. QED BY <3>1, <3>2 DEF IncrementJobAttempts, ResetJobAttempts
  <2>3. [jobs[j] EXCEPT !.attempts = n] \in JobRow
    BY <2>1 DEF JobRow
  <2>. QED BY <2>2, <2>3
<1>2. CASE j \notin Jobs
  BY <1>2 DEF IncrementJobAttempts, ResetJobAttempts
<1>. QED BY <1>1, <1>2

LEMMA TaskUpdatesTyped ==
  ASSUME tasks \in [RunIds -> [Positions -> TaskRow]],
         NEW r \in RunIds, NEW p \in Positions, NEW attempt \in Nat,
         \/ TaskStarts(r, p, attempt) \/ TaskFails(r, p, attempt)
         \/ TaskSucceeds(r, p) \/ TaskIsCancelled(r, p)
         \/ TaskIsCompensated(r, p)
  PROVE  tasks' \in [RunIds -> [Positions -> TaskRow]]
<1>1. PICK row \in TaskRow :
        UpdateTask(r, p, row) \/ tasks' = [tasks EXCEPT ![r][p] = row]
  <2>1. tasks[r][p] \in TaskRow
    OBVIOUS
  <2>2. \A status \in {"succeeded", "cancelled", "compensated"} :
          [tasks[r][p] EXCEPT !.status = status] \in TaskRow
    BY <2>1 DEF TaskRow
  <2>3. \A status \in {"running", "failed"} :
          [status |-> status, attempts |-> attempt] \in TaskRow
    BY DEF TaskRow
  <2>. QED BY <2>2, <2>3
           DEF TaskStarts, TaskFails, TaskSucceeds, TaskIsCancelled,
               TaskIsCompensated
<1>. QED BY <1>1 DEF UpdateTask

LEMMA IdleWorks == Idle \in WorkingSlot
BY BoundsAreNumbers DEF Idle, WorkingSlot, SlotState, Labels, TaskLabels

\* A slot that goes from one label to another still works on its run.
LEMMA GotoTyped ==
  ASSUME SlotInv, NEW s \in Slots, NEW label \in Labels,
         ~At(s, "idle"),
         label \in TaskLabels => slot[s].pos \in Positions,
         Goto(s, label)
  PROVE  SlotInv'
<1>1. slot[s] \in WorkingSlot
  BY DEF SlotInv
<1>2. [slot[s] EXCEPT !.pc = label] \in WorkingSlot
  BY <1>1 DEF WorkingSlot, SlotState, At
<1>. QED BY <1>2 DEF Goto, SlotInv

LEMMA ReleaseTyped ==
  ASSUME SlotInv, NEW s \in Slots, Release(s)
  PROVE  SlotInv'
BY IdleWorks DEF Release, SlotInv

LEMMA OutdateTyped ==
  ASSUME NEW slots \in [Slots -> WorkingSlot], NEW r
  PROVE  Outdate(slots, r) \in [Slots -> WorkingSlot]
<1>. SUFFICES ASSUME NEW t \in Slots, slots[t].pc = "selected"
              PROVE  [slots[t] EXCEPT !.pc = "outdated"] \in WorkingSlot
  BY DEF Outdate
<1>1. slots[t] \in WorkingSlot
  OBVIOUS
<1>. QED BY <1>1 DEF WorkingSlot, SlotState, Labels, TaskLabels

LEMMA UnregisterTyped ==
  ASSUME active \in [Workers -> [RunIds -> Slots \cup {None}]],
         NEW s \in Slots, Unregister(s)
  PROVE  active' \in [Workers -> [RunIds -> Slots \cup {None}]]
BY DEF Unregister

-----------------------------------------------------------------------------
(* Type correctness.                                                        *)

Typed == TypeOK /\ SlotInv

LEMMA InitTyped == Init => Typed
<1>. SUFFICES ASSUME Init PROVE Typed
  OBVIOUS
<1>1. BackendTypeOK
  BY DEF Init, BackendInit, BackendTypeOK, NoRun, JobRow, RunRow, TaskRow
<1>2. Idle \in SlotState /\ SlotInv
  BY IdleWorks DEF Init, SlotInv, WorkingSlot
<1>. QED BY <1>1, <1>2 DEF Typed, Init, TypeOK, Asleep, BeatState

\* The rows an action reads are typed, and what is left to show of a step.
LEMMA RowsTyped ==
  ASSUME Typed
  PROVE  /\ \A s \in Slots : slot[s] \in WorkingSlot
         /\ \A r \in RunIds : runs[r] \in RunRow
         /\ \A r \in RunIds, p \in Positions : tasks[r][p] \in TaskRow
BY DEF Typed, TypeOK, SlotInv, BackendTypeOK

LEMMA SlotsTyped == SlotInv => slot \in [Slots -> SlotState]
BY DEF SlotInv, WorkingSlot

LEMMA FaultTyped ==
  ASSUME faults \in [FaultKinds -> Nat], NEW kind \in FaultKinds, Fault(kind)
  PROVE  faults' \in [FaultKinds -> Nat]
BY DEF Fault

LEMMA CoroutinesTyped ==
  ASSUME Typed, NEW s \in Slots, CallStep(s) \/ TaskStep(s)
  PROVE  Typed'
<1>. USE DEF Typed, TypeOK, BackendTypeOK, processVars, workerVars, tables
<1>. SUFFICES /\ jobs' \in [Jobs -> JobRow]
              /\ runs' \in [RunIds -> RunRow]
              /\ tasks' \in [RunIds -> [Positions -> TaskRow]]
              /\ SlotInv'
              /\ active' \in [Workers -> [RunIds -> Slots \cup {None}]]
              /\ UNCHANGED <<mode, beat>>
              /\ UNCHANGED faults \/ Fault("overtake")
  BY SlotsTyped, FaultTyped DEF SlotInv, WorkingSlot, FaultKinds
<1>a. /\ slot[s] \in WorkingSlot
      /\ slot[s].ctx \in SUBSET Positions
      /\ WorkerOf[s] \in Workers
  BY WorkerAssumption DEF SlotInv, WorkingSlot, SlotState
<1>b. ~At(s, "idle") => RunOf(s) \in RunIds /\ JobOf(s) \in Jobs \cup {None}
  BY <1>a DEF At, RunOf, JobOf, WorkingSlot, RunRow
<1>c. slot[s].pc \in TaskLabels => slot[s].pos \in Positions /\ Attempt(s) \in Nat
  BY <1>a DEF Attempt, WorkingSlot, SlotState
<1>1. CASE SelectRun(s)
  <2>1. PICK r \in RunIds :
          slot' = [slot EXCEPT ![s].pc = "selected", ![s].run = r]
    BY <1>1 DEF SelectRun
  <2>2. [slot[s] EXCEPT !.pc = "selected", !.run = r] \in WorkingSlot
    BY <1>a DEF WorkingSlot, SlotState, Labels, TaskLabels
  <2>3. SlotInv'
    BY <2>1, <2>2 DEF SlotInv
  <2>. QED BY <1>1, <2>3 DEF SelectRun
<1>2. CASE ClaimSelected(s)
  <2>1. RunOf(s) \in RunIds /\ runs[RunOf(s)] \in RunRow
    BY <1>2, <1>b DEF ClaimSelected, At
  <2>2. runs' \in [RunIds -> RunRow]
    BY <1>2, <1>a, <2>1, RunUpdatesTyped DEF ClaimSelected
  <2>3. [slot[s] EXCEPT !.pc = "load", !.ctx = runs[RunOf(s)].ctx]
          \in WorkingSlot
    BY <1>2, <1>a, <2>1
    DEF ClaimSelected, At, WorkingSlot, SlotState, Labels, TaskLabels, RunRow
  <2>4. [slot EXCEPT ![s].pc = "load", ![s].ctx = runs[RunOf(s)].ctx]
          \in [Slots -> WorkingSlot]
    BY <2>3 DEF SlotInv
  <2>5. SlotInv'
    <3>1. CASE ClaimMatches(RunOf(s))
      <4>1. Outdate([slot EXCEPT ![s].pc = "load",
                                 ![s].ctx = runs[RunOf(s)].ctx], RunOf(s))
              \in [Slots -> WorkingSlot]
        BY <2>4, OutdateTyped
      <4>. QED BY <1>2, <3>1, <4>1 DEF ClaimSelected, SlotInv
    <3>2. CASE ~ClaimMatches(RunOf(s))
      BY <1>2, <3>2, ReleaseTyped DEF ClaimSelected
    <3>. QED BY <3>1, <3>2
  <2>. QED BY <1>2, <2>2, <2>5 DEF ClaimSelected
<1>3. CASE MissSelected(s)
  BY <1>3, ReleaseTyped DEF MissSelected
<1>4. CASE LoadJob(s)
  BY <1>4, GotoTyped DEF LoadJob, At, Labels, TaskLabels
<1>5. CASE CancelLoaded(s)
  BY <1>5, <1>b, ReleaseTyped, RunUpdatesTyped DEF CancelLoaded, At
<1>6. CASE FailLoaded(s)
  BY <1>6, <1>b, ReleaseTyped, RunUpdatesTyped DEF FailLoaded, At
<1>7. CASE ReadRecords(s)
  <2>. DEFINE r == RunOf(s)
  <2>1. r \in RunIds
    BY <1>7, <1>b DEF ReadRecords, At
  <2>2. PICK p \in 0 .. NTasks, label \in {"complete", "exhausted", "start"} :
          /\ label # "complete" => p # NTasks
          /\ slot' = [slot EXCEPT
               ![s].pc = label, ![s].pos = p,
               ![s].tried = [q \in Positions |-> tasks[r][q].attempts]]
    BY <1>7 DEF ReadRecords
  <2>3. /\ [q \in Positions |-> tasks[r][q].attempts] \in [Positions -> Nat]
        /\ p # NTasks => p \in Positions
    BY <2>1, BoundsAreNumbers DEF TaskRow, Positions
  <2>4. [slot[s] EXCEPT !.pc = label, !.pos = p,
           !.tried = [q \in Positions |-> tasks[r][q].attempts]]
             \in WorkingSlot
    BY <2>1, <2>2, <2>3, <1>a
    DEF WorkingSlot, SlotState, Labels, TaskLabels, RunOf
  <2>5. SlotInv'
    BY <2>2, <2>4 DEF SlotInv
  <2>6. active' \in [Workers -> [RunIds -> Slots \cup {None}]]
    BY <1>7 DEF ReadRecords
  <2>. QED BY <1>7, <2>5, <2>6 DEF ReadRecords
<1>8. CASE PersistExhausted(s)
  BY <1>8, <1>a, <1>b, GotoTyped, RunUpdatesTyped
  DEF PersistExhausted, At, Labels, TaskLabels
<1>9. CASE StartTask(s)
  BY <1>9, <1>b, <1>c, GotoTyped, TaskUpdatesTyped
  DEF StartTask, At, Labels, TaskLabels
<1>10. CASE TaskReturns(s)
  <2>1. [slot[s] EXCEPT !.pc = "succeed", !.ctx = @ \cup {slot[s].pos}]
          \in WorkingSlot
    BY <1>10, <1>a, <1>c
    DEF TaskReturns, At, WorkingSlot, SlotState, Labels, TaskLabels
  <2>2. SlotInv'
    BY <1>10, <2>1 DEF TaskReturns, SlotInv
  <2>. QED BY <1>10, <2>2 DEF TaskReturns
<1>11. CASE TaskRaises(s)
  BY <1>11, <1>c, GotoTyped DEF TaskRaises, At, Labels, TaskLabels
<1>12. CASE TaskAborts(s)
  BY <1>12, <1>c, GotoTyped DEF TaskAborts, At, Labels, TaskLabels
<1>13. CASE SucceedTask(s)
  BY <1>13, <1>b, <1>c, GotoTyped, TaskUpdatesTyped
  DEF SucceedTask, At, Labels, TaskLabels
<1>14. CASE Checkpoint(s)
  <2>1. slot[s].pc = "checkpoint" /\ RunOf(s) \in RunIds
    BY <1>14, <1>b DEF Checkpoint, At
  <2>2. slot[s].pos \in Positions
    BY <2>1, <1>c DEF TaskLabels
  <2>3. PICK label \in {"start", "complete"} :
          /\ label = "start" => slot[s].pos + 1 < NTasks
          /\ slot' = [slot EXCEPT ![s].pc = label, ![s].pos = @ + 1]
    BY <1>14 DEF Checkpoint, AfterTask
  <2>4. /\ slot[s].pos + 1 \in 0 .. NTasks
        /\ label = "start" => slot[s].pos + 1 \in Positions
    BY <2>2, <2>3, BoundsAreNumbers DEF Positions
  <2>5. [slot[s] EXCEPT !.pc = label, !.pos = @ + 1] \in WorkingSlot
    BY <2>1, <2>4, <1>a DEF WorkingSlot, SlotState, Labels, TaskLabels
  <2>6. SlotInv'
    BY <2>3, <2>5 DEF SlotInv
  <2>7. runs' \in [RunIds -> RunRow]
    BY <1>14, <1>a, <2>1, RunUpdatesTyped DEF Checkpoint
  <2>. QED BY <1>14, <2>6, <2>7 DEF Checkpoint
<1>15. CASE CancelTask(s)
  BY <1>15, <1>b, <1>c, GotoTyped, TaskUpdatesTyped
  DEF CancelTask, At, Labels, TaskLabels
<1>16. CASE CancelTaskRun(s)
  BY <1>16, <1>b, ReleaseTyped, RunUpdatesTyped, UnregisterTyped
  DEF CancelTaskRun, At
<1>17. CASE PersistRetry(s)
  BY <1>17, <1>a, <1>b, <1>c, GotoTyped, RunUpdatesTyped
  DEF PersistRetry, At, Labels, TaskLabels
<1>18. CASE RetryTask(s)
  BY <1>18, <1>b, <1>c, GotoTyped, TaskUpdatesTyped
  DEF RetryTask, At, Labels, TaskLabels
<1>19. CASE ReleaseForRetry(s)
  <2>1. [slot[s] EXCEPT !.pc = "leave"] \in WorkingSlot
    BY <1>19, <1>a DEF ReleaseForRetry, At, WorkingSlot, SlotState, Labels, TaskLabels
  <2>2. [slot EXCEPT ![s].pc = "leave"] \in [Slots -> WorkingSlot]
    BY <2>1 DEF SlotInv
  <2>3. Outdate([slot EXCEPT ![s].pc = "leave"], RunOf(s)) \in [Slots -> WorkingSlot]
    BY <2>2, OutdateTyped
  <2>4. SlotInv'
    BY <1>19, <2>3 DEF ReleaseForRetry, SlotInv
  <2>. QED BY <1>19, <1>b, <2>4, RunUpdatesTyped DEF ReleaseForRetry, At
<1>20. CASE PersistFailure(s)
  BY <1>20, <1>a, <1>b, <1>c, GotoTyped, RunUpdatesTyped
  DEF PersistFailure, At, Labels, TaskLabels
<1>21. CASE FailTask(s)
  BY <1>21, <1>b, <1>c, GotoTyped, TaskUpdatesTyped
  DEF FailTask, At, Labels, TaskLabels
<1>22. CASE Gather(s)
  <2>1. PICK label \in {"failRun", "undo"} :
          slot' = [slot EXCEPT ![s].pc = label,
                               ![s].todo = Succeeded(RunOf(s))]
    BY <1>22 DEF Gather
  <2>2. [slot[s] EXCEPT !.pc = label, !.todo = Succeeded(RunOf(s))]
          \in WorkingSlot
    BY <1>22, <1>a
    DEF Gather, At, Succeeded, WorkingSlot, SlotState, Labels, TaskLabels
  <2>3. SlotInv'
    BY <2>1, <2>2 DEF SlotInv
  <2>. QED BY <1>22, <2>3 DEF Gather
<1>23. CASE UndoTask(s)
  <2>1. PICK p \in slot[s].todo, label \in {"failRun", "undo"} :
          /\ TaskIsCompensated(RunOf(s), p)
          /\ slot' = [slot EXCEPT ![s].pc = label, ![s].todo = @ \ {p}]
    BY <1>23 DEF UndoTask
  <2>2. p \in Positions
    BY <1>a DEF WorkingSlot, SlotState
  <2>3. [slot[s] EXCEPT !.pc = label, !.todo = @ \ {p}] \in WorkingSlot
    BY <1>23, <1>a
    DEF UndoTask, At, WorkingSlot, SlotState, Labels, TaskLabels
  <2>4. SlotInv'
    BY <2>1, <2>3 DEF SlotInv
  <2>5. tasks' \in [RunIds -> [Positions -> TaskRow]]
    BY <1>23, <1>b, <2>1, <2>2, TaskUpdatesTyped DEF UndoTask, At
  <2>6. UNCHANGED <<jobs, runs, processVars>>
    BY <1>23 DEF UndoTask
  <2>. QED BY <2>4, <2>5, <2>6
<1>24. CASE FinalizeFailed(s)
  BY <1>24, <1>b, GotoTyped, ReleaseTyped, RunUpdatesTyped, UnregisterTyped
  DEF FinalizeFailed, At, Labels, TaskLabels
<1>25. CASE CountFailure(s)
  BY <1>25, GotoTyped, ReleaseTyped, JobUpdatesTyped, UnregisterTyped
  DEF CountFailure, At, Labels, TaskLabels
<1>26. CASE RetryWholeRun(s)
  BY <1>26, <1>b, ReleaseTyped, RunUpdatesTyped, UnregisterTyped
  DEF RetryWholeRun, At
<1>27. CASE Complete(s)
  BY <1>27, <1>b, GotoTyped, RunUpdatesTyped DEF Complete, At, Labels, TaskLabels
<1>28. CASE ResetAttempts(s)
  BY <1>28, ReleaseTyped, JobUpdatesTyped, UnregisterTyped DEF ResetAttempts
<1>29. CASE FailUnhandled(s)
  BY <1>29, <1>b, ReleaseTyped, RunUpdatesTyped DEF FailUnhandled, At
<1>30. CASE LeaveRun(s)
  BY <1>30, ReleaseTyped, UnregisterTyped DEF LeaveRun
<1>. QED BY <1>1, <1>2, <1>3, <1>4, <1>5, <1>6, <1>7, <1>8, <1>9, <1>10, <1>11,
            <1>12, <1>13, <1>14, <1>15, <1>16, <1>17, <1>18, <1>19, <1>20,
            <1>21, <1>22, <1>23, <1>24, <1>25, <1>26, <1>27, <1>28, <1>29,
            <1>30
         DEF CallStep, TaskStep

LEMMA SurroundingsTyped ==
  ASSUME Typed,
         \/ \E j \in Jobs : ClientEnqueues(j) \/ ClientCancels(j)
         \/ \E s \in Slots : CallFails(s)
         \/ \E w \in Workers :
              BeatStep(w) \/ Crash(w) \/ Stop(w) \/ Restart(w) \/ BeatDies(w)
         \/ \E r \in RunIds : LeaseRunsOut(r) \/ LeaseLapses(r)
  PROVE  Typed'
<1>. USE DEF Typed, TypeOK, BackendTypeOK, processVars, tables
<1>. SUFFICES /\ BackendTypeOK'
              /\ SlotInv'
              /\ active' \in [Workers -> [RunIds -> Slots \cup {None}]]
              /\ mode' \in [Workers -> {"up", "deaf", "draining"}]
              /\ beat' \in [Workers -> BeatState]
              /\ faults' \in [FaultKinds -> Nat]
  BY SlotsTyped DEF SlotInv, WorkingSlot
<1>a. \A kind \in FaultKinds : Fault(kind) => faults' \in [FaultKinds -> Nat]
  BY FaultTyped
<1>b. /\ Asleep \in BeatState
      /\ \A w \in Workers : beat[w] \in BeatState
  BY DEF Asleep, BeatState
<1>1. CASE \E j \in Jobs : ClientEnqueues(j)
  <2>1. PICK j \in Jobs : ClientEnqueues(j)
    BY <1>1
  <2>2. runs' \in [RunIds -> RunRow]
    BY <2>1, RunUpdatesTyped DEF ClientEnqueues, Enqueue
  <2>3. jobs' \in [Jobs -> JobRow]
    BY <2>1 DEF ClientEnqueues, Enqueue, JobRow
  <2>. QED BY <2>1, <2>2, <2>3 DEF ClientEnqueues, SlotInv
<1>2. CASE \E j \in Jobs : ClientCancels(j)
  <2>1. PICK j \in Jobs : CancelJob(j) /\ UNCHANGED <<tasks, slot, processVars>>
    BY <1>2 DEF ClientCancels
  <2>2. \A row \in RunRow :
          [row EXCEPT !.status = "cancelled", !.lease = "none"] \in RunRow
    BY DEF RunRow, Over, Terminal
  <2>3. runs' \in [RunIds -> RunRow]
    <3>. DEFINE row(r) ==
           IF runs[r].job = j /\ runs[r].status \in {"ready", "running"}
           THEN [runs[r] EXCEPT !.status = "cancelled", !.lease = "none"]
           ELSE runs[r]
    <3>1. \A r \in RunIds : row(r) \in RunRow
      BY <2>2, RowsTyped
    <3>2. runs' = [r \in RunIds |-> row(r)]
      BY <2>1 DEF CancelJob
    <3>. HIDE DEF row
    <3>. QED BY <3>1, <3>2
  <2>4. jobs' \in [Jobs -> JobRow]
    BY <2>1 DEF CancelJob, JobRow
  <2>. QED BY <2>1, <2>3, <2>4 DEF SlotInv
<1>3. CASE \E s \in Slots : CallFails(s)
  <2>1. PICK s \in Slots : CallFails(s)
    BY <1>3
  <2>2. SlotInv'
    BY <2>1, GotoTyped, ReleaseTyped DEF CallFails, At, Labels, TaskLabels
  <2>3. active' \in [Workers -> [RunIds -> Slots \cup {None}]]
    BY <2>1, UnregisterTyped DEF CallFails
  <2>. QED BY <2>1, <2>2, <2>3, <1>a DEF CallFails, FaultKinds
<1>4. CASE \E w \in Workers : BeatBegins(w) \/ BeatChecks(w)
  <2>1. PICK w \in Workers : BeatBegins(w) \/ BeatChecks(w)
    BY <1>4
  <2>2. SlotInv'
    <3>1. \A t \in Slots, listed, flagged \in BOOLEAN :
            /\ [slot[t] EXCEPT !.listed = listed] \in WorkingSlot
            /\ [slot[t] EXCEPT !.listed = listed, !.flagged = flagged]
                 \in WorkingSlot
      BY DEF SlotInv, WorkingSlot, SlotState
    <3>2. \A t \in Slots : slot[t] \in WorkingSlot /\ slot[t].flagged \in BOOLEAN
      BY DEF SlotInv, WorkingSlot, SlotState
    <3>3. CASE BeatBegins(w)
      BY <3>1, <3>2, <3>3 DEF BeatBegins, SlotInv
    <3>4. CASE BeatChecks(w)
      <4>1. PICK r \in beat[w].todo :
              slot' = [t \in Slots |->
                IF WorkerOf[t] = w /\ slot[t].listed /\ RunOf(t) = r
                THEN [slot[t] EXCEPT !.listed = FALSE,
                        !.flagged = @ \/ jobs[runs[r].job].status = "cancelled"]
                ELSE slot[t]]
        BY <3>4 DEF BeatChecks
      <4>2. \A t \in Slots :
              (slot[t].flagged \/ jobs[runs[r].job].status = "cancelled")
                \in BOOLEAN
        BY <3>2
      <4>3. \A t \in Slots : slot'[t] \in WorkingSlot
        BY <3>1, <3>2, <4>1, <4>2
      <4>. QED BY <4>1, <4>3 DEF SlotInv
    <3>. QED BY <2>1, <3>3, <3>4
  <2>3. beat' \in [Workers -> BeatState]
    <3>1. CASE BeatBegins(w)
      <4>1. [beat[w] EXCEPT !.todo = {r \in RunIds : active[w][r] # None}]
              \in BeatState
        BY <1>b DEF BeatState
      <4>. QED BY <3>1, <4>1 DEF BeatBegins
    <3>2. CASE BeatChecks(w)
      <4>1. PICK r \in beat[w].todo : \E n \in {0, r} :
              beat' = [beat EXCEPT ![w].todo = @ \ {r}, ![w].run = n]
        BY <3>2 DEF BeatChecks
      <4>2. r \in RunIds
        BY <1>b DEF BeatState
      <4>3. \A n \in {0, r} :
              [beat[w] EXCEPT !.todo = @ \ {r}, !.run = n] \in BeatState
        BY <1>b, <4>2 DEF BeatState
      <4>. QED BY <4>1, <4>3
    <3>. QED BY <2>1, <3>1, <3>2
  <2>4. UNCHANGED <<tables, active, mode, faults>>
    BY <2>1 DEF BeatBegins, BeatChecks
  <2>. QED BY <2>2, <2>3, <2>4
<1>5. CASE \E w \in Workers : BeatRenews(w)
  <2>1. PICK w \in Workers : BeatRenews(w)
    BY <1>5
  <2>a. beat[w].run \in RunIds
    BY <1>b, <2>1 DEF BeatRenews, BeatState
  <2>2. runs' \in [RunIds -> RunRow]
    BY <2>1, <2>a, RunUpdatesTyped DEF BeatRenews
  <2>3. SlotInv'
    BY <2>1, OutdateTyped DEF BeatRenews, SlotInv
  <2>4. beat' \in [Workers -> BeatState]
    <3>1. /\ [beat[w] EXCEPT !.run = 0] \in BeatState
          /\ [beat[w] EXCEPT !.lost = TRUE] \in BeatState
      BY <1>b DEF BeatState
    <3>. QED BY <2>1, <3>1 DEF BeatRenews
  <2>5. UNCHANGED <<jobs, tasks, active, mode, faults>>
    BY <2>1 DEF BeatRenews
  <2>. QED BY <2>2, <2>3, <2>4, <2>5
<1>10. CASE \E w \in Workers : BeatDrops(w)
  <2>1. PICK w \in Workers : BeatDrops(w)
    BY <1>10
  <2>2. beat' \in [Workers -> BeatState]
    <3>1. [beat[w] EXCEPT !.run = 0, !.lost = FALSE] \in BeatState
      BY <1>b DEF BeatState
    <3>. QED BY <2>1, <3>1 DEF BeatDrops
  <2>3. active' \in [Workers -> [RunIds -> Slots \cup {None}]]
    <3>1. [active[w] EXCEPT ![beat[w].run] = None] \in [RunIds -> Slots \cup {None}]
      OBVIOUS
    <3>. QED BY <2>1, <3>1 DEF BeatDrops
  <2>4. UNCHANGED <<tables, slot, mode, faults>>
    BY <2>1 DEF BeatDrops
  <2>. QED BY <2>2, <2>3, <2>4 DEF SlotInv
<1>6. CASE \E w \in Workers : Crash(w)
  BY <1>6, <1>a, <1>b, IdleWorks DEF Crash, SlotInv, FaultKinds
<1>7. CASE \E w \in Workers : Stop(w) \/ BeatDies(w)
  BY <1>7, <1>a, <1>b DEF Stop, BeatDies, SlotInv, FaultKinds
<1>8. CASE \E w \in Workers : Restart(w)
  BY <1>8 DEF Restart, SlotInv
<1>9. CASE \E r \in RunIds : LeaseRunsOut(r) \/ LeaseLapses(r)
  <2>1. PICK r \in RunIds : LeaseRunsOut(r) \/ LeaseLapses(r)
    BY <1>9
  <2>2. runs' \in [RunIds -> RunRow]
    BY <2>1, RunUpdatesTyped DEF LeaseRunsOut, LeaseLapses
  <2>. QED BY <2>1, <2>2, <1>a DEF LeaseRunsOut, LeaseLapses, SlotInv, FaultKinds
<1>. QED BY <1>1, <1>2, <1>3, <1>4, <1>5, <1>6, <1>7, <1>8, <1>9, <1>10
         DEF BeatStep

LEMMA StepTyped == Typed /\ [Next]_vars => Typed'
<1>. SUFFICES ASSUME Typed, [Next]_vars PROVE Typed'
  OBVIOUS
<1>1. CASE UNCHANGED vars
  BY <1>1 DEF vars, Typed, TypeOK, BackendTypeOK, SlotInv
<1>2. CASE Next
  BY <1>2, CoroutinesTyped, SurroundingsTyped DEF Next
<1>. QED BY <1>1, <1>2

LEMMA TypedInvariant == Spec => []Typed
BY InitTyped, StepTyped, PTL DEF Spec

\* Every reachable state is well typed.  It takes SlotInv: a coroutine at work
\* has a run and, where it runs, retries or fails a task, a task of that run.
THEOREM TypeCorrect == Spec => []TypeOK
BY TypedInvariant, PTL DEF Typed

-----------------------------------------------------------------------------
(* The rows of runs, and _active, under any faults.                         *)

\* A coroutine works on the run; one has selected it.
WorkedOn(r) == \E s \in Slots : ~At(s, "idle") /\ RunOf(s) = r

Selected(r) == \E s \in Slots : At(s, "selected") /\ RunOf(s) = r

\* A coroutine is at the end of it.
Completes(r) == \E s \in Slots : Complete(s) /\ RunOf(s) = r

\* A run is created for a client, or after another run of its job.
Known(j) == j \in Jobs \/ \E r : WorkedOn(r) /\ j = runs[r].job

NewRun(q) == \E j : CreateRun(q, j) /\ Known(j)

\* The writes to the table, one transaction each, and when they happen.
RunUpdate(q) ==
  \/ CompleteRun(q) /\ Completes(q)
  \/ FailRun(q) \/ ReleaseRun(q) \/ CancelRun(q) \/ LeaseExpires(q)
  \/ \E w \in Workers : RenewLease(q, w) \/ (ClaimRun(q, w) /\ Selected(q))
  \/ \E ctx \in SUBSET Positions : SetRunCtx(q, ctx)
  \/ NewRun(q)

\* An update leaves the status of a run alone, takes a run that exists to
\* another status, not out of the terminal ones, or inserts a run.
LEMMA UpdatesMoveStatus ==
  ASSUME runs \in [RunIds -> RunRow], NEW q, RunUpdate(q), NEW r \in RunIds
  PROVE  \/ runs'[r].status = runs[r].status
         \/ /\ RunExists(r)
            /\ runs[r].status \in Terminal => runs'[r].status \in Terminal
            /\ runs'[r].status # "deleted"
         \/ FreeId(runs[r].status) /\ runs'[r].status = "ready"
<1>1. runs[r] \in RunRow
  OBVIOUS
<1>2. CASE CompleteRun(q) \/ FailRun(q) \/ ReleaseRun(q) \/ CancelRun(q)
  <2>1. CASE CompleteRun(q) \/ FailRun(q)
    BY <1>1, <2>1
    DEF CompleteRun, FailRun, UpdateRun, IsRunning, RunExists, RunRow, Terminal
  <2>2. CASE CancelRun(q)
    BY <1>1, <2>2 DEF CancelRun, UpdateRun, RunRow, Terminal
  <2>3. CASE ReleaseRun(q)
    BY <1>1, <2>3
    DEF ReleaseRun, UpdateRun, IsRunning, RunExists, RunRow, Terminal
  <2>. QED BY <1>2, <2>1, <2>2, <2>3
<1>3. CASE LeaseExpires(q)
  BY <1>1, <1>3 DEF LeaseExpires, RunRow
<1>4. CASE \E w \in Workers : ClaimRun(q, w) \/ RenewLease(q, w)
  BY <1>1, <1>4
  DEF ClaimRun, RenewLease, UpdateRun, ClaimMatches, LeaseHeldBy, IsRunning,
      RunExists, RunRow, Terminal
<1>5. CASE \E ctx \in SUBSET Positions : SetRunCtx(q, ctx)
  BY <1>1, <1>5 DEF SetRunCtx, UpdateRun, RunRow
<1>6. CASE NewRun(q)
  <2>1. PICK j : CreateRun(q, j)
    BY <1>6 DEF NewRun
  <2>2. CASE r # q
    BY <2>1, <2>2 DEF CreateRun
  <2>3. CASE r = q
    <3>1. r \in r .. MaxRuns
      BY BackendAssumption DEF RunIds
    <3>2. FreeId(runs[r].status)
      BY <2>1, <2>3, <3>1 DEF CreateRun, NextId
    <3>3. runs'[r].status = "ready"
      BY <2>1, <2>3 DEF CreateRun, NoRun
    <3>. QED BY <3>2, <3>3
  <2>. QED BY <2>2, <2>3
<1>. QED BY <1>2, <1>3, <1>4, <1>5, <1>6 DEF RunUpdate

\* Every step writes one run at most, or cancels those of a job.
LEMMA StepOnRuns ==
  ASSUME Typed, [Next]_vars
  PROVE  \/ UNCHANGED runs
         \/ \E q : RunUpdate(q)
         \/ \E j \in Jobs : CancelJob(j)
<1>1. CASE UNCHANGED vars
  BY <1>1 DEF vars
<1>2. CASE \E j \in Jobs : ClientEnqueues(j) \/ ClientCancels(j)
  BY <1>2 DEF ClientEnqueues, ClientCancels, Enqueue, RunUpdate, NewRun, Known
<1>3. ASSUME NEW s \in Slots, CallStep(s) \/ TaskStep(s) \/ CallFails(s)
      PROVE  UNCHANGED runs \/ \E q : RunUpdate(q)
  <2>1. WorkerOf[s] \in Workers /\ slot[s].ctx \in SUBSET Positions
    BY WorkerAssumption DEF Typed, TypeOK, SlotState
  <2>2. CASE \/ SelectRun(s) \/ MissSelected(s) \/ LoadJob(s)
             \/ ReadRecords(s) \/ Gather(s) \/ TaskStep(s) \/ CallFails(s)
             \/ LeaveRun(s)
    BY <2>2
    DEF SelectRun, MissSelected, LoadJob, ReadRecords, Gather, TaskStep,
        TaskReturns, TaskRaises, TaskAborts, CallFails, LeaveRun, tables
  <2>3. CASE \/ StartTask(s) \/ SucceedTask(s) \/ CancelTask(s) \/ RetryTask(s)
             \/ FailTask(s) \/ UndoTask(s) \/ CountFailure(s)
             \/ ResetAttempts(s)
    BY <2>3
    DEF StartTask, SucceedTask, CancelTask, RetryTask, FailTask, UndoTask,
        CountFailure, ResetAttempts
  <2>4. CASE ClaimSelected(s)
    BY <2>1, <2>4 DEF ClaimSelected, RunUpdate, Selected
  <2>5. CASE \/ PersistExhausted(s) \/ Checkpoint(s) \/ PersistRetry(s)
             \/ PersistFailure(s)
    BY <2>1, <2>5
    DEF PersistExhausted, Checkpoint, PersistRetry, PersistFailure, RunUpdate
  <2>6. CASE \/ CancelLoaded(s) \/ FailLoaded(s) \/ CancelTaskRun(s)
             \/ ReleaseForRetry(s) \/ FinalizeFailed(s) \/ FailUnhandled(s)
    BY <2>6
    DEF CancelLoaded, FailLoaded, CancelTaskRun, ReleaseForRetry,
        FinalizeFailed, FailUnhandled, RunUpdate
  <2>8. CASE Complete(s)
    <3>1. CompleteRun(RunOf(s)) /\ Completes(RunOf(s))
      BY <2>8 DEF Complete, Completes
    <3>. QED BY <3>1 DEF RunUpdate
  <2>7. CASE RetryWholeRun(s)
    BY <2>7 DEF RetryWholeRun, RunUpdate, NewRun, Known, WorkedOn, At, JobOf
  <2>. QED BY <1>3, <2>2, <2>3, <2>4, <2>5, <2>6, <2>7, <2>8 DEF CallStep
<1>4. CASE \E w \in Workers :
             BeatStep(w) \/ Crash(w) \/ Stop(w) \/ Restart(w) \/ BeatDies(w)
  BY <1>4
  DEF BeatStep, BeatBegins, BeatChecks, BeatRenews, BeatDrops, Crash, Stop,
      Restart, BeatDies, RunUpdate, tables
<1>5. CASE \E r \in RunIds : LeaseRunsOut(r) \/ LeaseLapses(r)
  BY <1>5 DEF LeaseRunsOut, LeaseLapses, RunUpdate
<1>. QED BY <1>1, <1>2, <1>3, <1>4, <1>5 DEF Next

\* A run only ever succeeds by the step that ends it.
LEMMA OnlyCompleteSucceeds ==
  ASSUME Typed, [Next]_vars, NEW r \in RunIds, ~Completes(r),
         runs'[r].status = "succeeded"
  PROVE  runs[r].status = "succeeded"
<1>a. runs \in [RunIds -> RunRow] /\ runs[r] \in RunRow
  BY DEF Typed, TypeOK, BackendTypeOK
<1>1. CASE UNCHANGED runs
  BY <1>1
<1>2. CASE \E j \in Jobs : CancelJob(j)
  <2>1. \/ runs'[r] = runs[r]
        \/ runs'[r] = [runs[r] EXCEPT !.status = "cancelled", !.lease = "none"]
    BY <1>2 DEF CancelJob
  <2>. QED BY <1>a, <2>1 DEF RunRow
<1>3. ASSUME NEW q, RunUpdate(q)
      PROVE  runs[r].status = "succeeded"
  <2>a. ASSUME NEW cond, NEW row, UpdateRun(q, cond, row)
        PROVE  runs'[r] = runs[r] \/ (r = q /\ runs'[r] = row)
    BY <2>a, <1>a DEF UpdateRun
  <2>1. CASE CompleteRun(q) /\ Completes(q)
    BY <2>a, <2>1 DEF CompleteRun
  <2>2. CASE FailRun(q) \/ ReleaseRun(q) \/ CancelRun(q)
    <3>1. \/ runs'[r] = runs[r]
          \/ runs'[r] = [runs[r] EXCEPT !.status = "failed", !.lease = "none"]
          \/ runs'[r] = [runs[r] EXCEPT !.status = "cancelled", !.lease = "none"]
          \/ runs'[r] = [runs[r] EXCEPT !.status = "ready", !.lease = "none",
                                        !.owner = None]
      BY <2>2, <2>a DEF FailRun, ReleaseRun, CancelRun
    <3>. QED BY <1>a, <3>1 DEF RunRow
  <2>3. CASE LeaseExpires(q)
    BY <1>a, <2>3 DEF LeaseExpires, RunRow
  <2>4. CASE \E w \in Workers : RenewLease(q, w) \/ ClaimRun(q, w)
    <3>1. \/ runs'[r] = runs[r]
          \/ runs'[r] = [runs[r] EXCEPT !.lease = "live"]
          \/ \E w \in Workers :
               runs'[r] = [runs[r] EXCEPT !.status = "running", !.owner = w,
                                          !.lease = "live"]
      BY <2>4, <2>a DEF RenewLease, ClaimRun
    <3>. QED BY <1>a, <3>1 DEF RunRow
  <2>5. CASE \E ctx \in SUBSET Positions : SetRunCtx(q, ctx)
    <3>1. \/ runs'[r] = runs[r]
          \/ \E ctx \in SUBSET Positions : runs'[r] = [runs[r] EXCEPT !.ctx = ctx]
      BY <2>5, <2>a DEF SetRunCtx
    <3>. QED BY <1>a, <3>1 DEF RunRow
  <2>6. CASE NewRun(q)
    BY <1>a, <2>6 DEF NewRun, CreateRun, NoRun
  <2>. QED BY <1>3, <2>1, <2>2, <2>3, <2>4, <2>5, <2>6 DEF RunUpdate
<1>. QED BY <1>1, <1>2, <1>3, StepOnRuns

LEMMA StepKeepsTerminal ==
  ASSUME Typed, [Next]_vars, NEW r \in RunIds, runs[r].status \in Terminal
  PROVE  runs'[r].status \in Terminal
<1>1. CASE UNCHANGED runs
  BY <1>1
<1>2. CASE \E q : RunUpdate(q)
  BY <1>2, UpdatesMoveStatus DEF Typed, TypeOK, BackendTypeOK, FreeId, Terminal
<1>3. CASE \E j \in Jobs : CancelJob(j)
  BY <1>3 DEF CancelJob, Terminal
<1>. QED BY <1>1, <1>2, <1>3, StepOnRuns

\* No late retry, reclaim, renewal or checkpoint revives a run that has ended,
\* whatever fails and however often.
THEOREM EndedStaysEnded == Spec => TerminalStays
<1>1. Typed /\ [Next]_vars
        => [\A r \in RunIds : runs[r].status \in Terminal
              => runs'[r].status \in Terminal]_vars
  BY StepKeepsTerminal
<1>. QED BY <1>1, TypedInvariant, PTL DEF Spec, TerminalStays

-----------------------------------------------------------------------------
(* Claims against cancellations.                                            *)

\* A run belongs to a job, and a coroutine at work has one.
RunsKnown ==
  /\ \A r \in RunIds : runs[r].status # "absent" => runs[r].job \in Jobs
  /\ \A s \in Slots : ~At(s, "idle") => runs[RunOf(s)].status # "absent"

LEMMA KnownIsJob ==
  ASSUME Typed, RunsKnown, NEW j, Known(j)
  PROVE  j \in Jobs
<1>1. \A p : WorkedOn(p) => p \in RunIds /\ runs[p].status # "absent"
  BY DEF WorkedOn, Typed, SlotInv, WorkingSlot, At, RunOf, RunsKnown
<1>. QED BY <1>1 DEF Known, RunsKnown

\* Nor does a step ever remove a run or move it to another job.
LEMMA UpdatesKeepRuns ==
  ASSUME Typed, RunsKnown, NEW q, RunUpdate(q),
         NEW r \in RunIds, runs[r].status # "absent"
  PROVE  runs'[r].status # "absent" /\ runs'[r].job = runs[r].job
<1>a. runs \in [RunIds -> RunRow]
  BY DEF Typed, TypeOK, BackendTypeOK
<1>1. runs[r] \in RunRow
  BY <1>a
<1>2. ASSUME NEW cond, NEW row, UpdateRun(q, cond, row)
      PROVE  runs'[r] = runs[r] \/ (r = q /\ runs'[r] = row)
  BY <1>2, <1>a DEF UpdateRun
<1>3. CASE CompleteRun(q) \/ FailRun(q) \/ ReleaseRun(q) \/ CancelRun(q)
  <2>1. \/ runs'[r] = runs[r]
        \/ \E status \in Terminal :
             runs'[r] = [runs[r] EXCEPT !.status = status, !.lease = "none"]
        \/ runs'[r] = [runs[r] EXCEPT !.status = "ready", !.lease = "none",
                                      !.owner = None]
    BY <1>2, <1>3 DEF CompleteRun, FailRun, ReleaseRun, CancelRun, Terminal
  <2>. QED BY <1>1, <2>1 DEF RunRow, Terminal
<1>4. CASE LeaseExpires(q)
  BY <1>1, <1>4, <1>a DEF LeaseExpires, RunRow
<1>5. CASE \E w \in Workers : ClaimRun(q, w) \/ RenewLease(q, w)
  <2>1. PICK w \in Workers : ClaimRun(q, w) \/ RenewLease(q, w)
    BY <1>5
  <2>2. \/ runs'[r] = runs[r]
        \/ runs'[r] = [runs[r] EXCEPT !.status = "running", !.owner = w,
                                      !.lease = "live"]
        \/ runs'[r] = [runs[r] EXCEPT !.lease = "live"]
    BY <1>2, <2>1 DEF ClaimRun, RenewLease
  <2>. QED BY <1>1, <2>2 DEF RunRow
<1>6. CASE \E ctx \in SUBSET Positions : SetRunCtx(q, ctx)
  <2>1. PICK ctx : SetRunCtx(q, ctx)
    BY <1>6
  <2>2. \/ runs'[r] = runs[r]
        \/ runs'[r] = [runs[r] EXCEPT !.ctx = ctx]
    BY <1>2, <2>1 DEF SetRunCtx
  <2>. QED BY <1>1, <2>2 DEF RunRow
<1>7. CASE NewRun(q)
  <2>1. PICK j : CreateRun(q, j) /\ Known(j)
    BY <1>7 DEF NewRun
  <2>2. runs'[r] = runs[r] \/ (r = q /\ runs'[r].status = "ready" /\ runs'[r].job = j)
    BY <1>a, <2>1 DEF CreateRun, NoRun
  <2>3. CASE r = q
    <3>1. IdsReused
      BY <1>a, <2>1, <2>3 DEF CreateRun, NextId, FreeId, RunIds
    <3>2. j \in Jobs /\ runs[r].job \in Jobs
      BY <2>1, KnownIsJob DEF RunsKnown
    <3>. QED BY <2>2, <3>1, <3>2, BackendAssumption
  <2>. QED BY <2>2, <2>3
<1>. QED BY <1>3, <1>4, <1>5, <1>6, <1>7 DEF RunUpdate

LEMMA StepKeepsRuns ==
  ASSUME Typed, RunsKnown, [Next]_vars, NEW r \in RunIds, runs[r].status # "absent"
  PROVE  runs'[r].status # "absent" /\ runs'[r].job = runs[r].job
<1>1. CASE UNCHANGED runs
  BY <1>1
<1>2. CASE \E q : RunUpdate(q)
  BY <1>2, UpdatesKeepRuns
<1>3. CASE \E j \in Jobs : CancelJob(j)
  <2>1. runs[r] \in RunRow
    BY DEF Typed, TypeOK, BackendTypeOK
  <2>2. \/ runs'[r] = runs[r]
        \/ runs'[r] = [runs[r] EXCEPT !.status = "cancelled", !.lease = "none"]
    BY <1>3 DEF CancelJob
  <2>. QED BY <2>1, <2>2 DEF RunRow
<1>. QED BY <1>1, <1>2, <1>3, StepOnRuns

\* What the heartbeat's list and its flags are to a coroutine.
LEMMA BeatKeepsSlots ==
  ASSUME slot \in [Slots -> SlotState], NEW w \in Workers,
         BeatBegins(w) \/ BeatChecks(w), NEW t \in Slots
  PROVE  /\ slot'[t].pc = slot[t].pc /\ slot'[t].run = slot[t].run
         /\ slot'[t].pos = slot[t].pos /\ slot'[t].todo = slot[t].todo
         /\ slot'[t].ctx = slot[t].ctx /\ slot'[t].tried = slot[t].tried
<1>1. slot[t] \in SlotState
  OBVIOUS
<1>2. \/ slot'[t] = slot[t]
      \/ \E listed : slot'[t] = [slot[t] EXCEPT !.listed = listed]
      \/ \E flagged : slot'[t] = [slot[t] EXCEPT !.listed = FALSE,
                                                !.flagged = flagged]
  BY DEF BeatBegins, BeatChecks
<1>. QED BY <1>1, <1>2 DEF SlotState

\* A run released for a retry is left behind by its coroutine.
LEMMA ReleaseLeaves ==
  ASSUME slot \in [Slots -> SlotState], NEW s \in Slots, ReleaseForRetry(s)
  PROVE  slot[s].pc = "release" /\ slot'[s] = [slot[s] EXCEPT !.pc = "leave"]
<1>1. slot[s].pc = "release"
  BY DEF ReleaseForRetry, At
<1>2. slot[s] \in SlotState
  OBVIOUS
<1>. QED BY <1>1, <1>2 DEF ReleaseForRetry, Outdate, SlotState

\* A slot goes on with its run, or has selected a claimable one.
LEMMA StepOnSlots ==
  ASSUME Typed, [Next]_vars, NEW t \in Slots, slot'[t].pc # "idle"
  PROVE  \/ /\ slot[t].pc # "idle" /\ slot'[t].run = slot[t].run
            /\ slot'[t].pc = "selected" => slot[t].pc = "selected"
         \/ /\ UNCHANGED tables
            /\ \E r \in RunIds : Claimable(r) /\ slot'[t].run = r
<1>. DEFINE Goes == /\ slot[t].pc # "idle" /\ slot'[t].run = slot[t].run
                    /\ slot'[t].pc = "selected" => slot[t].pc = "selected"
<1>a. slot \in [Slots -> SlotState] /\ slot[t] \in SlotState
  BY DEF Typed, TypeOK
<1>1. ASSUME NEW s \in Slots, NEW label \in Labels \ {"selected", "idle"},
             ~At(s, "idle"), Goto(s, label)
      PROVE  Goes
  BY <1>1, <1>a DEF Goto, At, SlotState
<1>2. ASSUME NEW s \in Slots, Release(s)
      PROVE  Goes
  BY <1>2, <1>a DEF Release, Idle
<1>3. ASSUME NEW s \in Slots, CallStep(s) \/ TaskStep(s) \/ CallFails(s)
      PROVE  \/ Goes
             \/ /\ UNCHANGED tables
                /\ \E r \in RunIds : Claimable(r) /\ slot'[t].run = r
  <2>1. CASE \/ LoadJob(s) \/ PersistExhausted(s) \/ StartTask(s)
             \/ SucceedTask(s) \/ CancelTask(s) \/ PersistRetry(s)
             \/ RetryTask(s) \/ PersistFailure(s) \/ FailTask(s) \/ Complete(s)
             \/ FinalizeFailed(s) \/ CountFailure(s) \/ TaskRaises(s)
             \/ TaskAborts(s) \/ CallFails(s)
    <3>1. \/ Release(s)
          \/ ~At(s, "idle") /\ \E label \in Labels \ {"selected", "idle"} :
                                  Goto(s, label)
      BY <2>1
      DEF LoadJob, PersistExhausted, StartTask, SucceedTask, CancelTask,
          PersistRetry, RetryTask, PersistFailure, FailTask, Complete,
          FinalizeFailed, CountFailure, TaskRaises, TaskAborts, CallFails,
          At, Labels
    <3>. QED BY <1>1, <1>2, <3>1
  <2>2. CASE \/ MissSelected(s) \/ CancelLoaded(s) \/ FailLoaded(s)
             \/ CancelTaskRun(s) \/ RetryWholeRun(s) \/ ResetAttempts(s)
             \/ FailUnhandled(s) \/ LeaveRun(s)
    BY <1>2, <2>2
    DEF MissSelected, CancelLoaded, FailLoaded, CancelTaskRun, RetryWholeRun,
        ResetAttempts, FailUnhandled, LeaveRun
  <2>3. CASE SelectRun(s)
    <3>1. PICK r \in RunIds :
            /\ Claimable(r)
            /\ slot' = [slot EXCEPT ![s].pc = "selected", ![s].run = r]
      BY <2>3 DEF SelectRun, FirstClaimable, ClaimableBy
    <3>2. t = s => slot'[t].run = r
      BY <1>a, <3>1 DEF SlotState
    <3>3. t # s => slot'[t] = slot[t]
      BY <1>a, <3>1
    <3>. QED BY <2>3, <3>1, <3>2, <3>3 DEF SelectRun
  <2>4. CASE ClaimSelected(s)
    BY <1>a, <1>2, <2>4 DEF ClaimSelected, Outdate, At, SlotState
  <2>5. CASE ReleaseForRetry(s)
    <3>1. slot[s].pc = "release"
      BY <2>5 DEF ReleaseForRetry, At
    <3>2. slot' = Outdate([slot EXCEPT ![s].pc = "leave"], RunOf(s))
      BY <2>5 DEF ReleaseForRetry
    <3>3. CASE t # s
      <4>1. \/ slot'[t] = slot[t]
            \/ /\ slot'[t] = [slot[t] EXCEPT !.pc = "outdated"]
               /\ slot[t].pc = "selected"
        BY <1>a, <3>2, <3>3 DEF Outdate
      <4>. QED BY <1>a, <4>1 DEF SlotState
    <3>4. CASE t = s
      <4>1. slot'[s] = [slot[s] EXCEPT !.pc = "leave"]
        BY <1>a, <2>5, ReleaseLeaves
      <4>. QED BY <1>a, <3>1, <3>4, <4>1 DEF SlotState
    <3>. QED BY <3>3, <3>4
  <2>6. CASE TaskReturns(s) \/ Checkpoint(s) \/ Gather(s)
    <3>1. CASE TaskReturns(s)
      BY <1>a, <3>1 DEF TaskReturns, At, SlotState
    <3>2. CASE Checkpoint(s)
      BY <1>a, <3>2 DEF Checkpoint, AfterTask, At, SlotState
    <3>3. CASE Gather(s)
      BY <1>a, <3>3 DEF Gather, At, SlotState
    <3>. QED BY <2>6, <3>1, <3>2, <3>3
  <2>8. CASE ReadRecords(s)
    <3>1. PICK p \in 0 .. NTasks, label \in {"complete", "exhausted", "start"} :
            slot' = [slot EXCEPT
              ![s].pc = label, ![s].pos = p,
              ![s].tried = [q \in Positions |-> tasks[RunOf(s)][q].attempts]]
      BY <2>8 DEF ReadRecords
    <3>. QED BY <1>a, <2>8, <3>1 DEF ReadRecords, At, SlotState
  <2>7. CASE UndoTask(s)
    BY <1>a, <2>7 DEF UndoTask, At, SlotState
  <2>. QED BY <1>3, <2>1, <2>2, <2>3, <2>4, <2>5, <2>6, <2>7, <2>8
           DEF CallStep, TaskStep
<1>4. CASE \E w \in Workers : BeatBegins(w) \/ BeatChecks(w)
  BY <1>a, <1>4, BeatKeepsSlots
<1>5. CASE \E w \in Workers : BeatRenews(w) \/ BeatDrops(w)
  BY <1>a, <1>5 DEF BeatRenews, BeatDrops, Outdate, SlotState
<1>6. CASE \E w \in Workers : Crash(w)
  BY <1>a, <1>6 DEF Crash, Idle
<1>7. CASE UNCHANGED slot
  BY <1>7
<1>. QED BY <1>3, <1>4, <1>5, <1>6, <1>7
         DEF Next, BeatStep, ClientEnqueues, ClientCancels, Stop, Restart,
             BeatDies, LeaseRunsOut, LeaseLapses, vars

LEMMA StepKeepsKnown ==
  ASSUME Typed, RunsKnown, [Next]_vars
  PROVE  RunsKnown'
<1>a. runs \in [RunIds -> RunRow]
  BY DEF Typed, TypeOK, BackendTypeOK
<1>1. ASSUME NEW r \in RunIds, runs'[r].status # "absent"
      PROVE  runs'[r].job \in Jobs
  <2>1. CASE runs[r].status # "absent"
    BY <2>1, StepKeepsRuns DEF RunsKnown
  <2>2. CASE runs[r].status = "absent"
    <3>1. CASE \E j \in Jobs : CancelJob(j)
      BY <1>1, <1>a, <2>2, <3>1 DEF CancelJob
    <3>2. ASSUME NEW q, RunUpdate(q), ~NewRun(q)
          PROVE  FALSE
      <4>2. CASE CompleteRun(q) \/ FailRun(q) \/ ReleaseRun(q)
        BY <1>1, <1>a, <2>2, <4>2
        DEF CompleteRun, FailRun, ReleaseRun, UpdateRun, IsRunning
      <4>3. CASE CancelRun(q)
        BY <1>1, <1>a, <2>2, <4>3 DEF CancelRun, UpdateRun, RunExists
      <4>4. CASE \E w \in Workers : RenewLease(q, w) \/ ClaimRun(q, w)
        BY <1>1, <1>a, <2>2, <4>4
        DEF RenewLease, ClaimRun, UpdateRun, LeaseHeldBy, IsRunning,
            ClaimMatches
      <4>5. CASE \E ctx \in SUBSET Positions : SetRunCtx(q, ctx)
        BY <1>1, <1>a, <2>2, <4>5 DEF SetRunCtx, UpdateRun, RunExists
      <4>6. CASE LeaseExpires(q)
        BY <1>1, <1>a, <2>2, <4>6 DEF LeaseExpires
      <4>. QED BY <3>2, <4>2, <4>3, <4>4, <4>5, <4>6 DEF RunUpdate
    <3>3. ASSUME NEW q, NewRun(q)
          PROVE  runs'[r].job \in Jobs
      <4>1. PICK j : CreateRun(q, j) /\ Known(j)
        BY <3>3 DEF NewRun
      <4>2. j \in Jobs
        BY <4>1, KnownIsJob
      <4>3. q = r
        BY <1>1, <1>a, <2>2, <4>1 DEF CreateRun
      <4>. QED BY <1>a, <4>1, <4>2, <4>3 DEF CreateRun, NoRun
    <3>. QED BY <1>1, <2>2, <3>1, <3>2, <3>3, StepOnRuns
  <2>. QED BY <2>1, <2>2
<1>2. ASSUME NEW s \in Slots, slot'[s].pc # "idle"
      PROVE  runs'[slot'[s].run].status # "absent"
  <2>1. CASE slot[s].pc # "idle" /\ slot'[s].run = slot[s].run
    <3>1. slot[s].run \in RunIds /\ runs[slot[s].run].status # "absent"
      BY <2>1 DEF Typed, SlotInv, WorkingSlot, RunsKnown, At, RunOf
    <3>. QED BY <2>1, <3>1, StepKeepsRuns
  <2>2. CASE /\ UNCHANGED tables
             /\ \E r \in RunIds : Claimable(r) /\ slot'[s].run = r
    BY <2>2 DEF tables, Claimable, ClaimMatches
  <2>. QED BY <1>2, <2>1, <2>2, StepOnSlots
<1>. QED BY <1>1, <1>2 DEF RunsKnown, At, RunOf

\* What cancel_job does to a run.
LEMMA CancelOnRuns ==
  ASSUME runs \in [RunIds -> RunRow], NEW j, CancelJob(j), NEW r \in RunIds
  PROVE  IF runs[r].job = j /\ runs[r].status \in {"ready", "running"}
         THEN runs'[r].status = "cancelled"
         ELSE runs'[r] = runs[r]
<1>1. runs[r] \in RunRow
  OBVIOUS
<1>2. [runs[r] EXCEPT !.status = "cancelled", !.lease = "none"].status
        = "cancelled"
  BY <1>1 DEF RunRow
<1>. QED BY <1>2 DEF CancelJob

\* A job that is active stays so until it is cancelled.
LEMMA StepKeepsActive ==
  ASSUME Typed, [Next]_vars, NEW j \in Jobs, jobs[j].status = "active"
  PROVE  jobs'[j].status = "active" \/ CancelJob(j)
<1>a. jobs \in [Jobs -> JobRow] /\ jobs[j] \in JobRow
  BY DEF Typed, TypeOK, BackendTypeOK
<1>1. CASE UNCHANGED jobs
  BY <1>1
<1>2. CASE \E i \in Jobs : ClientEnqueues(i) \/ ClientCancels(i)
  BY <1>a, <1>2
  DEF ClientEnqueues, ClientCancels, Enqueue, CancelJob, FreeId, JobRow
<1>3. CASE \E s \in Slots : CountFailure(s) \/ ResetAttempts(s)
  BY <1>a, <1>3
  DEF CountFailure, ResetAttempts, IncrementJobAttempts, ResetJobAttempts,
      JobRow
<1>. QED
  BY <1>1, <1>2, <1>3
  DEF Next, vars, tables, CallStep, TaskStep, BeatStep, SelectRun,
      ClaimSelected, MissSelected, LoadJob, CancelLoaded, FailLoaded,
      ReadRecords, PersistExhausted, StartTask, SucceedTask, Checkpoint,
      CancelTask, CancelTaskRun, PersistRetry, RetryTask, ReleaseForRetry,
      PersistFailure, FailTask, Gather, UndoTask, FinalizeFailed,
      RetryWholeRun, Complete, FailUnhandled, TaskReturns, TaskRaises,
      TaskAborts, CallFails, LeaveRun, BeatBegins, BeatChecks, BeatRenews,
      BeatDrops, Crash, Stop, Restart, BeatDies, LeaseRunsOut, LeaseLapses

\* No row of a deleted run is there to be taken for a new one.
NoneReused == IdsReused => \A r \in RunIds : runs[r].status # "deleted"

LEMMA NewRowWasAbsent ==
  ASSUME runs \in [RunIds -> RunRow], NoneReused, NEW r, NEW j,
         CreateRun(r, j), NEW q \in RunIds, runs[q].status # "absent"
  PROVE  runs'[q] = runs[q]
<1>1. CASE q # r
  BY <1>1 DEF CreateRun
<1>2. CASE q = r
  <2>1. q \in q .. MaxRuns
    BY BackendAssumption DEF RunIds
  <2>. QED BY <1>2, <2>1 DEF CreateRun, NextId, FreeId, NoneReused
<1>. QED BY <1>1, <1>2

LEMMA StepDeletesNone ==
  ASSUME Typed, [Next]_vars, NEW r \in RunIds, runs[r].status # "deleted"
  PROVE  runs'[r].status # "deleted"
<1>1. CASE UNCHANGED runs
  BY <1>1
<1>2. CASE \E q : RunUpdate(q)
  BY <1>2, UpdatesMoveStatus DEF Typed, TypeOK, BackendTypeOK, Terminal
<1>3. CASE \E j \in Jobs : CancelJob(j)
  BY <1>3, CancelOnRuns DEF Typed, TypeOK, BackendTypeOK
<1>. QED BY <1>1, <1>2, <1>3, StepOnRuns

LEMMA StepKeepsOver ==
  ASSUME Typed, NoneReused, [Next]_vars, NEW r \in RunIds,
         runs[r].status \in Over
  PROVE  runs'[r].status \in Over
<1>1. CASE UNCHANGED runs
  BY <1>1
<1>2. CASE \E q : RunUpdate(q)
  BY <1>2, UpdatesMoveStatus
  DEF Typed, TypeOK, BackendTypeOK, NoneReused, RunExists, FreeId, Over,
      Terminal
<1>3. CASE \E j \in Jobs : CancelJob(j)
  BY <1>3, CancelOnRuns DEF Typed, TypeOK, BackendTypeOK, Over, Terminal
<1>. QED BY <1>1, <1>2, <1>3, StepOnRuns

LEMMA StepKeepsActiveJob ==
  ASSUME Typed, RunsKnown, NoneReused, ActiveJobInv, [Next]_vars
  PROVE  ActiveJobInv'
<1>. SUFFICES ASSUME NEW r \in RunIds,
                     \/ runs'[r].status = "running"
                     \/ runs'[r].status = "ready" /\ Selected(r)'
              PROVE  runs'[r].job \in Jobs /\ jobs'[runs'[r].job].status = "active"
  BY DEF ActiveJobInv, IsRunning, Selected
<1>a. runs \in [RunIds -> RunRow] /\ runs[r] \in RunRow
  BY DEF Typed, TypeOK, BackendTypeOK
<1>1. CASE runs[r].status = "running" \/ (runs[r].status = "ready" /\ Selected(r))
  <2>1. runs[r].job \in Jobs /\ jobs[runs[r].job].status = "active"
    BY <1>1 DEF ActiveJobInv, IsRunning, Selected
  <2>2. runs'[r].job = runs[r].job
    BY <1>1, StepKeepsRuns
  <2>3. ~CancelJob(runs[r].job)
    BY <1>1, <1>a, CancelOnRuns
  <2>. QED BY <2>1, <2>2, <2>3, StepKeepsActive
<1>2. CASE /\ runs[r].status # "running"
           /\ ~(runs[r].status = "ready" /\ Selected(r))
           /\ runs'[r].status = "running"
  <2>1. runs' # runs /\ ~\E j \in Jobs : CancelJob(j)
    BY <1>2, <1>a, CancelOnRuns
  <2>2. PICK q : RunUpdate(q)
    BY <2>1, StepOnRuns
  <2>3. CASE \E w \in Workers : ClaimRun(q, w) /\ Selected(q)
    <3>1. r = q /\ ClaimMatches(q)
      BY <1>2, <1>a, <2>3 DEF ClaimRun, UpdateRun
    <3>. QED BY <1>2, <2>3, <3>1 DEF ClaimMatches
  <2>4. CASE CompleteRun(q) \/ FailRun(q) \/ ReleaseRun(q) \/ CancelRun(q)
    <3>1. \/ runs'[r] = runs[r]
          \/ \E status \in Terminal :
               runs'[r] = [runs[r] EXCEPT !.status = status, !.lease = "none"]
          \/ runs'[r] = [runs[r] EXCEPT !.status = "ready", !.lease = "none",
                                        !.owner = None]
      BY <1>a, <2>4
      DEF CompleteRun, FailRun, ReleaseRun, CancelRun, UpdateRun, Terminal
    <3>. QED BY <1>2, <1>a, <3>1 DEF RunRow, Terminal
  <2>5. CASE LeaseExpires(q) \/ \E w \in Workers : RenewLease(q, w)
    BY <1>2, <1>a, <2>5
    DEF LeaseExpires, RenewLease, LeaseHeldBy, IsRunning, UpdateRun
  <2>6. CASE \E ctx \in SUBSET Positions : SetRunCtx(q, ctx)
    BY <1>2, <1>a, <2>6 DEF SetRunCtx, UpdateRun, RunRow
  <2>7. CASE NewRun(q)
    BY <1>2, <1>a, <2>7 DEF NewRun, CreateRun, NoRun
  <2>. QED BY <2>2, <2>3, <2>4, <2>5, <2>6, <2>7 DEF RunUpdate
<1>3. CASE /\ runs[r].status # "running"
           /\ ~(runs[r].status = "ready" /\ Selected(r))
           /\ runs'[r].status = "ready" /\ Selected(r)'
  <2>1. PICK s \in Slots : slot'[s].pc = "selected" /\ slot'[s].run = r
    BY <1>3 DEF Selected, At, RunOf
  <2>2. CASE slot[s].pc = "selected" /\ slot[s].run = r
    <3>1. runs[r].status # "absent"
      BY <2>2 DEF RunsKnown, At, RunOf
    <3>2. runs[r].status \in Over
      BY <1>3, <1>a, <2>2, <3>1 DEF Selected, At, RunOf, RunRow
    <3>. QED BY <1>3, <3>2, StepKeepsOver DEF Over, Terminal
  <2>3. CASE UNCHANGED tables /\ Claimable(r)
    BY <2>3 DEF tables, Claimable, ClaimMatches, RunsKnown
  <2>. QED BY <2>1, <2>2, <2>3, StepOnSlots
<1>. QED BY <1>1, <1>2, <1>3

LEMMA StepKeepsNoneReused ==
  ASSUME Typed, NoneReused, [Next]_vars
  PROVE  NoneReused'
BY StepDeletesNone DEF NoneReused

\* A run that somebody is about to claim, or that is running, is a run of an
\* active job: cancel_job also cancels what a claim has selected.
THEOREM ClaimableIsActive == Spec => []ActiveJobInv
<1>. DEFINE Inv == Typed /\ RunsKnown /\ NoneReused /\ ActiveJobInv
<1>1. Init => Inv
  <2>1. Init => RunsKnown /\ NoneReused /\ ActiveJobInv
    BY DEF Init, BackendInit, NoRun, Idle, RunsKnown, NoneReused, ActiveJobInv,
           IsRunning, At
  <2>. QED BY <2>1, InitTyped
<1>2. Inv /\ [Next]_vars => Inv'
  BY StepTyped, StepKeepsKnown, StepKeepsNoneReused, StepKeepsActiveJob
<1>. QED BY <1>1, <1>2, PTL DEF Spec

\* No worker holds the lease of a run whose job is cancelled, however claims,
\* cancellations, retries and lapsed leases interleave.
THEOREM NoneHeldWhenCancelled == Spec => []NoRunningOfCancelledJob
<1>1. ActiveJobInv => NoRunningOfCancelledJob
  BY DEF ActiveJobInv, IsRunning, NoRunningOfCancelledJob
<1>. QED BY <1>1, ClaimableIsActive, PTL

-----------------------------------------------------------------------------
(* _active, which _run fills and empties.                                   *)

\* A coroutine between the registration in _run and its finally.
Registered(s) ==
  /\ Executing(s) \/ At(s, "leave")
  /\ slot[s].pc \notin Unregistered \cup {"abort"}

Entry(s, w, r) == WorkerOf[s] = w /\ slot[s].run = r /\ Registered(s)

RegistryInv ==
  \A w \in Workers, r \in RunIds :
    active[w][r] # None => Entry(active[w][r], w, r)

\* A slot that registers or leaves, or goes on as it is.
LEMMA CoroutinesRegistered ==
  ASSUME Typed, RegistryInv,
         NEW s \in Slots, CallStep(s) \/ TaskStep(s) \/ CallFails(s)
  PROVE  RegistryInv'
<1>a. /\ slot \in [Slots -> SlotState] /\ slot[s] \in SlotState
      /\ active \in [Workers -> [RunIds -> Slots \cup {None}]]
      /\ WorkerOf \in [Slots -> Workers] /\ None \notin Slots
  BY WorkerAssumption DEF Typed, TypeOK
<1>b. \A t \in Slots : Registered(t) => slot[t].run \in RunIds
  BY DEF Registered, Executing, At, Typed, SlotInv, WorkingSlot
<1>. DEFINE Others == \A t \in Slots \ {s} : Registered(t)
                        => slot'[t].pc = slot[t].pc /\ slot'[t].run = slot[t].run
<1>1. ASSUME Others, UNCHANGED active \/ Unregister(s), ~Registered(s)
      PROVE  RegistryInv'
  <2>1. ASSUME NEW w \in Workers, NEW r \in RunIds, active'[w][r] # None
        PROVE  active'[w][r] = active[w][r]
    BY <1>a, <1>1, <2>1 DEF Unregister
  <2>2. ASSUME NEW w \in Workers, NEW r \in RunIds, active[w][r] # None
        PROVE  active[w][r] \in Slots \ {s} /\ Entry(active[w][r], w, r)
    BY <1>a, <1>1, <2>2 DEF RegistryInv, Entry
  <2>. QED BY <1>1, <2>1, <2>2
           DEF RegistryInv, Entry, Registered, Executing, Claiming, At
<1>2. ASSUME Others, Registered(s), Unregister(s)
      PROVE  RegistryInv'
  BY <1>a, <1>b, <1>2
  DEF RegistryInv, Entry, Unregister, Registered, Executing, Claiming, At, RunOf
<1>3. ASSUME Others, Registered(s), UNCHANGED active,
             slot'[s].run = slot[s].run, Registered(s)'
      PROVE  RegistryInv'
  BY <1>a, <1>b, <1>3
  DEF RegistryInv, Entry, Registered, Executing, Claiming, At
<1>4. ASSUME NEW label \in Labels, Goto(s, label)
      PROVE  Others /\ slot'[s].pc = label /\ slot'[s].run = slot[s].run
  BY <1>a, <1>4 DEF Goto, SlotState
<1>5. ASSUME Release(s)
      PROVE  Others
  BY <1>a, <1>5 DEF Release
<1>6. CASE \/ SelectRun(s) \/ ClaimSelected(s) \/ MissSelected(s) \/ LoadJob(s)
           \/ CancelLoaded(s) \/ FailLoaded(s) \/ FailUnhandled(s)
  <2>1. ~Registered(s) /\ UNCHANGED active
    BY <1>6
    DEF SelectRun, ClaimSelected, MissSelected, LoadJob, CancelLoaded,
        FailLoaded, FailUnhandled, Registered, Executing, Claiming, At,
        Unregistered, processVars
  <2>2. Others
    BY <1>a, <1>6
    DEF SelectRun, ClaimSelected, MissSelected, LoadJob, CancelLoaded,
        FailLoaded, FailUnhandled, Goto, Release, Outdate, Registered,
        Executing, Claiming, At, SlotState
  <2>. QED BY <1>1, <2>1, <2>2
<1>7. CASE ReadRecords(s)
  <2>1. PICK p \in 0 .. NTasks, label \in {"complete", "exhausted", "start"} :
          slot' = [slot EXCEPT
            ![s].pc = label, ![s].pos = p,
            ![s].tried = [q \in Positions |-> tasks[RunOf(s)][q].attempts]]
    BY <1>7 DEF ReadRecords
  <2>2. /\ Others /\ slot'[s].run = slot[s].run /\ slot'[s].pc = label
        /\ ~Registered(s)
        /\ active' = [active EXCEPT ![WorkerOf[s]][slot[s].run] = s]
    BY <1>a, <1>7, <2>1
    DEF ReadRecords, SlotState, Registered, Unregistered, At, RunOf
  <2>3. Registered(s)'
    BY <2>2 DEF Registered, Executing, Claiming, At, Unregistered
  <2>4. slot[s].run \in RunIds
    BY <1>7 DEF ReadRecords, At, Typed, SlotInv, WorkingSlot
  <2>. QED BY <1>a, <1>b, <2>2, <2>3, <2>4
           DEF RegistryInv, Entry, Registered, Executing, Claiming, At
<1>8. CASE \/ PersistExhausted(s) \/ StartTask(s) \/ SucceedTask(s)
           \/ CancelTask(s) \/ PersistRetry(s) \/ RetryTask(s)
           \/ PersistFailure(s) \/ FailTask(s) \/ Complete(s) \/ TaskRaises(s)
           \/ TaskAborts(s)
  <2>1. /\ Registered(s) /\ UNCHANGED active
        /\ \E label \in Labels \ (Unregistered \cup {"idle", "selected",
                                                     "outdated", "abort"}) :
             Goto(s, label)
    BY <1>8
    DEF PersistExhausted, StartTask, SucceedTask, CancelTask, PersistRetry,
        RetryTask, PersistFailure, FailTask, Complete, TaskRaises, TaskAborts,
        Registered, Executing, Claiming, At, Unregistered, Labels, processVars
  <2>. QED BY <1>3, <1>4, <2>1 DEF Registered, Executing, Claiming, At
<1>9. CASE TaskReturns(s) \/ Checkpoint(s) \/ Gather(s) \/ UndoTask(s)
  <2>1. Others /\ slot'[s].run = slot[s].run /\ UNCHANGED active
    BY <1>a, <1>9
    DEF TaskReturns, Checkpoint, Gather, UndoTask, SlotState, processVars
  <2>2. /\ slot[s].pc \in {"body", "checkpoint", "gather", "undo"}
        /\ slot'[s].pc \in {"succeed", "start", "complete", "failRun", "undo"}
    BY <1>a, <1>9
    DEF TaskReturns, Checkpoint, AfterTask, Gather, UndoTask, At, SlotState
  <2>. QED BY <1>3, <2>1, <2>2
           DEF Registered, Executing, Claiming, At, Unregistered
<1>10. CASE \/ CancelTaskRun(s) \/ LeaveRun(s) \/ RetryWholeRun(s)
            \/ ResetAttempts(s)
  <2>1. Others /\ Unregister(s)
    BY <1>a, <1>10
    DEF CancelTaskRun, LeaveRun, RetryWholeRun, ResetAttempts, Release
  <2>. QED BY <1>1, <1>2, <2>1
<1>13. CASE ReleaseForRetry(s)
  <2>1. /\ Others /\ UNCHANGED active
        /\ slot[s].pc = "release"
        /\ slot'[s].run = slot[s].run /\ slot'[s].pc = "leave"
    BY <1>a, <1>13
    DEF ReleaseForRetry, Outdate, processVars, Registered, Executing, Claiming,
        At, SlotState
  <2>. QED BY <1>3, <2>1 DEF Registered, Executing, Claiming, At, Unregistered
<1>11. CASE FinalizeFailed(s) \/ CountFailure(s)
  <2>1. \/ Release(s) /\ Unregister(s)
        \/ /\ \E label \in {"increment", "retryRun"} : Goto(s, label)
           /\ UNCHANGED active
    BY <1>11 DEF FinalizeFailed, CountFailure
  <2>2. Registered(s)
    BY <1>11
    DEF FinalizeFailed, CountFailure, Registered, Executing, Claiming, At,
        Unregistered
  <2>. QED BY <1>2, <1>3, <1>4, <1>5, <2>1, <2>2
           DEF Registered, Executing, Claiming, At, Unregistered, Labels
<1>12. CASE CallFails(s)
  <2>1. Others
    <3>1. \/ slot' = [slot EXCEPT ![s] = Idle]
          \/ slot' = [slot EXCEPT ![s].pc = "abort"]
      BY <1>12 DEF CallFails, Release, Goto
    <3>. QED BY <1>a, <3>1
  <2>2. Unregister(s) \/ (UNCHANGED active /\ ~Registered(s))
    BY <1>12 DEF CallFails, Registered, Executing, Claiming, At, Unregistered
  <2>3. CASE Registered(s)
    BY <1>2, <2>1, <2>2, <2>3
  <2>4. CASE ~Registered(s)
    BY <1>1, <2>1, <2>2, <2>4
  <2>. QED BY <2>3, <2>4
<1>. QED BY <1>6, <1>7, <1>8, <1>9, <1>10, <1>11, <1>12, <1>13
         DEF CallStep, TaskStep

LEMMA StepRegistered ==
  ASSUME Typed, RegistryInv, [Next]_vars
  PROVE  RegistryInv'
<1>a. /\ slot \in [Slots -> SlotState]
      /\ active \in [Workers -> [RunIds -> Slots \cup {None}]]
      /\ WorkerOf \in [Slots -> Workers] /\ None \notin Slots
  BY WorkerAssumption DEF Typed, TypeOK
<1>1. CASE \E s \in Slots : CallStep(s) \/ TaskStep(s) \/ CallFails(s)
  BY <1>1, CoroutinesRegistered
<1>2. CASE UNCHANGED <<slot, active>>
  BY <1>2 DEF RegistryInv, Entry, Registered, Executing, Claiming, At
<1>3. CASE \E w \in Workers : BeatStep(w)
  <2>1. PICK w \in Workers : BeatStep(w)
    BY <1>3
  <2>2. \A t \in Slots : Registered(t)
          => slot'[t].pc = slot[t].pc /\ slot'[t].run = slot[t].run
    <3>1. CASE BeatBegins(w) \/ BeatChecks(w)
      BY <1>a, <3>1, BeatKeepsSlots
    <3>2. CASE BeatRenews(w) \/ BeatDrops(w)
      BY <1>a, <3>2
      DEF BeatRenews, BeatDrops, Outdate, Registered, Executing, Claiming, At
    <3>. QED BY <2>1, <3>1, <3>2 DEF BeatStep
  <2>3. \A v \in Workers, r \in RunIds :
          active'[v][r] = active[v][r] \/ active'[v][r] = None
    <3>1. \/ UNCHANGED active
          \/ active' = [active EXCEPT ![w][beat[w].run] = None]
      BY <2>1 DEF BeatStep, BeatBegins, BeatChecks, BeatRenews, BeatDrops
    <3>. QED BY <1>a, <3>1
  <2>. QED BY <1>a, <2>2, <2>3
           DEF RegistryInv, Entry, Registered, Executing, Claiming, At
<1>4. CASE \E w \in Workers : Crash(w)
  <2>1. PICK w \in Workers : Crash(w)
    BY <1>4
  <2>2. /\ \A t \in Slots : WorkerOf[t] # w => slot'[t] = slot[t]
        /\ \A v \in Workers, r \in RunIds :
             \/ active'[v][r] = None
             \/ v # w /\ active'[v][r] = active[v][r]
    BY <1>a, <2>1 DEF Crash
  <2>. QED BY <1>a, <2>2
           DEF RegistryInv, Entry, Registered, Executing, Claiming, At
<1>5. CASE \E w \in Workers : Restart(w)
  <2>1. PICK w \in Workers : Restart(w)
    BY <1>5
  <2>2. /\ UNCHANGED slot
        /\ \A v \in Workers, r \in RunIds :
             active'[v][r] = None \/ active'[v][r] = active[v][r]
    BY <1>a, <2>1 DEF Restart
  <2>. QED BY <2>2 DEF RegistryInv, Entry, Registered, Executing, Claiming, At
<1>. QED
  BY <1>1, <1>2, <1>3, <1>4, <1>5
  DEF Next, vars, processVars, ClientEnqueues, ClientCancels, Stop, BeatDies,
      LeaseRunsOut, LeaseLapses

\* An entry of _active is an execution of that run by that worker, through
\* crashes, drains, failed calls, lost leases and dead heartbeats: every way
\* out of _run that is past the registration takes the entry with it.
THEOREM RegistryIsExact == Spec => []RegistryExact
<1>1. Init => RegistryInv
  BY DEF Init, RegistryInv
<1>2. Typed /\ RegistryInv /\ [Next]_vars => RegistryInv'
  BY StepRegistered
<1>3. RegistryInv => RegistryExact
  BY DEF RegistryInv, RegistryExact, Entry, Registered, RunOf
<1>. QED BY <1>1, <1>2, <1>3, TypedInvariant, PTL DEF Spec

-----------------------------------------------------------------------------
(* Where leases hold, one execution per run.                                *)

\* Without stops and dead heartbeats every worker keeps renewing its leases.
AllUp == \A w \in Workers : mode[w] = "up"

\* The heartbeat finds the lease lost of the run it is about to renew.
LostIsNamed == \A w \in Workers : beat[w].lost => beat[w].run # 0

Safe == Typed /\ LeaseInv /\ AllUp /\ NoneReused /\ LostIsNamed

\* What an execution may change without disturbing the others: the database
\* row and the _active entry of its own run, or a row nobody could execute.
OthersKept(s, r) ==
  /\ UNCHANGED beat
  /\ \A t \in Slots : slot'[t].pc = "leave"
       => \/ t = s /\ slot'[t].run = r
          \/ slot[t].pc = "leave" /\ slot'[t].run = slot[t].run
  /\ \A t \in Slots \ {s} : Executing(t)'
       => slot'[t].pc = slot[t].pc /\ slot'[t].run = slot[t].run
  /\ \A q \in RunIds \ {r} : runs[q].status # "absent" => runs'[q] = runs[q]
  /\ \A w \in Workers, q \in RunIds \ {r} : active'[w][q] = active[w][q]
  /\ \A w \in Workers : w # WorkerOf[s] => active'[w][r] = active[w][r]

LEMMA OwnStep ==
  ASSUME Typed, LeaseInv, SlotInv', NEW s \in Slots, Executing(s),
         NEW r \in RunIds, r = RunOf(s),
         OthersKept(s, r),
         Executing(s)' => /\ slot'[s].run = r
                          /\ runs'[r].status \in Over \/ HoldsLease(s)'
  PROVE  LeaseInv'
<1>1. ASSUME NEW t \in Slots, t # s, Executing(t)'
      PROVE  /\ Executing(t) /\ slot'[t].run = slot[t].run
             /\ RunOf(t) \in RunIds \ {r}
             /\ runs'[RunOf(t)] = runs[RunOf(t)]
             /\ active'[WorkerOf[t]][RunOf(t)] = active[WorkerOf[t]][RunOf(t)]
             /\ slot'[t].pc = slot[t].pc
  <2>1. slot'[t].pc = slot[t].pc /\ slot'[t].run = slot[t].run
    BY <1>1 DEF OthersKept
  <2>2. Executing(t)
    BY <1>1, <2>1 DEF Executing, Claiming, At
  <2>3. RunOf(t) # r
    BY <1>1, <2>2 DEF LeaseInv, ExclusiveExecution
  <2>4. RunOf(t) \in RunIds
    BY <2>2 DEF Executing, At, RunOf, Typed, SlotInv, WorkingSlot
  <2>5. runs[RunOf(t)].status # "absent"
    BY <2>2 DEF LeaseInv, HoldsLease, LeaseHeldBy, IsRunning, Over, Terminal
  <2>6. WorkerOf[t] \in Workers
    BY WorkerAssumption
  <2>. QED BY <2>1, <2>2, <2>3, <2>4, <2>5, <2>6 DEF OthersKept
<1>2. ASSUME NEW t \in Slots, t # s, Executing(t)'
      PROVE  runs'[slot'[t].run].status \in Over \/ HoldsLease(t)'
  <2>1. runs[RunOf(t)].status \in Over \/ HoldsLease(t)
    BY <1>1, <1>2 DEF LeaseInv
  <2>2. Overtakes(t)' => Overtakes(t)
    BY <1>1, <1>2 DEF Overtakes, OthersKept, At, RunOf
  <2>. QED BY <1>1, <1>2, <2>1, <2>2
           DEF HoldsLease, LeaseHeldBy, IsRunning, Renewed, RunOf
<1>3. ASSUME NEW t \in Slots, NEW u \in Slots, Executing(t)', Executing(u)',
             slot'[t].run = slot'[u].run
      PROVE  t = u
  <2>1. CASE t # s /\ u # s
    BY <1>1, <1>3, <2>1 DEF LeaseInv, ExclusiveExecution, RunOf
  <2>2. CASE t = s \/ u = s
    BY <1>1, <1>3, <2>2 DEF RunOf
  <2>. QED BY <2>1, <2>2
<1>. QED BY <1>2, <1>3 DEF LeaseInv, ExclusiveExecution, RunOf

\* An execution goes from one call to the next: its run keeps its status,
\* owner and lease, or has ended; so does its entry in _active.
LEMMA OwnGoto ==
  ASSUME Typed, LeaseInv, SlotInv', NEW s \in Slots, Executing(s),
         NEW r \in RunIds, r = RunOf(s),
         slot'[s].run = r, \A t \in Slots \ {s} : slot'[t] = slot[t],
         \A q \in RunIds \ {r} : runs'[q] = runs[q],
         \/ runs'[r].status \in Over
         \/ /\ runs'[r].status = runs[r].status
            /\ runs'[r].owner = runs[r].owner
            /\ runs'[r].lease = runs[r].lease,
         UNCHANGED <<active, beat>>,
         slot[s].pc \in Unregistered => slot'[s].pc \in Unregistered,
         slot[s].pc # "abort", slot'[s].pc # "leave"
  PROVE  LeaseInv'
<1>1. OthersKept(s, r)
  BY DEF OthersKept
<1>2. runs[r].status \in Over \/ HoldsLease(s)
  BY DEF LeaseInv
<1>3. Overtakes(s)' => Overtakes(s)
  BY DEF Overtakes, At, RunOf
<1>4. runs'[r].status \in Over \/ HoldsLease(s)'
  BY <1>2, <1>3 DEF HoldsLease, LeaseHeldBy, IsRunning, Renewed, RunOf
<1>. QED BY <1>1, <1>4, OwnStep

\* An execution ends, with the last write to its run or to another table.
LEMMA OwnEnd ==
  ASSUME Typed, LeaseInv, SlotInv', NEW s \in Slots, Executing(s),
         NEW r \in RunIds, r = RunOf(s),
         slot'[s].pc = "idle" \/ (slot'[s].pc = "leave" /\ slot'[s].run = r),
         \A t \in Slots \ {s} : \/ slot'[t] = slot[t]
                                \/ slot'[t].pc = "outdated",
         \A q \in RunIds \ {r} : runs[q].status # "absent" => runs'[q] = runs[q],
         UNCHANGED active \/ Unregister(s),
         UNCHANGED beat
  PROVE  LeaseInv'
<1>1. active \in [Workers -> [RunIds -> Slots \cup {None}]]
  BY DEF Typed, TypeOK
<1>2. OthersKept(s, r)
  BY <1>1 DEF OthersKept, Executing, Claiming, At, Unregister
<1>3. ~Executing(s)'
  BY DEF Executing, At
<1>. QED BY <1>2, <1>3, OwnStep

\* What the writes of an execution do to its run, and to the other runs.
LEMMA OwnWrites ==
  ASSUME runs \in [RunIds -> RunRow], NEW r \in RunIds
  PROVE  /\ CompleteRun(r) \/ FailRun(r) \/ ReleaseRun(r) \/ CancelRun(r)
              => \A q \in RunIds \ {r} : runs'[q] = runs[q]
         /\ (\E ctx : SetRunCtx(r, ctx))
              => \A q \in RunIds \ {r} : runs'[q] = runs[q]
         /\ /\ CompleteRun(r) \/ FailRun(r)
            /\ runs[r].status \in Over \cup {"running"}
            => runs'[r].status \in Over
         /\ (\E ctx : SetRunCtx(r, ctx))
              => /\ runs'[r].status = runs[r].status
                 /\ runs'[r].owner = runs[r].owner
                 /\ runs'[r].lease = runs[r].lease
<1>1. runs[r] \in RunRow
  OBVIOUS
<1>2. ASSUME NEW ctx, SetRunCtx(r, ctx)
      PROVE  /\ \A q \in RunIds \ {r} : runs'[q] = runs[q]
             /\ runs'[r].status = runs[r].status
             /\ runs'[r].owner = runs[r].owner
             /\ runs'[r].lease = runs[r].lease
  BY <1>1, <1>2 DEF SetRunCtx, UpdateRun, RunRow
<1>3. ASSUME CompleteRun(r) \/ FailRun(r)
      PROVE  runs[r].status \in Over \cup {"running"}
               => runs'[r].status \in Over
  <2>1. CASE runs[r].status = "running"
    <3>1. CASE CompleteRun(r)
      <4>1. runs'[r].status = "succeeded"
        BY <1>1, <2>1, <3>1 DEF CompleteRun, UpdateRun, IsRunning, RunRow
      <4>. QED BY <4>1 DEF Over, Terminal
    <3>2. CASE FailRun(r)
      <4>1. runs'[r].status = "failed"
        BY <1>1, <2>1, <3>2 DEF FailRun, UpdateRun, IsRunning, RunRow
      <4>. QED BY <4>1 DEF Over, Terminal
    <3>. QED BY <1>3, <3>1, <3>2
  <2>2. CASE runs[r].status # "running"
    BY <1>3, <2>2 DEF CompleteRun, FailRun, UpdateRun, IsRunning
  <2>. QED BY <2>1, <2>2
<1>4. ASSUME CompleteRun(r) \/ FailRun(r) \/ ReleaseRun(r) \/ CancelRun(r)
      PROVE  \A q \in RunIds \ {r} : runs'[q] = runs[q]
  BY <1>4 DEF CompleteRun, FailRun, ReleaseRun, CancelRun, UpdateRun
<1>. QED BY <1>2, <1>3, <1>4

LEMMA KeptStep ==
  ASSUME LeaseInv, SlotInv',
         \A t \in Slots : Executing(t)'
           => /\ Executing(t) /\ slot'[t].run = slot[t].run
              /\ runs'[slot[t].run].status \in Over \/ HoldsLease(t)'
  PROVE  LeaseInv'
BY DEF LeaseInv, ExclusiveExecution, RunOf

LEMMA CoroutinesStay ==
  ASSUME NEW s \in Slots, CallStep(s) \/ TaskStep(s) \/ CallFails(s)
  PROVE  UNCHANGED <<mode, beat>>
BY DEF CallStep, TaskStep, CallFails, SelectRun, ClaimSelected, MissSelected,
       LoadJob, CancelLoaded, FailLoaded, ReadRecords, PersistExhausted,
       StartTask, SucceedTask, Checkpoint, CancelTask, CancelTaskRun,
       PersistRetry, RetryTask, ReleaseForRetry, LeaveRun, PersistFailure,
       FailTask, Gather, UndoTask, FinalizeFailed, CountFailure, RetryWholeRun,
       Complete, ResetAttempts, FailUnhandled, TaskReturns, TaskRaises,
       TaskAborts, processVars, workerVars

LEMMA CoroutinesSafe ==
  ASSUME LeasesHold, Safe, SlotInv',
         NEW s \in Slots, CallStep(s) \/ TaskStep(s) \/ CallFails(s)
  PROVE  LeaseInv'
<1>. USE DEF Safe
<1>a. /\ slot \in [Slots -> SlotState] /\ slot[s] \in SlotState
      /\ runs \in [RunIds -> RunRow]
      /\ active \in [Workers -> [RunIds -> Slots \cup {None}]]
      /\ WorkerOf[s] \in Workers
  BY WorkerAssumption DEF Typed, TypeOK, BackendTypeOK
<1>b. UNCHANGED <<mode, beat>>
  BY CoroutinesStay
<1>1. CASE Executing(s)
  <2>1. PICK r \in RunIds : r = RunOf(s)
    BY <1>1 DEF Executing, At, RunOf, Typed, SlotInv, WorkingSlot
  <2>2. runs[r].status \in Over \/ HoldsLease(s)
    BY <1>1, <2>1 DEF LeaseInv
  <2>3. runs[r].status \in Over \cup {"running"}
    BY <2>1, <2>2 DEF HoldsLease, LeaseHeldBy, IsRunning
  <2>4. CASE \/ LoadJob(s) \/ StartTask(s) \/ TaskRaises(s) \/ TaskAborts(s)
             \/ SucceedTask(s) \/ CancelTask(s) \/ RetryTask(s) \/ FailTask(s)
    BY <1>1, <1>a, <2>1, <2>4, <1>b, OwnGoto
    DEF LoadJob, StartTask, TaskRaises, TaskAborts, SucceedTask, CancelTask,
        RetryTask, FailTask, Goto, At, RunOf, Unregistered, SlotState,
        processVars, tables
  <2>5. CASE TaskReturns(s) \/ Gather(s) \/ UndoTask(s)
    <3>1. /\ slot'[s].run = r /\ \A t \in Slots \ {s} : slot'[t] = slot[t]
          /\ slot[s].pc \in {"body", "gather", "undo"} /\ slot'[s].pc # "leave"
      BY <1>a, <2>1, <2>5 DEF TaskReturns, Gather, UndoTask, At, RunOf, SlotState
    <3>2. UNCHANGED <<runs, active>>
      BY <2>5 DEF TaskReturns, Gather, UndoTask, processVars, tables
    <3>. QED BY <1>1, <2>1, <3>1, <3>2, <1>b, OwnGoto DEF Unregistered
  <2>6. CASE \/ PersistExhausted(s) \/ PersistRetry(s) \/ PersistFailure(s)
             \/ Checkpoint(s)
    <3>1. /\ slot'[s].run = r /\ \A t \in Slots \ {s} : slot'[t] = slot[t]
          /\ slot[s].pc \in {"exhausted", "retryCtx", "failCtx", "checkpoint"}
          /\ slot'[s].pc # "leave"
      BY <1>a, <2>1, <2>6
      DEF PersistExhausted, PersistRetry, PersistFailure, Checkpoint, AfterTask,
          Goto, At, RunOf, SlotState
    <3>2. SetRunCtx(r, slot[s].ctx) /\ UNCHANGED active
      BY <2>1, <2>6
      DEF PersistExhausted, PersistRetry, PersistFailure, Checkpoint,
          processVars
    <3>3. /\ \A q \in RunIds \ {r} : runs'[q] = runs[q]
          /\ runs'[r].status = runs[r].status
          /\ runs'[r].owner = runs[r].owner
          /\ runs'[r].lease = runs[r].lease
      BY <1>a, <3>2, OwnWrites
    <3>. QED BY <1>1, <2>1, <3>1, <3>2, <3>3, <1>b, OwnGoto DEF Unregistered
  <2>7. CASE Complete(s)
    <3>1. /\ slot'[s].run = r /\ \A t \in Slots \ {s} : slot'[t] = slot[t]
          /\ slot[s].pc = "complete" /\ slot'[s].pc # "leave"
      BY <1>a, <2>1, <2>7 DEF Complete, Goto, At, RunOf, SlotState
    <3>2. CompleteRun(r) /\ UNCHANGED active
      BY <2>1, <2>7 DEF Complete, processVars
    <3>3. /\ \A q \in RunIds \ {r} : runs'[q] = runs[q]
          /\ runs'[r].status \in Over
      BY <1>a, <2>3, <3>2, OwnWrites
    <3>. QED BY <1>1, <2>1, <3>1, <3>2, <3>3, <1>b, OwnGoto DEF Unregistered
  <2>8. CASE FinalizeFailed(s)
    <3>1. /\ \A q \in RunIds \ {r} : runs'[q] = runs[q]
          /\ runs'[r].status \in Over
      <4>1. FailRun(r)
        BY <2>1, <2>8 DEF FinalizeFailed
      <4>. QED BY <1>a, <2>3, <4>1, OwnWrites
    <3>2. CASE Release(s) /\ Unregister(s)
      <4>1. slot'[s].pc = "idle" /\ \A t \in Slots \ {s} : slot'[t] = slot[t]
        BY <1>a, <3>2 DEF Release, Idle
      <4>. QED BY <1>1, <2>1, <3>1, <3>2, <4>1, <1>b, OwnEnd
    <3>3. CASE Goto(s, "increment") /\ UNCHANGED active
      <4>1. /\ slot'[s].run = r /\ \A t \in Slots \ {s} : slot'[t] = slot[t]
            /\ slot[s].pc = "failRun" /\ slot'[s].pc # "leave"
        BY <1>a, <2>1, <2>8, <3>3 DEF FinalizeFailed, Goto, At, RunOf, SlotState
      <4>. QED BY <1>1, <2>1, <3>1, <3>3, <4>1, <1>b, OwnGoto
               DEF Unregistered
    <3>. QED BY <2>8, <3>2, <3>3 DEF FinalizeFailed
  <2>9. CASE CountFailure(s)
    <3>1. CASE Release(s) /\ Unregister(s)
      <4>1. slot'[s].pc = "idle" /\ \A t \in Slots \ {s} : slot'[t] = slot[t]
        BY <1>a, <3>1 DEF Release, Idle
      <4>. QED BY <1>1, <2>1, <2>9, <3>1, <4>1, <1>b, OwnEnd DEF CountFailure
    <3>2. CASE Goto(s, "retryRun") /\ UNCHANGED active
      <4>1. /\ slot'[s].run = r /\ \A t \in Slots \ {s} : slot'[t] = slot[t]
            /\ slot[s].pc = "increment" /\ slot'[s].pc # "leave"
        BY <1>a, <2>1, <2>9, <3>2 DEF CountFailure, Goto, At, RunOf, SlotState
      <4>. QED BY <1>1, <2>1, <2>9, <3>2, <4>1, <1>b, OwnGoto
               DEF CountFailure, Unregistered
    <3>. QED BY <2>9, <3>1, <3>2 DEF CountFailure
  <2>10. CASE \/ CancelLoaded(s) \/ FailLoaded(s) \/ CancelTaskRun(s)
              \/ FailUnhandled(s)
    <3>1. slot'[s].pc = "idle" /\ \A t \in Slots \ {s} : slot'[t] = slot[t]
      BY <1>a, <2>10
      DEF CancelLoaded, FailLoaded, CancelTaskRun, FailUnhandled, Release, Idle
    <3>2. /\ CancelRun(r) \/ FailRun(r)
          /\ UNCHANGED active \/ Unregister(s)
      BY <2>1, <2>10
      DEF CancelLoaded, FailLoaded, CancelTaskRun, FailUnhandled, processVars
    <3>3. \A q \in RunIds \ {r} : runs'[q] = runs[q]
      BY <1>a, <3>2, OwnWrites
    <3>. QED BY <1>1, <2>1, <3>1, <3>2, <3>3, <1>b, OwnEnd
  <2>11. CASE ReleaseForRetry(s)
    <3>1. /\ slot'[s].pc = "leave" /\ slot'[s].run = r
          /\ \A t \in Slots \ {s} : slot'[t] = slot[t] \/ slot'[t].pc = "outdated"
      BY <1>a, <2>1, <2>11 DEF ReleaseForRetry, Outdate, RunOf, SlotState
    <3>2. ReleaseRun(r) /\ UNCHANGED active
      BY <2>1, <2>11 DEF ReleaseForRetry, processVars
    <3>3. \A q \in RunIds \ {r} : runs'[q] = runs[q]
      BY <1>a, <3>2, OwnWrites
    <3>. QED BY <1>1, <2>1, <3>1, <3>2, <3>3, <1>b, OwnEnd
  <2>12. CASE RetryWholeRun(s)
    <3>1. slot'[s].pc = "idle" /\ \A t \in Slots \ {s} : slot'[t] = slot[t]
      BY <1>a, <2>12 DEF RetryWholeRun, Release, Idle
    <3>2. \A q \in RunIds : runs[q].status # "absent" => runs'[q] = runs[q]
      BY <1>a, <2>12, NewRowWasAbsent DEF RetryWholeRun
    <3>3. Unregister(s)
      BY <2>12 DEF RetryWholeRun
    <3>. QED BY <1>1, <2>1, <3>1, <3>2, <3>3, <1>b, OwnEnd
  <2>13. CASE ResetAttempts(s)
    <3>1. slot'[s].pc = "idle" /\ \A t \in Slots \ {s} : slot'[t] = slot[t]
      BY <1>a, <2>13 DEF ResetAttempts, Release, Idle
    <3>. QED BY <1>1, <2>1, <2>13, <3>1, <1>b, OwnEnd DEF ResetAttempts
  <2>14. CASE ReadRecords(s)
    <3>1. /\ slot'[s].run = r /\ \A t \in Slots \ {s} : slot'[t] = slot[t]
          /\ UNCHANGED runs
      <4>1. PICK p \in 0 .. NTasks, label \in {"complete", "exhausted", "start"} :
              slot' = [slot EXCEPT
                ![s].pc = label, ![s].pos = p,
                ![s].tried = [q \in Positions |-> tasks[RunOf(s)][q].attempts]]
        BY <2>14 DEF ReadRecords
      <4>. QED BY <1>a, <2>1, <2>14, <4>1 DEF ReadRecords, RunOf, SlotState, tables
    <3>2. active' = [active EXCEPT ![WorkerOf[s]][r] = s]
      BY <2>1, <2>14 DEF ReadRecords
    <3>6. slot'[s].pc # "leave"
      BY <1>a, <2>14 DEF ReadRecords, SlotState
    <3>3. OthersKept(s, r)
      BY <1>a, <1>b, <3>1, <3>2, <3>6 DEF OthersKept
    <3>4. active'[WorkerOf[s]][r] # None
      BY <1>a, <3>2, WorkerAssumption
    <3>7. ~Overtakes(s)'
      <4>1. ~Fault("overtake")
        BY DEF LeasesHold, Fault, Typed, TypeOK, FaultKinds
      <4>2. ~Overtakes(s)
        BY <2>14, <4>1 DEF ReadRecords
      <4>. QED BY <1>b, <2>1, <3>1, <3>6, <4>2 DEF Overtakes, At, RunOf
    <3>5. runs'[r].status \in Over \/ HoldsLease(s)'
      BY <2>1, <2>2, <3>1, <3>4, <3>7
      DEF HoldsLease, LeaseHeldBy, IsRunning, Renewed, RunOf
    <3>. QED BY <1>1, <2>1, <3>1, <3>3, <3>5, OwnStep
  <2>15. CASE CallFails(s)
    <3>1. UNCHANGED runs
      BY <2>15 DEF CallFails, tables
    <3>2. CASE Release(s) /\ UNCHANGED active
      <4>1. slot'[s].pc = "idle" /\ \A t \in Slots \ {s} : slot'[t] = slot[t]
        BY <1>a, <3>2 DEF Release, Idle
      <4>. QED BY <1>1, <2>1, <3>1, <3>2, <4>1, <1>b, OwnEnd
    <3>3. CASE Goto(s, "abort") /\ (UNCHANGED active \/ Unregister(s))
      <4>1. /\ slot'[s].run = r /\ \A t \in Slots \ {s} : slot'[t] = slot[t]
            /\ slot'[s].pc = "abort"
        BY <1>a, <2>1, <3>3 DEF Goto, RunOf, SlotState
      <4>2. OthersKept(s, r)
        BY <1>a, <1>b, <2>1, <3>1, <3>3, <4>1 DEF OthersKept, Unregister
      <4>3. runs'[r].status \in Over \/ HoldsLease(s)'
        BY <2>1, <2>2, <3>1, <4>1
        DEF HoldsLease, LeaseHeldBy, IsRunning, Renewed, RunOf
      <4>. QED BY <1>1, <2>1, <4>1, <4>2, <4>3, OwnStep
    <3>. QED BY <2>15, <3>2, <3>3 DEF CallFails
  <2>. QED BY <1>1, <2>4, <2>5, <2>6, <2>7, <2>8, <2>9, <2>10, <2>11, <2>12,
              <2>13, <2>14, <2>15
           DEF CallStep, TaskStep, SelectRun, ClaimSelected, MissSelected,
               LeaveRun, Executing, Claiming, At
<1>2. CASE ~Executing(s)
  <2>a. ASSUME \A t \in Slots \ {s} : \/ slot'[t] = slot[t]
                                       \/ slot'[t].pc = "outdated",
               slot'[s].pc # "leave"
        PROVE  \A t \in Slots \ {s} : slot'[t] = slot[t] /\ Overtakes(t)'
                 => Overtakes(t)
    BY <1>b, <2>a DEF Overtakes, At, RunOf
  <2>1. CASE SelectRun(s) \/ MissSelected(s) \/ CallFails(s)
    <3>1. /\ ~Executing(s)' /\ slot'[s].pc # "leave"
          /\ \A t \in Slots \ {s} : slot'[t] = slot[t]
          /\ UNCHANGED <<runs, active>>
      <4>1. CASE SelectRun(s)
        BY <1>a, <4>1
        DEF SelectRun, Executing, Claiming, At, SlotState, tables, processVars
      <4>2. CASE MissSelected(s)
        BY <1>a, <4>2
        DEF MissSelected, Release, Idle, Executing, At, tables, processVars
      <4>3. CASE CallFails(s)
        BY <1>2, <1>a, <4>3
        DEF CallFails, Release, Idle, Executing, Claiming, At, tables
      <4>. QED BY <2>1, <4>1, <4>2, <4>3
    <3>. QED BY <2>a, <3>1, KeptStep
             DEF LeaseInv, HoldsLease, LeaseHeldBy, IsRunning, Renewed,
                 Executing, Claiming, At, RunOf
  <2>2. CASE ClaimSelected(s) /\ ~ClaimMatches(RunOf(s))
    <3>1. Release(s) /\ UNCHANGED active
      BY <2>2 DEF ClaimSelected, processVars
    <3>2. runs' = runs
      BY <1>a, <2>2 DEF ClaimSelected, ClaimRun, UpdateRun
    <3>3. /\ ~Executing(s)' /\ slot'[s].pc # "leave"
          /\ \A t \in Slots \ {s} : slot'[t] = slot[t]
      BY <1>a, <3>1 DEF Release, Idle, Executing, At
    <3>. QED BY <2>a, <3>1, <3>2, <3>3, KeptStep
             DEF LeaseInv, HoldsLease, LeaseHeldBy, IsRunning, Renewed,
                 Executing, Claiming, At, RunOf
  <2>3. CASE ClaimSelected(s) /\ ClaimMatches(RunOf(s))
    <3>1. PICK r \in RunIds : r = RunOf(s)
      BY <2>3 DEF ClaimSelected, At, RunOf, Typed, SlotInv, WorkingSlot
    <3>2. /\ slot'[s].run = r /\ slot'[s].pc = "load"
          /\ \A t \in Slots \ {s} : \/ slot'[t] = slot[t]
                                    \/ slot'[t].pc = "outdated"
          /\ UNCHANGED active
      <4>1. slot' = Outdate([slot EXCEPT ![s].pc = "load",
                                         ![s].ctx = runs[r].ctx], r)
        BY <2>3, <3>1 DEF ClaimSelected
      <4>2. slot'[s] = [slot[s] EXCEPT !.pc = "load", !.ctx = runs[r].ctx]
        BY <1>a, <4>1 DEF Outdate, SlotState
      <4>3. \A t \in Slots \ {s} : \/ slot'[t] = slot[t]
                                    \/ slot'[t] = [slot[t] EXCEPT !.pc = "outdated"]
        BY <1>a, <4>1 DEF Outdate
      <4>4. \A t \in Slots : slot[t] \in SlotState
        BY <1>a
      <4>. QED BY <2>3, <3>1, <4>2, <4>3, <4>4
               DEF ClaimSelected, RunOf, SlotState, processVars
    <3>3. /\ runs'[r].status = "running" /\ runs'[r].owner = WorkerOf[s]
          /\ runs'[r].lease = "live"
          /\ \A q \in RunIds \ {r} : runs'[q] = runs[q]
      <4>1. runs' = [runs EXCEPT ![r] =
                       [runs[r] EXCEPT !.status = "running",
                          !.owner = WorkerOf[s], !.lease = "live"]]
        BY <1>a, <2>3, <3>1 DEF ClaimSelected, ClaimRun, UpdateRun
      <4>2. runs[r] \in RunRow
        BY <1>a
      <4>. QED BY <1>a, <4>1, <4>2 DEF RunRow
    <3>4. ASSUME NEW t \in Slots, Executing(t), RunOf(t) = r
          PROVE  FALSE
      BY <2>3, <3>1, <3>4
      DEF LeaseInv, HoldsLease, LeaseHeldBy, IsRunning, ClaimMatches, Over,
          Terminal
    <3>5. HoldsLease(s)'
      BY <3>2, <3>3
      DEF HoldsLease, LeaseHeldBy, IsRunning, Renewed, RunOf, Unregistered
    <3>6. ASSUME NEW t \in Slots \ {s}, Executing(t)'
          PROVE  /\ Executing(t) /\ slot'[t] = slot[t]
                 /\ slot'[t].run \in RunIds \ {r}
                 /\ runs'[slot'[t].run].status \in Over \/ HoldsLease(t)'
      <4>1. slot'[t] = slot[t] /\ Executing(t)
        BY <3>2, <3>6 DEF Executing, Claiming, At
      <4>2. slot[t].run \in RunIds \ {r}
        BY <3>4, <4>1
        DEF Executing, At, RunOf, Typed, SlotInv, WorkingSlot
      <4>3. runs[RunOf(t)].status \in Over \/ HoldsLease(t)
        BY <4>1 DEF LeaseInv
      <4>4. Overtakes(t)' => Overtakes(t)
        BY <2>a, <3>2, <4>1
      <4>. QED BY <3>2, <3>3, <4>1, <4>2, <4>3, <4>4
               DEF HoldsLease, LeaseHeldBy, IsRunning, Renewed, RunOf
    <3>. QED BY <3>2, <3>5, <3>6 DEF LeaseInv, ExclusiveExecution, RunOf
  <2>4. CASE LeaveRun(s)
    <3>1. PICK r \in RunIds : r = RunOf(s)
      BY <2>4 DEF LeaveRun, At, RunOf, Typed, SlotInv, WorkingSlot
    <3>2. /\ ~Executing(s)' /\ slot'[s].pc # "leave"
          /\ \A t \in Slots \ {s} : slot'[t] = slot[t]
          /\ UNCHANGED runs
      BY <1>a, <2>4 DEF LeaveRun, Release, Idle, Executing, At, tables
    <3>3. active' = [active EXCEPT ![WorkerOf[s]][r] = None]
      BY <2>4, <3>1 DEF LeaveRun, Unregister
    <3>4. ASSUME NEW t \in Slots, WorkerOf[t] = WorkerOf[s], RunOf(t) = r
          PROVE  Overtakes(t)
      BY <2>4, <3>1, <3>4 DEF LeaveRun, Overtakes
    <3>5. ASSUME NEW t \in Slots \ {s}, Executing(t)'
          PROVE  /\ Executing(t) /\ slot'[t] = slot[t]
                 /\ runs'[slot'[t].run].status \in Over \/ HoldsLease(t)'
      <4>1. slot'[t] = slot[t] /\ Executing(t)
        BY <3>2, <3>5 DEF Executing, Claiming, At
      <4>2. RunOf(t) \in RunIds
        BY <4>1 DEF Executing, At, RunOf, Typed, SlotInv, WorkingSlot
      <4>3. runs[RunOf(t)].status \in Over \/ HoldsLease(t)
        BY <4>1 DEF LeaseInv
      <4>4. Overtakes(t)' => Overtakes(t)
        BY <2>a, <3>2, <4>1
      <4>5. \/ active'[WorkerOf[t]][RunOf(t)] = active[WorkerOf[t]][RunOf(t)]
            \/ Overtakes(t)
        BY <1>a, <3>3, <3>4, <4>2, WorkerAssumption
      <4>. QED BY <3>2, <4>1, <4>3, <4>4, <4>5
               DEF HoldsLease, LeaseHeldBy, IsRunning, Renewed, RunOf
    <3>. QED BY <3>2, <3>5, KeptStep
  <2>. QED
    BY <1>2, <2>1, <2>2, <2>3, <2>4
    DEF CallStep, TaskStep, Executing, Claiming, At, LoadJob, CancelLoaded,
        FailLoaded, ReadRecords, PersistExhausted, StartTask, SucceedTask,
        Checkpoint, CancelTask, CancelTaskRun, PersistRetry, RetryTask,
        ReleaseForRetry, PersistFailure, FailTask, Gather, UndoTask,
        FinalizeFailed, CountFailure, RetryWholeRun, Complete, ResetAttempts,
        FailUnhandled, TaskReturns, TaskRaises, TaskAborts
<1>. QED BY <1>1, <1>2

LEMMA SurroundingsSafe ==
  ASSUME Safe, SlotInv', LeasesHold,
         \/ \E j \in Jobs : ClientEnqueues(j) \/ ClientCancels(j)
         \/ \E w \in Workers :
              BeatStep(w) \/ Crash(w) \/ Stop(w) \/ Restart(w) \/ BeatDies(w)
         \/ \E r \in RunIds : LeaseRunsOut(r) \/ LeaseLapses(r)
  PROVE  LeaseInv' /\ AllUp' /\ LostIsNamed'
<1>. USE DEF Safe
<1>a. /\ slot \in [Slots -> SlotState]
      /\ runs \in [RunIds -> RunRow]
      /\ active \in [Workers -> [RunIds -> Slots \cup {None}]]
      /\ WorkerOf \in [Slots -> Workers]
  BY WorkerAssumption DEF Typed, TypeOK, BackendTypeOK
<1>b. ~Fault("stop") /\ ~Fault("beatError") /\ ~Fault("lapse")
  BY DEF LeasesHold, Fault, Typed, TypeOK, FaultKinds
<1>c. \A t \in Slots : Executing(t)
        => /\ RunOf(t) \in RunIds
           /\ runs[RunOf(t)].status \in Over \/ HoldsLease(t)
  BY DEF LeaseInv, Executing, At, RunOf, Typed, SlotInv, WorkingSlot
<1>d. ASSUME UNCHANGED <<slot, beat>>
      PROVE  \A t \in Slots : Overtakes(t)' = Overtakes(t)
  BY <1>d DEF Overtakes, At, RunOf
<1>1. CASE \E j \in Jobs : ClientEnqueues(j)
  <2>1. PICK j \in Jobs : ClientEnqueues(j)
    BY <1>1
  <2>2. PICK r \in RunIds : CreateRun(r, j)
    BY <2>1 DEF ClientEnqueues, Enqueue
  <2>3. \A q \in RunIds : runs[q].status # "absent" => runs'[q] = runs[q]
    BY <1>a, <2>2, NewRowWasAbsent
  <2>4. UNCHANGED <<slot, active, mode, beat>>
    BY <2>1 DEF ClientEnqueues, processVars
  <2>5. \A t \in Slots : Executing(t)' => Executing(t)
    BY <2>4 DEF Executing, Claiming, At
  <2>6. \A t \in Slots : Executing(t) => runs'[RunOf(t)] = runs[RunOf(t)]
    BY <1>c, <2>3 DEF HoldsLease, LeaseHeldBy, IsRunning, Over, Terminal
  <2>. QED BY <1>c, <1>d, <2>4, <2>5, <2>6, KeptStep
           DEF HoldsLease, LeaseHeldBy, IsRunning, Renewed, RunOf, AllUp,
               LostIsNamed
<1>2. CASE \E j \in Jobs : ClientCancels(j)
  <2>1. UNCHANGED <<slot, active, mode, beat>>
    BY <1>2 DEF ClientCancels, processVars
  <2>2. \A q \in RunIds : runs'[q] = runs[q] \/ runs'[q].status = "cancelled"
    <3>1. PICK j \in Jobs : CancelJob(j)
      BY <1>2 DEF ClientCancels
    <3>2. \A row \in RunRow :
            [row EXCEPT !.status = "cancelled", !.lease = "none"].status
              = "cancelled"
      BY DEF RunRow
    <3>3. \A q \in RunIds : runs[q] \in RunRow
      BY <1>a
    <3>. QED BY <3>1, <3>2, <3>3 DEF CancelJob
  <2>3. \A q \in RunIds : runs'[q] = runs[q] \/ runs'[q].status \in Over
    BY <2>2 DEF Over, Terminal
  <2>. QED BY <1>c, <1>d, <2>1, <2>3, KeptStep
           DEF HoldsLease, LeaseHeldBy, IsRunning, Renewed, Executing,
               Claiming, At, RunOf, AllUp, LostIsNamed
<1>3. CASE \E w \in Workers : BeatBegins(w) \/ BeatChecks(w)
  <2>1. PICK w \in Workers : BeatBegins(w) \/ BeatChecks(w)
    BY <1>3
  <2>2. \A t \in Slots : slot'[t].pc = slot[t].pc /\ slot'[t].run = slot[t].run
    BY <1>a, <2>1, BeatKeepsSlots
  <2>3. UNCHANGED <<runs, active, mode>>
    BY <2>1 DEF BeatBegins, BeatChecks, tables
  <2>4. \A v \in Workers : beat'[v].lost => beat[v] = beat'[v]
    <3>1. \A v \in Workers : beat[v] \in BeatState
      BY DEF Typed, TypeOK
    <3>2. ~beat[w].lost
      <4>1. beat[w] = Asleep \/ beat[w].run = 0
        BY <2>1 DEF BeatBegins, BeatChecks
      <4>. QED BY <4>1 DEF Asleep, LostIsNamed
    <3>3. \A v \in Workers \ {w} : beat'[v] = beat[v]
      BY <2>1 DEF BeatBegins, BeatChecks, Typed, TypeOK
    <3>4. beat'[w].lost = beat[w].lost
      <4>1. CASE BeatBegins(w)
        BY <3>1, <4>1 DEF BeatBegins, BeatState, Typed, TypeOK
      <4>2. CASE BeatChecks(w)
        <5>1. PICK r \in beat[w].todo : \E n \in {0, r} :
                beat' = [beat EXCEPT ![w].todo = @ \ {r}, ![w].run = n]
          BY <4>2 DEF BeatChecks
        <5>. QED BY <3>1, <5>1 DEF BeatState, Typed, TypeOK
      <4>. QED BY <2>1, <4>1, <4>2
    <3>. QED BY <3>2, <3>3, <3>4
  <2>5. \A t \in Slots : Overtakes(t)' => Overtakes(t)
    BY <1>a, <2>2, <2>4 DEF Overtakes, At, RunOf
  <2>. QED BY <1>c, <2>2, <2>3, <2>4, <2>5, KeptStep
           DEF HoldsLease, LeaseHeldBy, IsRunning, Renewed, Executing,
               Claiming, At, RunOf, AllUp, LostIsNamed
<1>4. CASE \E w \in Workers : BeatRenews(w)
  <2>1. PICK w \in Workers : BeatRenews(w)
    BY <1>4
  <2>2. /\ \A t \in Slots : slot'[t].pc # "outdated" => slot'[t] = slot[t]
        /\ UNCHANGED <<active, mode>>
    BY <1>a, <2>1 DEF BeatRenews, Outdate, SlotState
  <2>3. \A q \in RunIds : /\ runs'[q].status = runs[q].status
                          /\ runs'[q].owner = runs[q].owner
                          /\ runs[q].lease = "live" => runs'[q].lease = "live"
    BY <1>a, <2>1 DEF BeatRenews, RenewLease, UpdateRun, RunRow
  <2>a. /\ \A v \in Workers : beat[v] \in BeatState
        /\ beat \in [Workers -> BeatState]
    BY DEF Typed, TypeOK
  <2>4. /\ \A v \in Workers \ {w} : beat'[v] = beat[v]
        /\ beat'[w].lost => /\ ~LeaseHeldBy(beat[w].run, w)
                           /\ beat'[w].run = beat[w].run /\ beat[w].run # 0
    BY <2>1, <2>a DEF BeatRenews, BeatState
  <2>5. ASSUME NEW t \in Slots, Executing(t), HoldsLease(t), slot'[t] = slot[t]
        PROVE  Overtakes(t)' => Overtakes(t)
    BY <1>a, <2>2, <2>4, <2>5 DEF Overtakes, HoldsLease, At, RunOf
  <2>6. ASSUME NEW t \in Slots, Executing(t)'
        PROVE  /\ Executing(t) /\ slot'[t].run = slot[t].run
               /\ runs'[slot[t].run].status \in Over \/ HoldsLease(t)'
    <3>1. slot'[t] = slot[t] /\ Executing(t)
      BY <2>2, <2>6 DEF Executing, Claiming, At
    <3>. QED BY <1>c, <2>2, <2>3, <2>5, <3>1
             DEF HoldsLease, LeaseHeldBy, IsRunning, Renewed, RunOf
  <2>. QED BY <2>2, <2>4, <2>6, KeptStep DEF AllUp, LostIsNamed
<1>8. CASE \E w \in Workers : BeatDrops(w)
  <2>1. PICK w \in Workers : BeatDrops(w)
    BY <1>8
  <2>2. UNCHANGED <<runs, slot, mode>>
    BY <2>1 DEF BeatDrops, tables
  <2>3. beat' = [beat EXCEPT ![w].run = 0, ![w].lost = FALSE]
    BY <2>1 DEF BeatDrops
  <2>4. \A v \in Workers : beat'[v].lost => beat'[v] = beat[v]
    BY <2>3 DEF Typed, TypeOK, BeatState
  <2>5. \A t \in Slots : Overtakes(t)' => Overtakes(t)
    BY <1>a, <2>2, <2>4 DEF Overtakes, At, RunOf
  <2>6. ASSUME NEW t \in Slots, Executing(t)
        PROVE  \/ active'[WorkerOf[t]][RunOf(t)] = active[WorkerOf[t]][RunOf(t)]
               \/ Overtakes(t)
    <3>1. active' = [active EXCEPT ![w][beat[w].run] = None]
      BY <2>1 DEF BeatDrops
    <3>2. WorkerOf[t] = w /\ RunOf(t) = beat[w].run => Overtakes(t)
      BY <2>1 DEF BeatDrops, Overtakes
    <3>. QED BY <1>a, <1>c, <2>6, <3>1, <3>2
  <2>. QED BY <1>c, <2>2, <2>4, <2>5, <2>6, KeptStep
           DEF HoldsLease, LeaseHeldBy, IsRunning, Renewed, Executing,
               Claiming, At, RunOf, AllUp, LostIsNamed
<1>5. CASE \E w \in Workers : Crash(w)
  <2>1. PICK w \in Workers : Crash(w)
    BY <1>5
  <2>2. /\ \A t \in Slots : slot'[t].pc # "idle"
             => slot'[t] = slot[t] /\ WorkerOf[t] # w
        /\ \A t \in Slots : Executing(t)' => slot'[t].pc # "idle"
    BY <2>1 DEF Crash, Idle, Executing, At
  <2>4. \A v \in Workers : beat'[v].lost => beat'[v] = beat[v]
    BY <2>1 DEF Crash, Asleep, Typed, TypeOK
  <2>5. \A t \in Slots : slot'[t] = slot[t] /\ Overtakes(t)' => Overtakes(t)
    BY <1>a, <2>2, <2>4 DEF Overtakes, At, RunOf
  <2>3. /\ UNCHANGED runs
        /\ \A v \in Workers \ {w} : active'[v] = active[v]
        /\ \A v \in Workers : mode[v] = "up" => mode'[v] = "up"
    BY <1>a, <2>1 DEF Crash, tables, Typed, TypeOK
  <2>. QED BY <1>a, <1>c, <2>2, <2>3, <2>4, <2>5, KeptStep
           DEF HoldsLease, LeaseHeldBy, IsRunning, Renewed, Executing,
               Claiming, At, RunOf, AllUp, LostIsNamed
<1>6. CASE \E w \in Workers : Stop(w) \/ Restart(w) \/ BeatDies(w)
  BY <1>b, <1>6 DEF Stop, Restart, BeatDies, AllUp
<1>7. CASE \E r \in RunIds : LeaseRunsOut(r) \/ LeaseLapses(r)
  <2>1. PICK r \in RunIds : LeaseRunsOut(r)
    BY <1>b, <1>7 DEF LeaseLapses
  <2>2. ASSUME NEW t \in Slots, Executing(t), RunOf(t) = r
        PROVE  FALSE
    BY <1>a, <1>c, <2>1, <2>2
    DEF LeaseRunsOut, LeaseExpires, KeptAlive, HoldsLease, LeaseHeldBy,
        IsRunning, Renewed, AllUp, Over, Terminal
  <2>3. /\ \A q \in RunIds \ {r} : runs'[q] = runs[q]
        /\ UNCHANGED <<slot, active, mode, beat>>
    BY <2>1 DEF LeaseRunsOut, LeaseExpires, processVars
  <2>. QED BY <1>c, <1>d, <2>2, <2>3, KeptStep
           DEF HoldsLease, LeaseHeldBy, IsRunning, Renewed, Executing,
               Claiming, At, RunOf, AllUp, LostIsNamed
<1>. QED BY <1>1, <1>2, <1>3, <1>4, <1>5, <1>6, <1>7, <1>8 DEF BeatStep

LEMMA StepSafe ==
  ASSUME LeasesHold, Safe, [Next]_vars
  PROVE  Safe'
<1>1. Typed' /\ SlotInv' /\ NoneReused'
  BY StepTyped, StepKeepsNoneReused DEF Safe, Typed
<1>2. CASE UNCHANGED vars
  BY <1>1, <1>2
  DEF vars, Safe, AllUp, LostIsNamed, LeaseInv, ExclusiveExecution, HoldsLease,
      LeaseHeldBy, IsRunning, Renewed, Overtakes, Executing, Claiming, At, RunOf
<1>3. CASE \E s \in Slots : CallStep(s) \/ TaskStep(s) \/ CallFails(s)
  <2>1. LeaseInv'
    BY <1>1, <1>3, CoroutinesSafe
  <2>. QED BY <1>1, <1>3, <2>1, CoroutinesStay DEF Safe, AllUp, LostIsNamed
<1>4. CASE Next /\ ~(\E s \in Slots : CallStep(s) \/ TaskStep(s) \/ CallFails(s))
  BY <1>1, <1>4, SurroundingsSafe DEF Next, Safe
<1>. QED BY <1>2, <1>3, <1>4

LEMMA InitSafe == Init => Safe
BY InitTyped
DEF Init, BackendInit, NoRun, NoneReused, Safe, AllUp, LostIsNamed, Asleep,
    LeaseInv, Typed, ExclusiveExecution, Executing, At, Idle

\* While a slot executes a run, the run is over or is running under a live
\* lease of the slot's worker, whose heartbeat renews it (claim, _poll_once,
\* _heartbeat_loop, renew_lease).
THEOREM LeasesAreHeld == LeasesHold => (Spec => []LeaseInv)
<1>1. SUFFICES ASSUME LeasesHold PROVE Spec => []LeaseInv
  OBVIOUS
<1>2. Safe /\ [Next]_vars => Safe'
  BY <1>1, StepSafe
<1>3. Safe => LeaseInv
  BY DEF Safe
<1>. QED BY InitSafe, <1>2, <1>3, PTL DEF Spec

\* No two coroutines, of one worker or of two, ever execute the same run, for
\* any number of workers, slots, jobs, runs, crashes and failed calls: the
\* conditional UPDATE of claim(), the registration in _active and the order of
\* the heartbeat's renewals suffice where leases hold (_poll_once, _run,
\* _heartbeat_loop, claim, renew_lease).
THEOREM OneExecutionPerRun == LeasesHold => (Spec => []ExclusiveExecution)
<1>1. SUFFICES ASSUME LeasesHold PROVE Spec => []ExclusiveExecution
  OBVIOUS
<1>2. LeaseInv => ExclusiveExecution
  BY DEF LeaseInv
<1>. QED BY <1>1, <1>2, LeasesAreHeld, PTL
=============================================================================
