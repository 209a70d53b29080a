--------------------------- MODULE OperationsProofs ---------------------------
(***************************************************************************)
(* Proofs that delete, prune and undo disturb none of what the executor    *)
(* promises, where ids are not given again (AUTOINCREMENT, sequences).     *)
(***************************************************************************)
EXTENDS OutcomeProofs, Operations

\* What a client writes to the tables of the workers.
Deleted(r) == [NoRun EXCEPT !.status = "deleted", !.job = runs[r].job]

\* A step of a client leaves a run as it is or deletes it; a job too, with
\* every run it has.
LEMMA ClientWrites ==
  ASSUME ClientStep
  PROVE  /\ UNCHANGED <<slot, processVars>>
         /\ \A r \in RunIds : \/ runs'[r] = runs[r]
                              \/ RunExists(r) /\ runs'[r] = Deleted(r)
         /\ \/ UNCHANGED jobs
            \/ \E j : /\ jobs' = [jobs EXCEPT ![j] = [status |-> "deleted",
                                                      attempts |-> 0]]
                      /\ \A r \in RunIds :
                           runs[r].job = j /\ RunExists(r)
                             => runs'[r] = Deleted(r)
<1>1. CASE \E c \in Deletions : DeleteChecks(c)
  BY <1>1 DEF DeleteChecks, vars, processVars
<1>2. ASSUME NEW c \in Deletions, DeleteRows(c)
      PROVE  /\ UNCHANGED <<slot, processVars>>
             /\ \A r \in RunIds : \/ runs'[r] = runs[r]
                                  \/ RunExists(r) /\ runs'[r] = Deleted(r)
             /\ \E j : /\ jobs' = [jobs EXCEPT ![j] = [status |-> "deleted",
                                                       attempts |-> 0]]
                       /\ \A r \in RunIds : runs[r].job = j /\ RunExists(r)
                                              => runs'[r] = Deleted(r)
  BY <1>2 DEF DeleteRows, DeleteRuns, RunsOf, Deleted
<1>3. CASE \E c \in Prunes : PruneSelects(c)
  BY <1>3 DEF PruneSelects, vars, processVars
<1>4. CASE \E c \in Prunes : PruneRows(c)
  BY <1>4 DEF PruneRows, DeleteRuns, Deleted
<1>5. CASE \E c \in Undoes :
             UndoPicks(c) \/ UndoReads(c) \/ UndoMarks(c) \/ UndoRaises(c)
  BY <1>5 DEF UndoPicks, UndoReads, UndoMarks, UndoRaises, vars, processVars
<1>. QED BY <1>1, <1>2, <1>3, <1>4, <1>5 DEF ClientStep

LEMMA ClientTasksTyped ==
  ASSUME tasks \in [RunIds -> [Positions -> TaskRow]], ClientStep
  PROVE  tasks' \in [RunIds -> [Positions -> TaskRow]]
<1>1. ASSUME NEW rows, DeleteTasksOf(rows)
      PROVE  tasks' \in [RunIds -> [Positions -> TaskRow]]
  BY <1>1 DEF DeleteTasksOf, NoTasks, TaskRow
<1>2. ASSUME NEW r, NEW p, TaskIsCompensated(r, p)
      PROVE  tasks' \in [RunIds -> [Positions -> TaskRow]]
  <2>1. CASE r \in RunIds /\ p \in Positions
    BY <1>2, <2>1, TaskUpdatesTyped
  <2>2. CASE ~(r \in RunIds /\ p \in Positions)
    BY <1>2, <2>2 DEF TaskIsCompensated, UpdateTask
  <2>. QED BY <2>1, <2>2
<1>. QED BY <1>1, <1>2
         DEF ClientStep, DeleteChecks, DeleteRows, PruneSelects, PruneRows,
             UndoPicks, UndoReads, UndoMarks, UndoRaises, vars

LEMMA ClientTyped ==
  ASSUME Typed, ClientStep
  PROVE  Typed'
<1>1. runs' \in [RunIds -> RunRow]
  <2>1. \A r \in RunIds : runs[r] \in RunRow /\ Deleted(r) \in RunRow
    BY RowsTyped DEF Deleted, NoRun, RunRow, Over
  <2>2. runs' = runs \/ \E rows : DeleteRuns(rows)
    BY DEF ClientStep, DeleteChecks, DeleteRows, PruneSelects, PruneRows,
           UndoPicks, UndoReads, UndoMarks, UndoRaises, vars
  <2>. QED BY <2>1, <2>2
           DEF DeleteRuns, Deleted, Typed, TypeOK, BackendTypeOK
<1>2. jobs' \in [Jobs -> JobRow]
  <2>1. [status |-> "deleted", attempts |-> 0] \in JobRow
    BY DEF JobRow
  <2>. QED BY <2>1, ClientWrites DEF Typed, TypeOK, BackendTypeOK
<1>3. tasks' \in [RunIds -> [Positions -> TaskRow]]
  BY ClientTasksTyped DEF Typed, TypeOK, BackendTypeOK
<1>. QED BY <1>1, <1>2, <1>3, ClientWrites
         DEF Typed, TypeOK, BackendTypeOK, SlotInv, processVars

LEMMA OpsStepTyped ==
  ASSUME Typed, [OpsNext]_opsVars
  PROVE  Typed'
BY ClientTyped, StepTyped DEF OpsNext, opsVars

LEMMA ClientKeepsOver ==
  ASSUME Typed, ClientStep, NEW r \in RunIds, runs[r].status \in Over
  PROVE  runs'[r].status \in Over
BY ClientWrites DEF Deleted, NoRun, Over

-----------------------------------------------------------------------------
(* Runs that are over.                                                      *)

LEMMA OpsStepKeepsOver ==
  ASSUME ~IdsReused, Typed, [OpsNext]_opsVars,
         NEW r \in RunIds, runs[r].status \in Over
  PROVE  runs'[r].status \in Over
BY ClientKeepsOver, StepKeepsOver DEF OpsNext, opsVars, NoneReused, vars

LEMMA OpsTyped == OpsSpec => []Typed
<1>1. OpsInit => Typed
  BY InitTyped DEF OpsInit
<1>2. Typed /\ [OpsNext]_opsVars => Typed'
  BY OpsStepTyped
<1>. QED BY <1>1, <1>2, PTL DEF OpsSpec

\* A run that has ended or was deleted is never claimed or executed again, for
\* any number of workers, clients, calls and faults: no write of a coroutine
\* that did not know revives the row.
THEOREM GoneForGood == ~IdsReused => (OpsSpec => GoneStaysGone)
<1>1. SUFFICES ASSUME ~IdsReused PROVE OpsSpec => GoneStaysGone
  OBVIOUS
<1>2. Typed /\ [OpsNext]_opsVars
        => [\A r \in RunIds : runs[r].status \in Over
              => runs'[r].status \in Over]_opsVars
  BY <1>1, OpsStepKeepsOver
<1>. QED BY <1>2, OpsTyped, PTL DEF OpsSpec, GoneStaysGone

-----------------------------------------------------------------------------
(* What a call has read.                                                    *)

CallsTyped == call \in [Calls -> CallState]

LEMMA StepCallsTyped ==
  ASSUME CallsTyped, [OpsNext]_opsVars
  PROVE  CallsTyped'
<1>. USE DEF CallsTyped
<1>1. CASE UNCHANGED call
  BY <1>1
<1>2. ASSUME NEW c \in Calls, call[c] \in CallState,
             DeleteChecks(c) \/ DeleteRows(c)
      PROVE  call' \in [Calls -> CallState]
  BY <1>2 DEF DeleteChecks, DeleteRows, Proceed, CallState
<1>3. ASSUME NEW c \in Calls, call[c] \in CallState,
             PruneSelects(c) \/ PruneRows(c)
      PROVE  call' \in [Calls -> CallState]
  BY <1>3 DEF PruneSelects, PruneRows, Proceed, CallState
<1>4. ASSUME NEW c \in Calls, call[c] \in CallState,
             UndoPicks(c) \/ UndoReads(c) \/ UndoRaises(c)
      PROVE  call' \in [Calls -> CallState]
  BY <1>4 DEF UndoPicks, UndoReads, UndoRaises, Proceed, Succeeded, CallState
<1>5. ASSUME NEW c \in Calls, call[c] \in CallState, UndoMarks(c)
      PROVE  call' \in [Calls -> CallState]
  BY <1>5 DEF UndoMarks, CallState
<1>. QED BY <1>1, <1>2, <1>3, <1>4, <1>5
         DEF OpsNext, opsVars, ClientStep, Calls

LEMMA OpsTypedInvariant == OpsSpec => [](Typed /\ CallsTyped)
<1>1. OpsInit => CallsTyped
  BY DEF OpsInit, CallsTyped, CallState, NotMade
<1>2. CallsTyped /\ [OpsNext]_opsVars => CallsTyped'
  BY StepCallsTyped
<1>. QED BY <1>1, <1>2, OpsTyped, PTL DEF OpsSpec

\* Every reachable state of workers and clients is well typed.
THEOREM OpsTypeCorrect == OpsSpec => []OpsTypeOK
<1>1. Typed /\ CallsTyped => OpsTypeOK
  BY DEF Typed, CallsTyped, OpsTypeOK
<1>. QED BY <1>1, OpsTypedInvariant, PTL

\* The runs a prune has selected are over.
Settled ==
  \A c \in Prunes : Doing(c, "prune")
    => \A r \in call[c].rows : runs[r].status \in Over

LEMMA OpsStepSettled ==
  ASSUME ~IdsReused, Typed, CallsTyped, Settled, [OpsNext]_opsVars
  PROVE  Settled'
<1>. SUFFICES ASSUME NEW c \in Prunes, call'[c].pc = "prune",
                     NEW r \in call'[c].rows
              PROVE  runs'[r].status \in Over
  BY DEF Settled, Doing
<1>a. c \in Calls /\ call[c] \in CallState /\ CallsTyped'
  BY StepCallsTyped DEF Calls, CallsTyped
<1>b. r \in RunIds
  BY <1>a DEF CallsTyped, CallState
<1>1. CASE call'[c] = call[c]
  BY <1>b, <1>1, OpsStepKeepsOver DEF Settled, Doing
<1>2. CASE PruneSelects(c)
  <2>1. call'[c].rows \in SUBSET {q \in RunIds : runs[q].status \in Terminal}
    BY <1>a, <1>2 DEF PruneSelects, CallsTyped, CallState
  <2>. QED BY <1>b, <2>1, OpsStepKeepsOver DEF Over
<1>3. call'[c] = call[c] \/ PruneSelects(c)
  <2>1. CASE UNCHANGED call
    BY <2>1
  <2>2. ASSUME NEW d \in Calls, d # c,
               \/ DeleteChecks(d) \/ DeleteRows(d) \/ PruneSelects(d)
               \/ PruneRows(d) \/ UndoPicks(d) \/ UndoReads(d) \/ UndoMarks(d)
               \/ UndoRaises(d)
        PROVE  call'[c] = call[c]
    BY <1>a, <2>2
    DEF CallsTyped, DeleteChecks, DeleteRows, PruneSelects, PruneRows,
        UndoPicks, UndoReads, UndoMarks, UndoRaises, Proceed
  <2>3. ASSUME \/ DeleteChecks(c) \/ DeleteRows(c) \/ PruneRows(c)
               \/ UndoPicks(c) \/ UndoReads(c) \/ UndoRaises(c)
        PROVE  FALSE
    BY <1>a, <2>3
    DEF CallsTyped, CallState, DeleteChecks, DeleteRows, PruneRows, UndoPicks,
        UndoReads, UndoRaises, Proceed
  <2>4. ASSUME UndoMarks(c)
        PROVE  FALSE
    BY <1>a, <2>4 DEF CallsTyped, CallState, UndoMarks
  <2>. QED BY <2>1, <2>2, <2>3, <2>4 DEF OpsNext, opsVars, ClientStep, Calls
<1>. QED BY <1>1, <1>2, <1>3

\* prune_runs selects and deletes in one transaction each, and its DELETEs do
\* not look at the status again; still it never deletes a live run, for any
\* number of prunes, deletions and workers.
THEOREM PrunedAreOver == ~IdsReused => (OpsSpec => []PruneSparesLive)
<1>1. SUFFICES ASSUME ~IdsReused PROVE OpsSpec => []PruneSparesLive
  OBVIOUS
<1>2. OpsInit => Settled
  BY DEF OpsInit, NotMade, Settled, Doing, Calls
<1>3. Typed /\ CallsTyped /\ Settled /\ [OpsNext]_opsVars => Settled'
  BY <1>1, OpsStepSettled
<1>4. Settled => PruneSparesLive
  BY DEF Settled, PruneSparesLive, InFlight, Over, Terminal
<1>. QED BY <1>2, <1>3, <1>4, OpsTypedInvariant, PTL DEF OpsSpec

-----------------------------------------------------------------------------
(* Claims and executions.                                                   *)

LEMMA ClientKeepsKnown ==
  ASSUME Typed, RunsKnown, ClientStep
  PROVE  RunsKnown'
<1>1. \A r \in RunIds : runs[r].status # "absent"
        => runs'[r].status # "absent" /\ runs'[r].job = runs[r].job
  BY ClientWrites DEF Deleted, NoRun
<1>2. \A r \in RunIds : runs[r].status = "absent" => runs'[r] = runs[r]
  BY ClientWrites DEF RunExists
<1>3. \A s \in Slots : slot[s].pc # "idle" => slot[s].run \in RunIds
  BY DEF Typed, SlotInv, WorkingSlot
<1>. QED BY <1>1, <1>2, <1>3, ClientWrites DEF RunsKnown, At, RunOf

LEMMA ClientKeepsActiveJob ==
  ASSUME Typed, ActiveJobInv, ClientStep
  PROVE  ActiveJobInv'
<1>. SUFFICES ASSUME NEW r \in RunIds,
                     \/ runs'[r].status = "running"
                     \/ runs'[r].status = "ready" /\ Selected(r)'
              PROVE  /\ runs'[r].job \in Jobs
                     /\ jobs'[runs'[r].job].status = "active"
  BY DEF ActiveJobInv, IsRunning, Selected
<1>1. runs'[r] = runs[r] /\ RunExists(r)
  BY ClientWrites DEF Deleted, NoRun, RunExists
<1>2. runs'[r] # Deleted(r)
  BY DEF Deleted, NoRun
<1>3. runs[r].job \in Jobs /\ jobs[runs[r].job].status = "active"
  BY <1>1, ClientWrites DEF ActiveJobInv, IsRunning, Selected, At, RunOf
<1>4. jobs'[runs[r].job] = jobs[runs[r].job]
  BY <1>1, <1>2, <1>3, ClientWrites DEF Typed, TypeOK, BackendTypeOK
<1>. QED BY <1>1, <1>3, <1>4

\* No worker holds the lease of a run whose job is cancelled or deleted.
THEOREM NoneHeldWhenDeleted ==
  ~IdsReused => (OpsSpec => []NoRunningOfCancelledJob)
<1>1. SUFFICES ASSUME ~IdsReused PROVE OpsSpec => []NoRunningOfCancelledJob
  OBVIOUS
<1>. DEFINE Inv == RunsKnown /\ ActiveJobInv
<1>2. OpsInit => Inv
  BY DEF OpsInit, Init, BackendInit, NoRun, Idle, RunsKnown, ActiveJobInv,
         IsRunning, At
<1>3. Typed /\ Inv /\ [OpsNext]_opsVars => Inv'
  <2>1. CASE [Next]_vars
    BY <1>1, <2>1, StepKeepsKnown, StepKeepsActiveJob DEF NoneReused
  <2>2. CASE ClientStep
    BY <2>2, ClientKeepsKnown, ClientKeepsActiveJob
  <2>. QED BY <2>1, <2>2 DEF OpsNext, opsVars
<1>4. Inv => NoRunningOfCancelledJob
  BY DEF ActiveJobInv, IsRunning, NoRunningOfCancelledJob
<1>. QED BY <1>2, <1>3, <1>4, OpsTyped, PTL DEF OpsSpec

LEMMA ClientSafe ==
  ASSUME ~IdsReused, Safe, ClientStep
  PROVE  Safe'
<1>1. Typed' /\ SlotInv' /\ NoneReused'
  BY ClientTyped DEF Safe, Typed, NoneReused
<1>2. UNCHANGED <<slot, active, mode, beat>>
  BY ClientWrites DEF processVars
<1>3. ASSUME NEW s \in Slots, Executing(s)'
      PROVE  /\ Executing(s) /\ slot'[s].run = slot[s].run
             /\ runs'[slot[s].run].status \in Over \/ HoldsLease(s)'
  <2>1. Executing(s) /\ slot[s].run \in RunIds
    BY <1>2, <1>3
    DEF Executing, Claiming, At, Safe, Typed, SlotInv, WorkingSlot
  <2>2. \/ runs'[slot[s].run] = runs[slot[s].run]
        \/ runs'[slot[s].run].status = "deleted"
    BY <2>1, ClientWrites DEF Deleted, NoRun
  <2>3. runs[slot[s].run].status \in Over \/ HoldsLease(s)
    BY <2>1 DEF Safe, LeaseInv, RunOf
  <2>. QED BY <1>2, <2>1, <2>2, <2>3
           DEF HoldsLease, LeaseHeldBy, IsRunning, Renewed, Overtakes, RunOf,
               Over, At
<1>4. LeaseInv'
  BY <1>1, <1>3, KeptStep DEF Safe
<1>. QED BY <1>1, <1>2, <1>4 DEF Safe, AllUp, LostIsNamed

\* No two coroutines ever execute the same run, whatever is deleted, pruned or
\* undone under them.
THEOREM OneExecutionPerRunStill ==
  ~IdsReused /\ LeasesHold => (OpsSpec => []ExclusiveExecution)
<1>1. SUFFICES ASSUME ~IdsReused, LeasesHold
               PROVE  OpsSpec => []ExclusiveExecution
  OBVIOUS
<1>2. OpsInit => Safe
  BY InitSafe DEF OpsInit
<1>3. Safe /\ [OpsNext]_opsVars => Safe'
  BY <1>1, StepSafe, ClientSafe DEF OpsNext, opsVars
<1>4. Safe => ExclusiveExecution
  BY DEF Safe, LeaseInv
<1>. QED BY <1>2, <1>3, <1>4, PTL DEF OpsSpec

-----------------------------------------------------------------------------
(* Calls go on by steps of their own.                                       *)

\* The registry does not look at the tables.
LEMMA ClientKeepsRegistry ==
  ASSUME RegistryInv, ClientStep
  PROVE  RegistryInv'
BY ClientWrites DEF RegistryInv, Entry, Registered, Executing, Claiming, At,
                    processVars

\* What a call does is its own.
ClientCall(c) ==
  \/ DeleteChecks(c) \/ DeleteRows(c)
  \/ PruneSelects(c) \/ PruneRows(c)
  \/ UndoPicks(c) \/ UndoReads(c) \/ UndoMarks(c) \/ UndoRaises(c)

LEMMA CallsMove ==
  ASSUME CallsTyped, [OpsNext]_opsVars, NEW c \in Calls
  PROVE  call'[c] = call[c] \/ ClientCall(c)
<1>1. ASSUME NEW d \in Calls, d # c, ClientCall(d)
      PROVE  call'[c] = call[c]
  BY <1>1
  DEF ClientCall, CallsTyped, DeleteChecks, DeleteRows, PruneSelects,
      PruneRows, UndoPicks, UndoReads, UndoMarks, UndoRaises, Proceed
<1>2. CASE UNCHANGED call
  BY <1>2
<1>3. CASE \E d \in Calls : ClientCall(d)
  BY <1>1, <1>3
<1>. QED BY <1>2, <1>3 DEF OpsNext, opsVars, ClientStep, ClientCall, Calls

\* How far a call comes by a step of its own.
LEMMA CallGoesOn ==
  ASSUME CallsTyped, NEW c \in Calls, ClientCall(c)
  PROVE  /\ call'[c].pc = "delete" => DeleteChecks(c)
         /\ call'[c].pc = "prune" => PruneSelects(c)
         /\ call'[c].pc = "read" => UndoPicks(c)
         /\ call'[c].pc = "undoing" => UndoReads(c) \/ UndoMarks(c)
<1>a. call \in [Calls -> CallState] /\ call[c] \in CallState
  BY DEF CallsTyped
<1>1. CASE DeleteChecks(c)
  BY <1>1, <1>a DEF DeleteChecks, CallState
<1>2. CASE DeleteRows(c) \/ PruneRows(c) \/ UndoRaises(c)
  BY <1>2, <1>a DEF DeleteRows, PruneRows, UndoRaises, Proceed, CallState
<1>3. CASE PruneSelects(c)
  BY <1>3, <1>a DEF PruneSelects, CallState
<1>4. CASE UndoPicks(c)
  BY <1>4, <1>a DEF UndoPicks, CallState
<1>5. CASE UndoReads(c)
  BY <1>5, <1>a DEF UndoReads, CallState
<1>6. CASE UndoMarks(c)
  BY <1>6, <1>a DEF UndoMarks, CallState
<1>. QED BY <1>1, <1>2, <1>3, <1>4, <1>5, <1>6 DEF ClientCall

-----------------------------------------------------------------------------
(* Undo of a run that has succeeded.                                        *)

\* No coroutine will write to the tasks of the run any more.
NoWriter(r) ==
  \A s \in Slots :
    Executing(s) /\ RunOf(s) = r => slot[s].pc \in {"resetAttempts", "abort"}

UndoIsOn(c) == call[c].pc \in {"read", "undoing"}

\* What a call of undo that has read its run can rely on.
Undoable(c, r) ==
  /\ call[c].rows = {r} /\ runs[r].status \in Over /\ NoWriter(r)
  /\ Doing(c, "undoing") =>
       /\ call[c].todo # {}
       /\ \A p \in call[c].todo : tasks[r][p].status \in {"succeeded", "absent"}

UndoInv ==
  /\ \A r \in RunIds : runs[r].status = "succeeded" => NoWriter(r)
  /\ \A c \in Undoes : UndoIsOn(c) => \E r \in RunIds : Undoable(c, r)
  /\ \A c, d \in Undoes : UndoIsOn(c) /\ UndoIsOn(d) => c = d

\* A run that is over, and that nobody writes to, is left alone by the workers.
LEMMA QuietRunsStay ==
  ASSUME Typed, RegistryInv, NoneReused, [Next]_vars,
         NEW r \in RunIds, runs[r].status \in Over, NoWriter(r)
  PROVE  runs'[r].status \in Over /\ NoWriter(r)' /\ tasks'[r] = tasks[r]
<1>a. slot \in [Slots -> SlotState]
  BY DEF Typed, TypeOK
<1>1. ASSUME NEW t \in Slots, Executing(t)', slot'[t].run = r
      PROVE  slot'[t].pc \in {"resetAttempts", "abort"}
  <2>1. CASE slot'[t] = slot[t]
    BY <1>1, <2>1 DEF NoWriter, Executing, Claiming, At, RunOf
  <2>2. slot'[t] # Idle /\ slot'[t].pc # "outdated"
    BY <1>1 DEF Executing, Claiming, At, Idle
  <2>3. ASSUME NEW s \in Slots, Coroutine(s), t # s
        PROVE  slot'[t] = slot[t]
    BY <2>2, <2>3, ExecutionMoves, ClaimMoves DEF Coroutine
  <2>4. CASE Executing(t) /\ Coroutine(t)
    <3>1. /\ slot'[t].run = slot[t].run
          /\ slot'[t].pc # "abort"
               => slot[t].pc \notin {"resetAttempts", "retryRun", "abort"}
      BY <1>1, <2>4, ExecutionGoesOn DEF Coroutine, Executing, Claiming, At
    <3>. QED BY <1>1, <2>4, <3>1 DEF NoWriter, RunOf
  <2>5. CASE ~Executing(t) /\ Coroutine(t)
    BY <1>1, <2>5, ClaimMoves DEF Coroutine, ClaimMatches, Over, Terminal
  <2>6. CASE \E j \in Jobs : Client(j)
    BY <2>1, <2>6 DEF Client, ClientEnqueues, ClientCancels
  <2>7. CASE ~(\E s \in Slots : Coroutine(s)) /\ ~(\E j \in Jobs : Client(j))
    <3>1. slot'[t].pc = slot[t].pc /\ slot'[t].run = slot[t].run
      BY <2>2, <2>7, OthersKeepRuns DEF Keeps
    <3>. QED BY <1>1, <3>1 DEF NoWriter, Executing, Claiming, At, RunOf
  <2>. QED BY <2>1, <2>3, <2>4, <2>5, <2>6, <2>7
<1>2. ASSUME NEW s \in Slots, Coroutine(s)
      PROVE  tasks'[r] = tasks[r]
  <2>1. Executing(s) /\ r = RunOf(s) => slot[s].pc \in {"resetAttempts", "abort"}
    BY DEF NoWriter
  <2>. QED BY <1>2, <2>1, StepOnTasks
           DEF StartTask, SucceedTask, CancelTask, RetryTask, FailTask,
               UndoTask, At
<1>3. ASSUME NEW j \in Jobs, Client(j)
      PROVE  tasks'[r] = tasks[r]
  BY <1>3 DEF Client, ClientEnqueues, ClientCancels
<1>4. tasks'[r] = tasks[r]
  BY <1>2, <1>3, OthersKeepRuns
<1>. QED BY <1>1, <1>4, StepKeepsOver DEF NoWriter, RunOf

\* The coroutine that completes a run is the only one at work on it.
LEMMA SuccessIsQuiet ==
  ASSUME Safe, RegistryInv, [Next]_vars, NEW r \in RunIds,
         runs[r].status = "succeeded" => NoWriter(r),
         runs'[r].status = "succeeded"
  PROVE  NoWriter(r)'
<1>a. Typed /\ NoneReused /\ ExclusiveExecution /\ slot \in [Slots -> SlotState]
  BY DEF Safe, LeaseInv, Typed, TypeOK
<1>1. CASE runs[r].status = "succeeded"
  BY <1>1, <1>a, QuietRunsStay DEF Over, Terminal
<1>2. CASE Completes(r)
  <2>1. PICK s \in Slots : Complete(s) /\ RunOf(s) = r
    BY <1>2 DEF Completes
  <2>2. /\ slot'[s].pc = "resetAttempts" /\ Executing(s)
        /\ \A t \in Slots \ {s} : slot'[t] = slot[t]
    BY <2>1, <1>a DEF Complete, Goto, Executing, Claiming, At
  <2>3. ASSUME NEW t \in Slots, t # s, Executing(t)', slot'[t].run = r
        PROVE  FALSE
    BY <1>a, <2>1, <2>2, <2>3
    DEF ExclusiveExecution, Executing, Claiming, At, RunOf
  <2>. QED BY <2>2, <2>3 DEF NoWriter, RunOf
<1>. QED BY <1>1, <1>2, <1>a, OnlyCompleteSucceeds

LEMMA StepKeepsUndo ==
  ASSUME Safe, RegistryInv, UndoInv, [Next]_vars, UNCHANGED call
  PROVE  UndoInv'
<1>1. \A r \in RunIds : runs'[r].status = "succeeded" => NoWriter(r)'
  BY SuccessIsQuiet DEF UndoInv
<1>2. ASSUME NEW c \in Undoes, NEW r \in RunIds, Undoable(c, r)
      PROVE  Undoable(c, r)'
  <2>1. runs'[r].status \in Over /\ NoWriter(r)' /\ tasks'[r] = tasks[r]
    BY <1>2, QuietRunsStay DEF Undoable, Safe
  <2>. QED BY <1>2, <2>1 DEF Undoable, Doing
<1>. QED BY <1>1, <1>2 DEF UndoInv, UndoIsOn

\* What a client does to the rows of a task: nothing, a deletion, or an undo.
LEMMA ClientOnTasks ==
  ASSUME Typed, ClientStep, NEW r \in RunIds, NEW p \in Positions
  PROVE  \/ tasks'[r][p] = tasks[r][p]
         \/ tasks'[r][p].status = "absent"
         \/ \E c \in Undoes : UndoMarks(c) /\ r = RunOfCall(c) /\ p = Undoing(c)
<1>a. tasks \in [RunIds -> [Positions -> TaskRow]]
  BY DEF Typed, TypeOK, BackendTypeOK
<1>1. ASSUME NEW rows, DeleteTasksOf(rows)
      PROVE  tasks'[r][p] = tasks[r][p] \/ tasks'[r][p].status = "absent"
  BY <1>1 DEF DeleteTasksOf, NoTasks
<1>2. CASE \E c \in Deletions \cup Prunes : DeleteRows(c) \/ PruneRows(c)
  BY <1>1, <1>2 DEF DeleteRows, PruneRows
<1>3. ASSUME NEW c \in Undoes, UndoMarks(c)
      PROVE  tasks'[r][p] = tasks[r][p] \/ (r = RunOfCall(c) /\ p = Undoing(c))
  <2>1. \E row : tasks' = [tasks EXCEPT ![RunOfCall(c)][Undoing(c)] = row]
    BY <1>3 DEF UndoMarks, TaskIsCompensated, UpdateTask
  <2>. QED BY <1>a, <2>1
<1>4. CASE UNCHANGED tasks
  BY <1>4
<1>. QED BY <1>2, <1>3, <1>4
         DEF ClientStep, DeleteChecks, PruneSelects, UndoPicks, UndoReads,
             UndoRaises, vars

\* Of the tasks a call has read, one has the highest position.
LEMMA HighestExists ==
  ASSUME NEW S \in SUBSET Positions, S # {}
  PROVE  \E p \in S : \A q \in S : q <= p
<1>. DEFINE Above(p) == {q \in S : q > p}
            T == {Above(p) : p \in S}
<1>n. Positions \subseteq Nat
  BY BoundsAreNumbers DEF Positions
<1>1. IsFiniteSet(S)
  <2>1. IsFiniteSet(Positions)
    BY BoundsAreNumbers, FS_Interval DEF Positions
  <2>. QED BY <2>1, FS_Subset
<1>2. \A p \in S : Above(p) \in FiniteSubsetsOf(S)
  BY <1>1, FS_Subset DEF FiniteSubsetsOf
<1>3. T \subseteq FiniteSubsetsOf(S) /\ T # {}
  BY <1>2
<1>4. IsWellFoundedOn(StrictSubsetOrdering(S), FiniteSubsetsOf(S))
  BY FS_StrictSubsetOrderingWellFounded
<1>. HIDE DEF T
<1>5. PICK x \in T : \A y \in T : <<y, x>> \notin StrictSubsetOrdering(S)
  BY <1>3, <1>4, WFMin
<1>6. PICK p \in S : x = Above(p)
  BY <1>5 DEF T
<1>7. ASSUME NEW q \in S, q > p
      PROVE  FALSE
  <2>1. Above(q) \in SUBSET S /\ Above(p) \in SUBSET S
    OBVIOUS
  <2>2. Above(q) \subseteq Above(p)
    <3>1. ASSUME NEW z \in S, z > q
          PROVE  z > p
      <4>1. z \in Nat /\ q \in Nat /\ p \in Nat
        BY <1>n
      <4>. QED BY <1>7, <3>1, <4>1
    <3>. QED BY <3>1
  <2>3. q \in Above(p) /\ q \notin Above(q)
    BY <1>n, <1>7
  <2>4. Above(q) # Above(p)
    BY <2>3
  <2>5. <<Above(q), Above(p)>> \in StrictSubsetOrdering(S)
    BY <2>1, <2>2, <2>4 DEF StrictSubsetOrdering
  <2>. QED BY <1>5, <1>6, <2>5 DEF T
<1>. QED BY <1>n, <1>6, <1>7

LEMMA ClientKeepsUndo ==
  ASSUME UndoSettled, UndoSerial, Safe, CallsTyped, UndoInv, ClientStep
  PROVE  UndoInv'
<1>a. /\ Typed /\ tasks \in [RunIds -> [Positions -> TaskRow]]
      /\ call \in [Calls -> CallState]
      /\ Undoes \subseteq Calls
  BY DEF Safe, Typed, TypeOK, BackendTypeOK, CallsTyped, Calls
<1>b. /\ \A r \in RunIds : NoWriter(r)' <=> NoWriter(r)
      /\ \A r \in RunIds : runs'[r] = runs[r] \/ runs'[r].status = "deleted"
  BY ClientWrites DEF NoWriter, Executing, Claiming, At, RunOf, Deleted, NoRun
<1>c. \A c \in Calls : call'[c] = call[c] \/ ClientCall(c)
  BY CallsMove DEF OpsNext
<1>1. \A r \in RunIds : runs'[r].status = "succeeded" => NoWriter(r)'
  BY <1>b DEF UndoInv
<1>2. ASSUME NEW c \in Undoes, UndoIsOn(c)', ~UndoIsOn(c)
      PROVE  /\ \A d \in Undoes : ~UndoIsOn(d)
             /\ \A d \in Undoes \ {c} : ~UndoIsOn(d)'
             /\ \E r \in RunIds : Undoable(c, r)'
  <2>1. UndoPicks(c)
    <3>1. ClientCall(c)
      BY <1>a, <1>c, <1>2 DEF UndoIsOn
    <3>2. UndoPicks(c) \/ UndoReads(c) \/ UndoMarks(c)
      BY <1>a, <1>2, <3>1, CallGoesOn DEF UndoIsOn
    <3>. QED BY <1>2, <3>2 DEF UndoReads, UndoMarks, UndoIsOn, Doing
  <2>2. \A d \in Undoes : call[d].pc \in {"idle", "done"}
    BY <2>1 DEF UndoPicks
  <2>3. PICK r \in RunIds : /\ runs[r].status = "succeeded" /\ UNCHANGED vars
                            /\ call' = [call EXCEPT ![c].pc = "read", ![c].rows = {r}]
    BY <2>1 DEF UndoPicks
  <2>4. /\ call'[c].pc = "read" /\ call'[c].rows = {r}
        /\ \A d \in Undoes \ {c} : call'[d] = call[d]
    BY <1>a, <2>3 DEF CallState
  <2>5. Undoable(c, r)'
    BY <1>1, <2>3, <2>4 DEF Undoable, vars, Over, Terminal, Doing
  <2>. QED BY <2>2, <2>4, <2>5 DEF UndoIsOn
<1>3. ASSUME NEW c \in Undoes, UndoIsOn(c)', UndoIsOn(c)
      PROVE  \E r \in RunIds : Undoable(c, r)'
  <2>1. PICK r \in RunIds : Undoable(c, r)
    BY <1>3 DEF UndoInv
  <2>2. runs'[r].status \in Over /\ NoWriter(r)'
    BY <1>b, <2>1 DEF Undoable, Over
  <2>3. RunOfCall(c) = r
    BY <2>1 DEF RunOfCall, Undoable
  <2>4. ASSUME NEW p \in Positions
        PROVE  \/ tasks'[r][p] = tasks[r][p]
               \/ tasks'[r][p].status = "absent"
               \/ UndoMarks(c) /\ p = Undoing(c)
    <3>1. \A d \in Undoes : UndoMarks(d) => d = c
      BY <1>3 DEF UndoMarks, UndoInv, UndoIsOn, Doing
    <3>. QED BY <1>a, <2>3, <3>1, ClientOnTasks
  <2>5. CASE call'[c] = call[c]
    <3>1. ~UndoMarks(c)
      <4>. SUFFICES ASSUME UndoMarks(c) PROVE FALSE
        OBVIOUS
      <4>1. call[c].todo # {} /\ call[c].todo \in SUBSET Positions
        BY <1>a, <2>1 DEF UndoMarks, Undoable, CallState
      <4>2. PICK p \in call[c].todo : \A q \in call[c].todo : q <= p
        BY <4>1, HighestExists
      <4>3. Undoing(c) \in call[c].todo
        BY <4>2 DEF Undoing
      <4>4. call'[c].todo = call[c].todo \ {Undoing(c)}
        BY <1>a DEF UndoMarks, CallState
      <4>. QED BY <2>5, <4>3, <4>4
    <3>2. call[c].todo \in SUBSET Positions
      BY <1>a DEF CallState
    <3>. QED BY <2>1, <2>2, <2>4, <2>5, <3>1, <3>2 DEF Undoable, Doing
  <2>6. CASE UndoReads(c)
    <3>1. UNCHANGED vars
      BY <2>6 DEF UndoReads
    <3>2. /\ call'[c].rows = call[c].rows
          /\ call'[c].pc = "undoing" =>
               /\ call'[c].todo = Succeeded(r) /\ Succeeded(r) # {}
      BY <1>a, <2>3, <2>6 DEF UndoReads, CallState
    <3>3. \A p \in Succeeded(r) : tasks'[r][p].status = "succeeded"
      BY <3>1 DEF Succeeded, vars
    <3>. QED BY <2>1, <2>2, <3>2, <3>3 DEF Undoable, Doing
  <2>7. CASE UndoMarks(c)
    <3>1. /\ call'[c].rows = call[c].rows
          /\ call'[c].todo = call[c].todo \ {Undoing(c)}
          /\ call'[c].pc = "undoing" => call[c].todo # {Undoing(c)}
          /\ call[c].todo \in SUBSET Positions
          /\ Doing(c, "undoing")
      BY <1>a, <2>7 DEF UndoMarks, CallState
    <3>2. call'[c].pc = "undoing" => call'[c].todo # {}
      BY <2>1, <3>1 DEF Undoable
    <3>3. \A p \in call'[c].todo : tasks'[r][p].status \in {"succeeded", "absent"}
      BY <2>1, <2>4, <3>1 DEF Undoable
    <3>. QED BY <2>1, <2>2, <3>1, <3>2, <3>3 DEF Undoable, Doing
  <2>8. call'[c] = call[c] \/ UndoReads(c) \/ UndoMarks(c)
    <3>1. CASE ClientCall(c)
      <4>1. UndoPicks(c) \/ UndoReads(c) \/ UndoMarks(c)
        BY <1>a, <1>3, <3>1, CallGoesOn DEF UndoIsOn
      <4>. QED BY <1>3, <4>1 DEF UndoPicks, UndoIsOn, Doing
    <3>. QED BY <1>a, <1>c, <3>1
  <2>. QED BY <2>5, <2>6, <2>7, <2>8
<1>4. \A c, d \in Undoes : UndoIsOn(c)' /\ UndoIsOn(d)' => c = d
  BY <1>2 DEF UndoInv
<1>. QED BY <1>1, <1>2, <1>3, <1>4 DEF UndoInv

\* undo() reads which tasks of a run have succeeded and then undoes one after
\* another, and each is still done and not undone when its turn comes, or has
\* been deleted: where one undo is made at a time, of runs that have succeeded.
\* (The configurations UndoTwice and UndoRunning show that it takes both.)
THEOREM OnlyDoneIsUndone ==
  ~IdsReused /\ LeasesHold /\ UndoSettled /\ UndoSerial
    => (OpsSpec => []UndoOnlySucceeded)
<1>1. SUFFICES ASSUME ~IdsReused, LeasesHold, UndoSettled, UndoSerial
               PROVE  OpsSpec => []UndoOnlySucceeded
  OBVIOUS
<1>. DEFINE Inv == Safe /\ RegistryInv /\ UndoInv
<1>2. OpsInit => Inv
  <2>1. OpsInit => RegistryInv
    BY DEF OpsInit, Init, RegistryInv
  <2>2. OpsInit => UndoInv
    BY DEF OpsInit, Init, BackendInit, NoRun, NotMade, UndoInv, UndoIsOn, Calls
  <2>. QED BY <2>1, <2>2, InitSafe DEF OpsInit
<1>3. CallsTyped /\ Inv /\ [OpsNext]_opsVars => Inv'
  <2>1. CASE [Next]_vars /\ UNCHANGED call
    BY <1>1, <2>1, StepSafe, StepRegistered, StepKeepsUndo DEF Safe
  <2>2. CASE ClientStep
    BY <1>1, <2>2, ClientSafe, ClientKeepsRegistry, ClientKeepsUndo
  <2>. QED BY <2>1, <2>2 DEF OpsNext, opsVars
<1>4. CallsTyped /\ Inv => UndoOnlySucceeded
  <2>. SUFFICES ASSUME CallsTyped, UndoInv, NEW c \in Undoes, Doing(c, "undoing")
                PROVE  tasks[RunOfCall(c)][Undoing(c)].status
                         \in {"succeeded", "absent"}
    BY DEF UndoOnlySucceeded
  <2>1. PICK r \in RunIds : Undoable(c, r)
    BY DEF UndoInv, UndoIsOn, Doing
  <2>2. RunOfCall(c) = r
    BY <2>1 DEF RunOfCall, Undoable
  <2>3. call[c].todo # {} /\ call[c].todo \in SUBSET Positions
    BY <2>1 DEF Undoable, CallsTyped, CallState, Calls
  <2>4. PICK p \in call[c].todo : \A q \in call[c].todo : q <= p
    BY <2>3, HighestExists
  <2>5. Undoing(c) \in call[c].todo
    BY <2>4 DEF Undoing
  <2>. QED BY <2>1, <2>2, <2>5 DEF Undoable
<1>. QED BY <1>2, <1>3, <1>4, OpsTypedInvariant, PTL DEF OpsSpec
=============================================================================
