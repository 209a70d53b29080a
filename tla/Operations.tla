------------------------------ MODULE Operations ------------------------------
(***************************************************************************)
(* The executor of module Worker, and with it the operations of            *)
(* JobManager that reach into rows the workers may be using: delete, prune *)
(* and undo.  Each of them reads in one transaction and writes in later    *)
(* ones, and takes no lock in between; a call here is one such operation,  *)
(* made by one client process.  A call that raises before its first write  *)
(* is a call that is not made.                                             *)
(***************************************************************************)
EXTENDS WorkerProperties

CONSTANTS
  Deletions, Prunes, Undoes,  \* bound: the calls that are made, once each
  UndoSettled,                \* usage: undo is only called for a job whose
                              \* latest run has succeeded
  UndoSerial                  \* usage: one undo is called at a time

Calls == Deletions \cup Prunes \cup Undoes

ASSUME OperationsAssumption == UndoSettled \in BOOLEAN /\ UndoSerial \in BOOLEAN

VARIABLE call   \* how far each call has come, and what it has read

opsVars == <<vars, call>>

CallState ==
  [pc   : {"idle", "delete", "prune", "read", "undoing", "done"},
   job  : Jobs \cup {None},        \* the argument of delete
   rows : SUBSET RunIds,           \* the run ids prune or undo has selected
   todo : SUBSET Positions]        \* the tasks undo has yet to undo

OpsTypeOK == TypeOK /\ call \in [Calls -> CallState]

NotMade == [pc |-> "idle", job |-> None, rows |-> {}, todo |-> {}]

OpsInit == Init /\ call = [c \in Calls |-> NotMade]

Doing(c, label) == call[c].pc = label

Proceed(c, label) == call' = [call EXCEPT ![c].pc = label]

-----------------------------------------------------------------------------
(* Rows that go.                                                            *)

NoTasks == [p \in Positions |-> [status |-> "absent", attempts |-> 0]]

DeleteTasksOf(rows) ==
  tasks' = [r \in RunIds |-> IF r \in rows THEN NoTasks ELSE tasks[r]]

DeleteRuns(rows) ==
  runs' = [r \in RunIds |->
             IF r \in rows /\ RunExists(r)
             THEN [NoRun EXCEPT !.status = "deleted", !.job = runs[r].job]
             ELSE runs[r]]

-----------------------------------------------------------------------------
(* delete_job: the check is one transaction, the deletion another.          *)

DeleteChecks(c) ==
  /\ Doing(c, "idle")
  /\ \E j \in Jobs :
       /\ JobExists(j)
       /\ \A r \in RunsOf(j) : ~InFlight(r)
       /\ call' = [call EXCEPT ![c].pc = "delete", ![c].job = j]
  /\ UNCHANGED vars

DeleteRows(c) ==
  LET j == call[c].job IN
  /\ Doing(c, "delete")
  /\ DeleteTasksOf({r \in RunsOf(j) : RunExists(r)})
  /\ DeleteRuns(RunsOf(j))
  /\ jobs' = [jobs EXCEPT ![j] = [status |-> "deleted", attempts |-> 0]]
  /\ Proceed(c, "done")
  /\ UNCHANGED <<slot, processVars>>

-----------------------------------------------------------------------------
(* prune_runs: the ids of the runs that ended before a time, then DELETEs   *)
(* that name the ids alone.                                                 *)

\* Mutant: whatever is old is selected.
PruneSelectsAny(c) ==
  /\ Doing(c, "idle")
  /\ \E rows \in SUBSET {r \in RunIds : RunExists(r)} :
       /\ rows # {}
       /\ call' = [call EXCEPT ![c].pc = "prune", ![c].rows = rows]
  /\ UNCHANGED vars

PruneSelects(c) ==
  /\ Doing(c, "idle")
  /\ \E rows \in SUBSET {r \in RunIds : runs[r].status \in Terminal} :
       /\ rows # {}
       /\ call' = [call EXCEPT ![c].pc = "prune", ![c].rows = rows]
  /\ UNCHANGED vars

PruneRows(c) ==
  /\ Doing(c, "prune")
  /\ DeleteTasksOf(call[c].rows)
  /\ DeleteRuns(call[c].rows)
  /\ Proceed(c, "done")
  /\ UNCHANGED <<jobs, slot, processVars>>

-----------------------------------------------------------------------------
(* undo: the latest run, whatever its status, its task rows as they are     *)
(* read once, and then undo and compensate_task for one task after another. *)

LatestRun(j, r) ==
  /\ RunExists(r) /\ runs[r].job = j
  /\ \A q \in RunsOf(j) : RunExists(q) => q <= r

UndoPicks(c) ==
  /\ Doing(c, "idle")
  /\ \E j \in Jobs, r \in RunIds :
       /\ JobExists(j)
       /\ LatestRun(j, r)
       /\ UndoSettled => runs[r].status = "succeeded"
       /\ UndoSerial => \A d \in Undoes : call[d].pc \in {"idle", "done"}
       /\ call' = [call EXCEPT ![c].pc = "read", ![c].rows = {r}]
  /\ UNCHANGED vars

RunOfCall(c) == CHOOSE r \in RunIds : call[c].rows = {r}

\* Mutant: the tasks are not looked at, so a second call undoes them again.
UndoReadsNothing(c) ==
  /\ Doing(c, "read")
  /\ call' = [call EXCEPT ![c].pc = "undoing", ![c].todo = Positions]
  /\ UNCHANGED vars

UndoReads(c) ==
  LET done == Succeeded(RunOfCall(c)) IN
  /\ Doing(c, "read")
  /\ call' = [call EXCEPT ![c].pc = IF done = {} THEN "done" ELSE "undoing",
                          ![c].todo = done]
  /\ UNCHANGED vars

\* The task whose undo is running in a call that is undoing.
Undoing(c) ==
  CHOOSE p \in call[c].todo : \A q \in call[c].todo : q <= p

\* Mutant: undo in the order of execution.
UndoMarksFirst(c) ==
  LET p == CHOOSE p \in call[c].todo : \A q \in call[c].todo : p <= q IN
  /\ Doing(c, "undoing")
  /\ TaskIsCompensated(RunOfCall(c), p)
  /\ call' = [call EXCEPT
       ![c].pc = IF call[c].todo = {p} THEN "done" ELSE "undoing",
       ![c].todo = @ \ {p}]
  /\ UNCHANGED <<jobs, runs, slot, processVars>>

UndoMarks(c) ==
  LET p == Undoing(c) IN
  /\ Doing(c, "undoing")
  /\ TaskIsCompensated(RunOfCall(c), p)
  /\ call' = [call EXCEPT
       ![c].pc = IF call[c].todo = {p} THEN "done" ELSE "undoing",
       ![c].todo = @ \ {p}]
  /\ UNCHANGED <<jobs, runs, slot, processVars>>

\* Unlike in _compensate, an exception of undo ends the call.
UndoRaises(c) ==
  /\ Doing(c, "undoing")
  /\ Proceed(c, "done")
  /\ UNCHANGED vars

-----------------------------------------------------------------------------

ClientStep ==
  \/ \E c \in Deletions : DeleteChecks(c) \/ DeleteRows(c)
  \/ \E c \in Prunes : PruneSelects(c) \/ PruneRows(c)
  \/ \E c \in Undoes :
       UndoPicks(c) \/ UndoReads(c) \/ UndoMarks(c) \/ UndoRaises(c)

OpsNext == (Next /\ UNCHANGED call) \/ ClientStep

OpsSpec == OpsInit /\ [][OpsNext]_opsVars

-----------------------------------------------------------------------------
(* What holds of them.                                                      *)

\* A run that has ended, or has been deleted, never comes back to be claimed
\* or executed: no write of a coroutine that was at work on it when it was
\* cancelled, deleted or pruned revives the row.
GoneStaysGone ==
  [][\A r \in RunIds : runs[r].status \in Over => runs'[r].status \in Over]_opsVars

\* What prune() has selected stays over until it is deleted, though the
\* DELETEs do not check: no live run is ever pruned.
PruneSparesLive ==
  \A c \in Prunes : Doing(c, "prune") => \A r \in call[c].rows : ~InFlight(r)

\* "Hard-delete a job and all its runs": no run outlives its job.
RunsHaveJobs == \A r \in RunIds : RunExists(r) => JobExists(runs[r].job)

\* "... and tasks": no task row outlives its run.
TasksHaveRuns ==
  \A r \in RunIds, p \in Positions : TaskExists(r, p) => RunExists(r)

\* undo() only undoes work that is done and not undone yet: the task it is at
\* is a succeeded one, unless its row has been deleted under the call.
UndoOnlySucceeded ==
  \A c \in Undoes :
    Doing(c, "undoing")
      => tasks[RunOfCall(c)][Undoing(c)].status \in {"succeeded", "absent"}
=============================================================================
