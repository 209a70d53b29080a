------------------------------ MODULE Migrations ------------------------------
(***************************************************************************)
(* MigrationRunner.up() with the steps of MIGRATIONS, run by one or more   *)
(* processes at deployment, and killed at any statement.                   *)
(*                                                                         *)
(* A step runs in one engine.begin() block.  PostgreSQL makes all of it    *)
(* one transaction.  With SQLite, sqlite3 opens the transaction before the *)
(* first INSERT or UPDATE only: a DDL statement before that is permanent   *)
(* at once, one after it belongs to the transaction.  The first statement  *)
(* of a transaction that writes takes the lock (an UPDATE or an INSERT     *)
(* also if it finds no row), and the writes of other processes wait for    *)
(* it; they read what is committed.                                        *)
(*                                                                         *)
(* Abstracted: "run_state" stands for the columns of a run that v4 takes   *)
(* out of jobs and no guard tells apart (result, error, worker_id,         *)
(* scheduled_at, started_at, finished_at); columns no step looks at and    *)
(* indexes no step drops are left out.  No tasks are in the database yet,  *)
(* so that v8 finds none to rename.                                        *)
(***************************************************************************)
EXTENDS Naturals, FiniteSets, Sequences

CONSTANTS
  Runners,           \* the processes that call migrate()
  Rows,              \* the rows of a legacy jobs table
  Legacy,            \* what each of them says
  TransactionalDDL,  \* PostgreSQL
  MaxCrashes,        \* bound: how often a process is killed
  None

LegacyStatus == {"pending", "running", "succeeded", "failed", "cancelled"}

ASSUME MigrationsAssumption ==
  /\ Legacy \in [Rows -> [status : LegacyStatus, schedule : BOOLEAN]]
  /\ TransactionalDDL \in BOOLEAN
  /\ MaxCrashes \in Nat
  /\ None \notin Runners

VARIABLES
  db,        \* the database as its writer sees it
  committed, \* the database as everyone else sees it
  writer,    \* the process whose transaction has written, or None
  runner,    \* where each process is in up()
  crashes

migVars == <<db, committed, writer, runner, crashes>>

-----------------------------------------------------------------------------
(* The steps, statement by statement.                                       *)

Inspect(table)   == [op |-> "inspect",   on |-> table, to |-> ""]
Create(table)    == [op |-> "create",    on |-> table, to |-> ""]
Index(index)     == [op |-> "index",     on |-> index, to |-> ""]
DropIndex(index) == [op |-> "dropIndex", on |-> index, to |-> ""]
Rename(col, new) == [op |-> "rename",    on |-> col, to |-> new]
Add(col)         == [op |-> "add",       on |-> col, to |-> ""]
DropCol(col)     == [op |-> "drop",      on |-> col, to |-> ""]
SplitSchedule    == [op |-> "split",     on |-> "schedule", to |-> ""]
Backfill         == [op |-> "backfill",  on |-> "status", to |-> ""]
Collapse         == [op |-> "collapse",  on |-> "status", to |-> ""]
PendingToReady   == [op |-> "toReady",   on |-> "runs", to |-> ""]
TasksToReady     == [op |-> "tasksToReady", on |-> "tasks", to |-> ""]
Record           == [op |-> "record",    on |-> "", to |-> ""]

\* Mutant: the statuses are collapsed before they are backfilled.
JobRunTaskModelSwapped ==
  << Create("runs"), Create("tasks"), Inspect("jobs"),
     DropIndex("name_schedule"), DropIndex("name"), DropIndex("scheduled_at"),
     Rename("name", "job"), Rename("payload", "args"),
     Add("source"), Add("cron"), Add("key"),
     SplitSchedule, Collapse, Backfill,
     DropCol("schedule"), DropCol("run_state"), DropCol("attempts"),
     DropCol("locked_at"), Record >>

JobRunTaskModel ==
  << Create("runs"), Create("tasks"), Inspect("jobs"),
     DropIndex("name_schedule"), DropIndex("name"), DropIndex("scheduled_at"),
     Rename("name", "job"), Rename("payload", "args"),
     Add("source"), Add("cron"), Add("key"),
     SplitSchedule, Backfill, Collapse,
     DropCol("schedule"), DropCol("run_state"), DropCol("attempts"),
     DropCol("locked_at"), Record >>

Migration ==
  << << Create("jobs"), Index("scheduled_at"), Record >>,
     << Index("name_schedule"), Record >>,
     << Inspect("jobs"), Add("locked_at"), Record >>,
     JobRunTaskModel,
     << Inspect("jobs"), Inspect("runs"), Inspect("tasks"),
        Add("updated_at"), Add("runs.updated_at"),
        Add("tasks.created_at"), Add("tasks.updated_at"), Record >>,
     << Inspect("jobs"), Add("retries"), Add("attempts"), Record >>,
     << Inspect("jobs"), DropCol("cron"), Record >>,
     << PendingToReady, TasksToReady, Record >>,
     << Inspect("runs"), Add("runs.progress"), Record >>,
     << Inspect("jobs"), Add("tags"), Record >> >>

Versions == 1 .. Len(Migration)

\* The columns that CREATE TABLE creates, and those an index is over.
ColumnsOf(table) ==
  IF table = "jobs"
  THEN {"jobs", "name", "status", "payload", "run_state", "attempts", "schedule"}
  ELSE {table}

IndexedBy(index) ==
  CASE index = "scheduled_at"  -> {"run_state"}
    [] index = "name_schedule" -> {"name", "schedule"}
    [] OTHER                   -> {"name"}

\* The columns, of those that are there, that belong to a table.
RunColumns  == {"runs", "runs.updated_at", "runs.progress"}
TaskColumns == {"tasks", "tasks.created_at", "tasks.updated_at"}

ColumnsIn(table, cols) ==
  CASE table = "runs"  -> cols \cap RunColumns
    [] table = "tasks" -> cols \cap TaskColumns
    [] OTHER           -> cols \ (RunColumns \cup TaskColumns)

DML == {"split", "backfill", "collapse", "toReady", "tasksToReady", "record"}

-----------------------------------------------------------------------------
(* What a statement does to a database d.                                   *)

\* The columns it names are not there, or no longer, or there already; SQLite
\* does not drop an indexed column; a version is recorded once.
Fails(s, v, d) ==
  \/ s.op = "index" /\ s.on \notin d.indexes /\ ~(IndexedBy(s.on) \subseteq d.cols)
  \/ s.op = "rename" /\ (s.on \notin d.cols \/ s.to \in d.cols)
  \/ s.op = "add" /\ s.on \in d.cols
  \/ s.op = "drop" /\ s.on \notin d.cols
  \/ s.op = "drop" /\ ~TransactionalDDL
       /\ \E index \in d.indexes : s.on \in IndexedBy(index)
  \/ s.op = "split" /\ ~({"schedule", "source", "cron"} \subseteq d.cols)
  \/ s.op = "backfill" /\ ~({"status", "run_state", "locked_at"} \subseteq d.cols)
  \/ s.op = "record" /\ v \in d.applied

\* The runs made of the rows, in the nth backfill.
Backfilled(d, nth) ==
  {[job |-> r, nth |-> nth,
    status |-> IF d.rows[r].status = "running" THEN "pending" ELSE d.rows[r].status]
     : r \in d.present}

Effect(s, v, d) ==
  CASE s.op = "create" ->
         [d EXCEPT !.cols = IF s.on \in @ THEN @ ELSE @ \cup ColumnsOf(s.on)]
    [] s.op = "index"     -> [d EXCEPT !.indexes = @ \cup {s.on}]
    [] s.op = "dropIndex" -> [d EXCEPT !.indexes = @ \ {s.on}]
    [] s.op = "rename"    -> [d EXCEPT !.cols = (@ \ {s.on}) \cup {s.to}]
    [] s.op = "add"       -> [d EXCEPT !.cols = @ \cup {s.on}]
    [] s.op = "drop" ->
         [d EXCEPT !.cols = @ \ {s.on},
                   !.indexes = {i \in @ : s.on \notin IndexedBy(i)}]
    [] s.op = "split" ->
         [d EXCEPT !.rows = [r \in Rows |->
            IF Legacy[r].schedule THEN [@[r] EXCEPT !.source = "scheduled"]
            ELSE @[r]]]
    [] s.op = "backfill" ->
         [d EXCEPT !.runs = @ \cup Backfilled(d, Cardinality(@) + 1)]
    [] s.op = "collapse" ->
         [d EXCEPT !.rows = [r \in Rows |->
            [d.rows[r] EXCEPT !.status = IF @ = "cancelled" THEN @ ELSE "active"]]]
    [] s.op = "toReady" ->
         [d EXCEPT !.runs = {[x EXCEPT !.status = IF @ = "pending" THEN "ready"
                                                  ELSE @] : x \in @}]
    [] s.op = "record" -> [d EXCEPT !.applied = @ \cup {v}]
    [] OTHER -> d

-----------------------------------------------------------------------------

\* A database nobody has migrated; one that v1 to v3 have; the jobs table of
\* create_all, with or without the lease, and with an index on name.
InitialDatabase(d) ==
  \E cols \in {{}, ColumnsOf("jobs"), ColumnsOf("jobs") \cup {"locked_at"}},
     applied \in {{}, 1 .. 3} :
    /\ applied = 1 .. 3 => "locked_at" \in cols
    /\ d = [cols    |-> cols,
            indexes |-> IF applied # {} THEN {"scheduled_at", "name_schedule"}
                        ELSE IF cols = {} THEN {} ELSE {"name"},
            applied |-> applied,
            present |-> IF cols = {} THEN {} ELSE Rows,
            rows    |-> [r \in Rows |-> [status |-> Legacy[r].status,
                                         source |-> "on_demand"]],
            runs    |-> {}]

Down == [up |-> FALSE, version |-> 0, at |-> 1, columns |-> {}]

MigInit ==
  /\ InitialDatabase(db)
  /\ committed = db
  /\ writer = None
  /\ runner = [x \in Runners |-> Down]
  /\ crashes = 0

\* What a process sees.
Visible(x) == IF writer = x THEN db ELSE committed

\* MAX(version), 0 for none.
Current(d) == IF d.applied = {} THEN 0
              ELSE CHOOSE v \in d.applied : \A u \in d.applied : u <= v

Statement(x) == Migration[runner[x].version][runner[x].at]

\* pending(): computed once, from the highest version.
Begin(x) ==
  /\ ~runner[x].up
  /\ Current(committed) < Len(Migration)
  /\ runner' = [runner EXCEPT ![x] = [Down EXCEPT !.up = TRUE,
                                                  !.version = Current(committed) + 1]]
  /\ UNCHANGED <<db, committed, writer, crashes>>

Advance(x) == runner' = [runner EXCEPT ![x].at = @ + 1]

Look(x) ==
  /\ runner[x].up
  /\ Statement(x).op = "inspect"
  /\ runner' = [runner EXCEPT
       ![x].at = @ + 1,
       ![x].columns = @ \cup ColumnsIn(Statement(x).on, Visible(x).cols)]
  /\ UNCHANGED <<db, committed, writer, crashes>>

\* Mutant: what has been done is not recognised.
SkipsNothing(x) == FALSE

\* Mutant: one column of a step that is there stands for all that it adds.
SkipsTheRest(x) ==
  LET s == Statement(x)  columns == runner[x].columns
      step == Migration[runner[x].version]
  IN
  \/ s.op = "rename" /\ ~(s.on \in columns /\ s.to \notin columns)
  \/ s.op = "add" /\ \E n \in 1 .. Len(step) :
                      step[n].op = "add" /\ step[n].on \in columns
  \/ s.op \in {"drop", "split", "backfill", "collapse"} /\ s.on \notin columns

\* The if around a statement, from the columns inspected.
Skips(x) ==
  LET s == Statement(x)  columns == runner[x].columns IN
  \/ s.op = "rename" /\ ~(s.on \in columns /\ s.to \notin columns)
  \/ s.op = "add" /\ s.on \in columns
  \/ s.op \in {"drop", "split", "backfill", "collapse"} /\ s.on \notin columns

Skip(x) ==
  /\ runner[x].up
  /\ Skips(x)
  /\ Advance(x)
  /\ UNCHANGED <<db, committed, writer, crashes>>

\* Mutant: each statement is a transaction of its own.
OpensNothing(s) == FALSE

\* The statement begins a transaction, if none has begun.
Opens(s) == TransactionalDDL \/ s.op \in DML

Execute(x) ==
  LET s == Statement(x)
      d == Effect(s, runner[x].version, db)
  IN  /\ runner[x].up
      /\ s.op # "inspect" /\ ~Skips(x)
      /\ writer \in {None, x}
      /\ ~Fails(s, runner[x].version, db)
      /\ s.op # "record"
      /\ db' = d
      /\ IF writer = x \/ (Opens(s) /\ (s.op \in DML \/ d # db))
         THEN writer' = x /\ UNCHANGED committed
         ELSE committed' = d /\ UNCHANGED writer
      /\ Advance(x)
      /\ UNCHANGED crashes

\* The version is recorded, and with that the transaction is committed.
Commit(x) ==
  LET v == runner[x].version
      d == Effect(Record, v, db)
  IN  /\ runner[x].up
      /\ Statement(x).op = "record"
      /\ writer \in {None, x}
      /\ ~Fails(Record, v, db)
      /\ db' = d
      /\ committed' = d
      /\ writer' = None
      /\ runner' = [runner EXCEPT ![x] =
           IF v = Len(Migration) THEN Down
           ELSE [Down EXCEPT !.up = TRUE, !.version = v + 1]]
      /\ UNCHANGED crashes

\* The process ends, and what its transaction has written is rolled back.
Ends(x) ==
  /\ runner' = [runner EXCEPT ![x] = Down]
  /\ IF writer = x
     THEN db' = committed /\ writer' = None
     ELSE UNCHANGED <<db, writer>>
  /\ UNCHANGED committed

\* migrate() raises what the database does.
Raise(x) ==
  /\ runner[x].up
  /\ Statement(x).op # "inspect" /\ ~Skips(x)
  /\ writer \in {None, x}
  /\ Fails(Statement(x), runner[x].version, db)
  /\ Ends(x)
  /\ UNCHANGED crashes

Crash(x) ==
  /\ runner[x].up
  /\ crashes < MaxCrashes
  /\ crashes' = crashes + 1
  /\ Ends(x)

MigStep(x) ==
  Begin(x) \/ Look(x) \/ Skip(x) \/ Execute(x) \/ Commit(x) \/ Raise(x)

MigNext == \E x \in Runners : MigStep(x) \/ Crash(x)

MigSpec == MigInit /\ [][MigNext]_migVars

\* A process that has raised or died is started again.
MigFairSpec == MigSpec /\ \A x \in Runners : WF_migVars(MigStep(x))

-----------------------------------------------------------------------------
(* What holds of the database that is committed.                            *)

Database ==
  [cols    : SUBSET ((UNION {ColumnsOf(t) : t \in {"jobs", "runs", "tasks"}})
               \cup {"locked_at", "job", "args", "source", "cron", "key",
                     "updated_at", "runs.updated_at", "tasks.created_at",
                     "tasks.updated_at", "retries", "runs.progress", "tags"}),
   indexes : SUBSET {"scheduled_at", "name_schedule", "name"},
   applied : SUBSET Versions,
   present : SUBSET Rows,
   rows    : [Rows -> [status : LegacyStatus \cup {"active"},
                       source : {"on_demand", "scheduled"}]],
   runs    : SUBSET [job : Rows, nth : Nat, status : LegacyStatus \cup {"ready"}]]

MigTypeOK ==
  /\ db \in Database /\ committed \in Database
  /\ writer \in Runners \cup {None}
  /\ \A x \in Runners : runner[x].up => runner[x].version \in Versions
  /\ crashes \in Nat

\* "Exactly once": a row of the old table has one run as soon as v4 is
\* recorded and none before, whoever is killed and whoever runs beside.
BackfilledOnce ==
  \A r \in committed.present :
    Cardinality({x \in committed.runs : x.job = r})
      = IF 4 \in committed.applied THEN 1 ELSE 0

\* What the backfill says of a row is what the row said, through v4 and v8.
LegacyKept ==
  4 \in committed.applied =>
    \A r \in committed.present :
      /\ committed.rows[r].source
           = IF Legacy[r].schedule THEN "scheduled" ELSE "on_demand"
      /\ committed.rows[r].status
           = IF Legacy[r].status = "cancelled" THEN "cancelled" ELSE "active"
      /\ \A x \in committed.runs :
           x.job = r => x.status =
             IF Legacy[r].status \in {"pending", "running"}
             THEN (IF 8 \in committed.applied THEN "ready" ELSE "pending")
             ELSE Legacy[r].status

\* A database that says it is at the last version has the last schema: all
\* that the ORM mirrors and nothing of what was dropped.
Final ==
  (UNION {ColumnsOf(t) : t \in {"runs", "tasks"}}) \cup
  {"jobs", "job", "args", "status", "source", "key", "updated_at",
   "runs.updated_at", "tasks.created_at", "tasks.updated_at", "retries",
   "attempts", "runs.progress", "tags"}

SchemaIsFinal == committed.applied = Versions => committed.cols = Final

\* The ORM finds every column it names.
SchemaSuffices == committed.applied = Versions => Final \subseteq committed.cols

\* However often it is interrupted, and wherever, the upgrade gets done.
Upgraded == <>[](committed.applied = Versions)
=============================================================================
