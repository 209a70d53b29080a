--------------------------- MODULE MigrationsProofs ---------------------------
(***************************************************************************)
(* Theorems about Migrations, for every number of processes, of legacy     *)
(* rows and of crashes, for SQLite and for PostgreSQL: the types, each     *)
(* legacy row in one run with what it said, and a final version that has   *)
(* every column.                                                           *)
(*                                                                         *)
(* MigInv says what each process can rely on at each statement.  The core  *)
(* is the fourth step: a process past the backfill holds the lock, and the *)
(* step is not recorded; one that inspected the columns before another     *)
(* process completed the step is stopped at the backfill at the latest,    *)
(* for it names columns that are gone.                                     *)
(***************************************************************************)
EXTENDS Migrations, FiniteSetTheorems, TLAPS

-----------------------------------------------------------------------------
(* The rows and the runs, before and after.                                 *)

Applied == committed.applied

Columns ==
  (UNION {ColumnsOf(t) : t \in {"jobs", "runs", "tasks"}})
    \cup {"locked_at", "job", "args", "source", "cron", "key",
          "updated_at", "runs.updated_at", "tasks.created_at",
          "tasks.updated_at", "retries", "runs.progress", "tags"}

RowsLegacy == [r \in Rows |-> [status |-> Legacy[r].status,
                               source |-> "on_demand"]]

SourceOf(r) == IF Legacy[r].schedule THEN "scheduled" ELSE "on_demand"

RowsSplit == [r \in Rows |-> [status |-> Legacy[r].status,
                              source |-> SourceOf(r)]]

RowsNew == [r \in Rows |->
  [status |-> IF Legacy[r].status = "cancelled" THEN "cancelled" ELSE "active",
   source |-> SourceOf(r)]]

\* The runs of the legacy rows; word is what the code calls a run that waits.
RunOfRow(r, word) ==
  [job |-> r, nth |-> 1,
   status |-> IF Legacy[r].status \in {"pending", "running"} THEN word
              ELSE Legacy[r].status]

RunsOf(present, word) == {RunOfRow(r, word) : r \in present}

RowsIn(applied) == IF 4 \in applied THEN RowsNew ELSE RowsLegacy

RunsIn(applied, present) ==
  IF 8 \in applied THEN RunsOf(present, "ready")
  ELSE IF 4 \in applied THEN RunsOf(present, "pending") ELSE {}

\* What a process sees that is at statement n of step v.
RowsAt(applied, v, n) ==
  IF v = 4 /\ 4 \notin applied
  THEN IF n <= 12 THEN RowsLegacy ELSE IF n <= 14 THEN RowsSplit ELSE RowsNew
  ELSE RowsIn(applied)

RunsAt(applied, present, v, n) ==
  IF v = 8 /\ n > 1 THEN RunsOf(present, "ready")
  ELSE IF v = 4 /\ 4 \notin applied /\ n > 13 THEN RunsOf(present, "pending")
  ELSE RunsIn(applied, present)

-----------------------------------------------------------------------------
(* The invariant.                                                           *)

\* The columns of the final schema that a statement sees to.
Gives(s) ==
  {c \in Final : \/ s.op \in {"create", "add"} /\ s.on = c
                 \/ s.op = "rename" /\ s.to = c}

\* Those that the statements of step v before the nth have seen to.
Given(v, n) == UNION {Gives(Migration[v][m]) : m \in 1 .. (n - 1)}

MigTypes ==
  /\ db \in Database /\ committed \in Database
  /\ writer \in Runners \cup {None}
  /\ runner \in [Runners -> [up : BOOLEAN, version : Nat, at : Nat,
                             columns : SUBSET Columns]]
  /\ \A x \in Runners : runner[x].up =>
       /\ runner[x].version \in Versions
       /\ runner[x].at \in 1 .. Len(Migration[runner[x].version])
  /\ crashes \in Nat

\* The columns that stay when the nth statement of step v is executed.
Kept(v, n) == {c \in Final : c = "attempts" => v # 4 \/ n # 17}

\* One process writes; what it has written is not yet a version, and takes
\* no column of the final schema away but the old one called attempts.
LockInv ==
  /\ writer = None => db = committed
  /\ db.applied = committed.applied
  /\ db.present = committed.present
  /\ writer # None =>
       LET v == runner[writer].version  n == runner[writer].at IN
       /\ runner[writer].up
       /\ \A c \in Final : c \in committed.cols =>
            c \in db.cols \/ (c = "attempts" /\ v = 4 /\ n > 17)
       /\ "jobs" \in committed.cols => \A c \in {"run_state", "schedule"} :
            c \in db.cols => c \in committed.cols

\* Versions are recorded in order.
OrderInv ==
  /\ \E k \in 0 .. 10 : Applied = 1 .. k
  /\ \A x \in Runners : runner[x].up =>
       \A v \in 1 .. 10 : v < runner[x].version => v \in Applied

\* A database has the columns that its versions promise.
Promised(d) ==
  /\ d.applied # {} => "jobs" \in d.cols
  /\ "jobs" \in d.cols =>
       /\ "status" \in d.cols
       /\ "name" \in d.cols \/ "job" \in d.cols
       /\ "payload" \in d.cols \/ "args" \in d.cols
  /\ 4 \in d.applied => "run_state" \notin d.cols /\ "schedule" \notin d.cols
  /\ \A v \in d.applied : Given(v, Len(Migration[v])) \subseteq d.cols

SchemaInv ==
  /\ Promised(db) /\ Promised(committed)
  /\ 4 \notin Applied /\ "jobs" \in committed.cols => "schedule" \in committed.cols

\* The columns that stay, once they are there and step v has begun.
Lasting(v) == {c \in Final : c = "attempts" => v > 4}

\* What a process saw of the columns is still so, as far as it matters.
SightInv(x) ==
  LET seen == runner[x].columns  cols == Visible(x).cols
      v == runner[x].version  n == runner[x].at
  IN
  /\ Given(v, n) \subseteq cols
  /\ seen \cap Lasting(v) \subseteq cols
  /\ 4 \notin Applied /\ "jobs" \in cols /\ (v # 4 \/ n <= 15) => "schedule" \in cols
  /\ v = 4 /\ n > 3 =>
       /\ "status" \in seen
       /\ "name" \in seen \/ "job" \in seen
       /\ "payload" \in seen \/ "args" \in seen
       /\ "schedule" \in cols => "schedule" \in seen
       /\ "run_state" \in cols => "run_state" \in seen

\* The fourth step: past the split, in the lock; past the backfill, alone.
StepFourInv(x) ==
  LET v == runner[x].version  n == runner[x].at  cols == Visible(x).cols IN
  v = 4 =>
    /\ n > 13 => 4 \notin Applied
    /\ n > 12 /\ 4 \notin Applied => writer = x
    /\ n > 15 => "schedule" \notin cols
    /\ n > 16 => "run_state" \notin cols

DataInv ==
  /\ committed.rows = RowsIn(Applied)
  /\ committed.runs = RunsIn(Applied, committed.present)

SeenDataInv(x) ==
  LET v == runner[x].version  n == runner[x].at IN
  /\ v = 8 /\ n > 1 => writer = x
  /\ Visible(x).rows = RowsAt(Applied, v, n)
  /\ Visible(x).runs = RunsAt(Applied, committed.present, v, n)

MigInv ==
  /\ MigTypes /\ LockInv /\ OrderInv /\ SchemaInv /\ DataInv
  /\ \A x \in Runners : runner[x].up => SightInv(x) /\ StepFourInv(x) /\ SeenDataInv(x)
-----------------------------------------------------------------------------
(* The table of the steps.                                                  *)

(* There are ten steps. *)
LEMMA AllSteps == Versions = 1 .. 10 /\ Len(Migration) = 10
BY DEF Versions, Migration

(* Step 1, statement by statement. *)
LEMMA Step1 ==
  /\ Len(Migration[1]) = 3
  /\ Migration[1][1] = Create("jobs")
  /\ Migration[1][2] = Index("scheduled_at")
  /\ Migration[1][3] = Record
BY DEF Migration

(* Step 2, statement by statement. *)
LEMMA Step2 ==
  /\ Len(Migration[2]) = 2
  /\ Migration[2][1] = Index("name_schedule")
  /\ Migration[2][2] = Record
BY DEF Migration

(* Step 3, statement by statement. *)
LEMMA Step3 ==
  /\ Len(Migration[3]) = 3
  /\ Migration[3][1] = Inspect("jobs")
  /\ Migration[3][2] = Add("locked_at")
  /\ Migration[3][3] = Record
BY DEF Migration

(* Step 4, statement by statement. *)
LEMMA Step4 ==
  /\ Len(Migration[4]) = 19
  /\ Migration[4][1] = Create("runs")
  /\ Migration[4][2] = Create("tasks")
  /\ Migration[4][3] = Inspect("jobs")
  /\ Migration[4][4] = DropIndex("name_schedule")
  /\ Migration[4][5] = DropIndex("name")
  /\ Migration[4][6] = DropIndex("scheduled_at")
  /\ Migration[4][7] = Rename("name", "job")
  /\ Migration[4][8] = Rename("payload", "args")
  /\ Migration[4][9] = Add("source")
  /\ Migration[4][10] = Add("cron")
  /\ Migration[4][11] = Add("key")
  /\ Migration[4][12] = SplitSchedule
  /\ Migration[4][13] = Backfill
  /\ Migration[4][14] = Collapse
  /\ Migration[4][15] = DropCol("schedule")
  /\ Migration[4][16] = DropCol("run_state")
  /\ Migration[4][17] = DropCol("attempts")
  /\ Migration[4][18] = DropCol("locked_at")
  /\ Migration[4][19] = Record
BY DEF Migration, JobRunTaskModel

(* Step 5, statement by statement. *)
LEMMA Step5 ==
  /\ Len(Migration[5]) = 8
  /\ Migration[5][1] = Inspect("jobs")
  /\ Migration[5][2] = Inspect("runs")
  /\ Migration[5][3] = Inspect("tasks")
  /\ Migration[5][4] = Add("updated_at")
  /\ Migration[5][5] = Add("runs.updated_at")
  /\ Migration[5][6] = Add("tasks.created_at")
  /\ Migration[5][7] = Add("tasks.updated_at")
  /\ Migration[5][8] = Record
BY DEF Migration

(* Step 6, statement by statement. *)
LEMMA Step6 ==
  /\ Len(Migration[6]) = 4
  /\ Migration[6][1] = Inspect("jobs")
  /\ Migration[6][2] = Add("retries")
  /\ Migration[6][3] = Add("attempts")
  /\ Migration[6][4] = Record
BY DEF Migration

(* Step 7, statement by statement. *)
LEMMA Step7 ==
  /\ Len(Migration[7]) = 3
  /\ Migration[7][1] = Inspect("jobs")
  /\ Migration[7][2] = DropCol("cron")
  /\ Migration[7][3] = Record
BY DEF Migration

(* Step 8, statement by statement. *)
LEMMA Step8 ==
  /\ Len(Migration[8]) = 3
  /\ Migration[8][1] = PendingToReady
  /\ Migration[8][2] = TasksToReady
  /\ Migration[8][3] = Record
BY DEF Migration

(* Step 9, statement by statement. *)
LEMMA Step9 ==
  /\ Len(Migration[9]) = 3
  /\ Migration[9][1] = Inspect("runs")
  /\ Migration[9][2] = Add("runs.progress")
  /\ Migration[9][3] = Record
BY DEF Migration

(* Step 10, statement by statement. *)
LEMMA Step10 ==
  /\ Len(Migration[10]) = 3
  /\ Migration[10][1] = Inspect("jobs")
  /\ Migration[10][2] = Add("tags")
  /\ Migration[10][3] = Record
BY DEF Migration

(* The steps are finite. *)
LEMMA StepsLength ==
  ASSUME NEW v \in Versions
  PROVE  Len(Migration[v]) \in Nat /\ Len(Migration[v]) > 1
BY Step1, Step2, Step3, Step4, Step5, Step6, Step7, Step8, Step9, Step10, AllSteps

(* The parts of a statement. *)
LEMMA Statements ==
  /\ Record.op = "record"
  /\ \A t : Inspect(t).op = "inspect" /\ Inspect(t).on = t
  /\ \A t : Create(t).op = "create" /\ Create(t).on = t
  /\ \A t : Index(t).op = "index" /\ Index(t).on = t
  /\ \A t : DropIndex(t).op = "dropIndex" /\ DropIndex(t).on = t
  /\ \A t, u : Rename(t, u).op = "rename" /\ Rename(t, u).on = t /\ Rename(t, u).to = u
  /\ \A t : Add(t).op = "add" /\ Add(t).on = t
  /\ \A t : DropCol(t).op = "drop" /\ DropCol(t).on = t
  /\ SplitSchedule.op = "split" /\ SplitSchedule.on = "schedule"
  /\ Backfill.op = "backfill" /\ Backfill.on = "status"
  /\ Collapse.op = "collapse" /\ Collapse.on = "status"
  /\ PendingToReady.op = "toReady" /\ TasksToReady.op = "tasksToReady"
BY DEF Inspect, Record, Create, Index, DropIndex, Rename, Add, DropCol,
       SplitSchedule, Backfill, Collapse, PendingToReady, TasksToReady

\* Where each kind of statement stands.
KindInv(s, v, n) ==
  /\ n = Len(Migration[v]) <=> s.op = "record"
  /\ Len(Migration[v]) > 1
  /\ v = 1 /\ n = 1 => s = Create("jobs")
  /\ s.op = "record" => s = Record
  /\ s.op = "inspect" => v # 8 /\ (v = 4 => n = 3 /\ s.on = "jobs")
  /\ s.op = "index" => s.on \in {"scheduled_at", "name_schedule"}
  /\ s.op = "create" => \/ v = 1 /\ s = Create("jobs")
                        \/ v = 4 /\ n \in {1, 2} /\ s.on \in {"runs", "tasks"}
  /\ s.op = "rename" => /\ v = 4 /\ n \in {7, 8}
                        /\ s \in {Rename("name", "job"), Rename("payload", "args")}
  /\ s.op = "add" => /\ s.on \in {"locked_at", "source", "cron", "key", "updated_at",
                                "runs.updated_at", "tasks.created_at",
                                "tasks.updated_at", "retries", "attempts",
                                "runs.progress", "tags"}
                     /\ v # 8 /\ (v = 4 => n \in 9 .. 11)
                     /\ s.on = "attempts" => v = 6
  /\ s.op = "drop" => /\ (v = 4 /\ n = 15) \/ s.on # "schedule"
                      /\ (v = 4 /\ n = 16) \/ s.on # "run_state"
                      /\ (v = 4 /\ n = 17) \/ s.on # "attempts"
                      /\ s.on \in {"schedule", "run_state", "attempts",
                                   "locked_at", "cron"}
                      /\ (v = 4 /\ n \in 15 .. 18) \/ v = 7
  /\ s.op = "split" => v = 4 /\ n = 12 /\ s = SplitSchedule
  /\ s.op = "backfill" => v = 4 /\ n = 13 /\ s = Backfill
  /\ s.op = "collapse" => v = 4 /\ n = 14 /\ s = Collapse
  /\ s.op = "toReady" => v = 8 /\ n = 1
  /\ s.op = "tasksToReady" => v = 8 /\ n = 2
  /\ v = 4 => /\ n = 3 => s.op = "inspect"
              /\ n = 12 => s.op = "split"
              /\ n = 13 => s.op = "backfill"
              /\ n = 14 => s.op = "collapse"
              /\ n = 15 => s = DropCol("schedule")
              /\ n = 16 => s = DropCol("run_state")
  /\ v = 8 /\ n = 1 => s.op = "toReady"
  /\ v = 8 /\ n = 2 => s.op = "tasksToReady"

(* It is so of every statement. *)
LEMMA Kinds ==
  ASSUME NEW v \in Versions, NEW n \in 1 .. Len(Migration[v])
  PROVE  KindInv(Migration[v][n], v, n)
<1>1. CASE v = 1
  <2>1. n \in 1 .. 3  BY <1>1, Step1
  <2>. QED  BY <1>1, <2>1, Step1, Statements DEF KindInv
<1>2. CASE v = 2
  <2>1. n \in 1 .. 2  BY <1>2, Step2
  <2>. QED  BY <1>2, <2>1, Step2, Statements DEF KindInv
<1>3. CASE v = 3
  <2>1. n \in 1 .. 3  BY <1>3, Step3
  <2>. QED  BY <1>3, <2>1, Step3, Statements DEF KindInv
<1>4. CASE v = 4
  <2>1. CASE n = 1  BY <1>4, <2>1, Step4, Statements DEF KindInv
  <2>2. CASE n = 2  BY <1>4, <2>2, Step4, Statements DEF KindInv
  <2>3. CASE n = 3  BY <1>4, <2>3, Step4, Statements DEF KindInv
  <2>4. CASE n = 4  BY <1>4, <2>4, Step4, Statements DEF KindInv
  <2>5. CASE n = 5  BY <1>4, <2>5, Step4, Statements DEF KindInv
  <2>6. CASE n = 6  BY <1>4, <2>6, Step4, Statements DEF KindInv
  <2>7. CASE n = 7  BY <1>4, <2>7, Step4, Statements DEF KindInv
  <2>8. CASE n = 8  BY <1>4, <2>8, Step4, Statements DEF KindInv
  <2>9. CASE n = 9  BY <1>4, <2>9, Step4, Statements DEF KindInv
  <2>10. CASE n = 10  BY <1>4, <2>10, Step4, Statements DEF KindInv
  <2>11. CASE n = 11  BY <1>4, <2>11, Step4, Statements DEF KindInv
  <2>12. CASE n = 12  BY <1>4, <2>12, Step4, Statements DEF KindInv
  <2>13. CASE n = 13  BY <1>4, <2>13, Step4, Statements DEF KindInv
  <2>14. CASE n = 14  BY <1>4, <2>14, Step4, Statements DEF KindInv
  <2>15. CASE n = 15  BY <1>4, <2>15, Step4, Statements DEF KindInv
  <2>16. CASE n = 16  BY <1>4, <2>16, Step4, Statements DEF KindInv
  <2>17. CASE n = 17  BY <1>4, <2>17, Step4, Statements DEF KindInv
  <2>18. CASE n = 18  BY <1>4, <2>18, Step4, Statements DEF KindInv
  <2>19. CASE n = 19  BY <1>4, <2>19, Step4, Statements DEF KindInv
  <2>20. n \in 1 .. 19  BY <1>4, Step4
  <2>. QED  BY <2>20, <2>1, <2>2, <2>3, <2>4, <2>5, <2>6, <2>7, <2>8, <2>9, <2>10, <2>11, <2>12,
                <2>13, <2>14, <2>15, <2>16, <2>17, <2>18, <2>19
<1>5. CASE v = 5
  <2>1. n \in 1 .. 8  BY <1>5, Step5
  <2>. QED  BY <1>5, <2>1, Step5, Statements DEF KindInv
<1>6. CASE v = 6
  <2>1. n \in 1 .. 4  BY <1>6, Step6
  <2>. QED  BY <1>6, <2>1, Step6, Statements DEF KindInv
<1>7. CASE v = 7
  <2>1. n \in 1 .. 3  BY <1>7, Step7
  <2>. QED  BY <1>7, <2>1, Step7, Statements DEF KindInv
<1>8. CASE v = 8
  <2>1. n \in 1 .. 3  BY <1>8, Step8
  <2>. QED  BY <1>8, <2>1, Step8, Statements DEF KindInv
<1>9. CASE v = 9
  <2>1. n \in 1 .. 3  BY <1>9, Step9
  <2>. QED  BY <1>9, <2>1, Step9, Statements DEF KindInv
<1>10. CASE v = 10
  <2>1. n \in 1 .. 3  BY <1>10, Step10
  <2>. QED  BY <1>10, <2>1, Step10, Statements DEF KindInv
<1>. QED  BY AllSteps, <1>1, <1>2, <1>3, <1>4, <1>5, <1>6, <1>7, <1>8, <1>9, <1>10

-----------------------------------------------------------------------------
(* What a statement does to the columns.                                    *)

(* The columns of the last schema. *)
LEMMA FinalIs ==
  Final = {"runs", "tasks", "jobs", "job", "args", "status", "source", "key",
           "updated_at", "runs.updated_at", "tasks.created_at",
           "tasks.updated_at", "retries", "attempts", "runs.progress", "tags"}
BY DEF Final, ColumnsOf

(* All the columns there ever are. *)
LEMMA ColumnsAre ==
  Columns = {"runs", "tasks", "jobs", "name", "status", "payload", "run_state",
             "attempts", "schedule", "locked_at", "job", "args", "source", "cron",
             "key", "updated_at", "runs.updated_at", "tasks.created_at",
             "tasks.updated_at", "retries", "runs.progress", "tags"}
BY DEF Columns, ColumnsOf

(* What has been given before the first statement, and after one more. *)
LEMMA GivenGrows ==
  ASSUME NEW v \in Versions
  PROVE  /\ Given(v, 1) = {}
         /\ \A n \in 1 .. Len(Migration[v]) :
              Given(v, n + 1) = Given(v, n) \cup Gives(Migration[v][n])
         /\ \A n \in 1 .. Len(Migration[v]) : Given(v, n) \subseteq Lasting(v)
<1>1. Given(v, 1) = {}
  BY DEF Given
<1>2. ASSUME NEW n \in 1 .. Len(Migration[v])
      PROVE  Given(v, n + 1) = Given(v, n) \cup Gives(Migration[v][n])
  <2>1. n \in Nat /\ n >= 1
    BY DEF Versions
  <2>2. 1 .. ((n + 1) - 1) = (1 .. (n - 1)) \cup {n}
    BY <2>1
  <2>. QED  BY <2>2 DEF Given
<1>3. ASSUME NEW n \in 1 .. Len(Migration[v]), NEW c \in Given(v, n)
      PROVE  c \in Lasting(v)
  <2>1. PICK m \in 1 .. (n - 1) : c \in Gives(Migration[v][m])
    BY <1>3 DEF Given
  <2>2. m \in 1 .. Len(Migration[v])
    BY <2>1, StepsLength
  <2>3. KindInv(Migration[v][m], v, m)
    BY <2>2, Kinds
  <2>. QED  BY <2>1, <2>3, Statements DEF KindInv, Gives, Lasting
<1>. QED  BY <1>1, <1>2, <1>3

\* What statement s, the nth of step v, does to the columns before.
MovesOn(s, v, n, before, after) ==
  /\ \A c \in Kept(v, n) : c \in before => c \in after
  /\ Gives(s) \subseteq after
  /\ "jobs" \in before =>
       /\ "jobs" \in after
       /\ "status" \in before => "status" \in after
       /\ "name" \in before \/ "job" \in before => "name" \in after \/ "job" \in after
       /\ "payload" \in before \/ "args" \in before =>
            "payload" \in after \/ "args" \in after
       /\ "run_state" \in after => "run_state" \in before
       /\ "schedule" \in after => "schedule" \in before
       /\ v # 4 \/ n # 15 => ("schedule" \in before => "schedule" \in after)
  /\ "jobs" \in after /\ "jobs" \notin before => ColumnsOf("jobs") \subseteq after

(* It is so of every statement that does not fail. *)
LEMMA ColumnsMove ==
  ASSUME NEW v \in Versions, NEW n \in 1 .. Len(Migration[v]),
         NEW d \in Database, NEW s, s = Migration[v][n], ~Fails(s, v, d)
  PROVE  /\ MovesOn(s, v, n, d.cols, Effect(s, v, d).cols)
         /\ Effect(s, v, d).cols \subseteq Columns
<1>. DEFINE e == Effect(s, v, d)
<1>1. KindInv(s, v, n) /\ d.cols \subseteq Columns
  BY Kinds DEF Database, Columns
<1>2. CASE s.op = "create"
  <2>1. e.cols = IF s.on \in d.cols THEN d.cols ELSE d.cols \cup ColumnsOf(s.on)
    BY <1>2 DEF Effect, Database
  <2>2. s.on = "jobs" \/ s.on \in {"runs", "tasks"}
    BY <1>1, <1>2, Statements DEF KindInv
  <2>3. Gives(s) \subseteq {s.on}
    BY <1>2 DEF Gives
  <2>4. ColumnsOf(s.on) \subseteq Columns /\ s.on \in ColumnsOf(s.on)
    BY <2>2, ColumnsAre DEF ColumnsOf
  <2>5. s.on \in {"runs", "tasks"} => ColumnsOf(s.on) = {s.on}
    BY DEF ColumnsOf
  <2>. QED  BY <1>1, <2>1, <2>2, <2>3, <2>4, <2>5 DEF MovesOn
<1>3. CASE s.op = "add"
  <2>1. e.cols = d.cols \cup {s.on}
    BY <1>3 DEF Effect, Database
  <2>2. Gives(s) \subseteq {s.on}
    BY <1>3 DEF Gives
  <2>3. s.on \in Columns /\ s.on \notin {"jobs", "run_state", "schedule"}
    BY <1>1, <1>3, ColumnsAre DEF KindInv
  <2>. QED  BY <1>1, <2>1, <2>2, <2>3 DEF MovesOn
<1>4. CASE s.op = "rename"
  <2>1. e.cols = (d.cols \ {s.on}) \cup {s.to}
    BY <1>4 DEF Effect, Database
  <2>2. Gives(s) \subseteq {s.to}
    BY <1>4 DEF Gives
  <2>3. \/ s.on = "name" /\ s.to = "job"
        \/ s.on = "payload" /\ s.to = "args"
    BY <1>1, <1>4, Statements DEF KindInv
  <2>4. s.on \notin Final /\ s.to \in Columns
    BY <2>3, FinalIs, ColumnsAre
  <2>. QED  BY <1>1, <2>1, <2>2, <2>3, <2>4 DEF MovesOn, Kept
<1>5. CASE s.op = "drop"
  <2>1. e.cols = d.cols \ {s.on}
    BY <1>5 DEF Effect, Database
  <2>2. Gives(s) = {}
    BY <1>5 DEF Gives
  <2>3. s.on \in {"schedule", "run_state", "attempts", "locked_at", "cron"}
    BY <1>1, <1>5 DEF KindInv
  <2>4. s.on \notin Kept(v, n)
    BY <1>1, <1>5, <2>3, FinalIs DEF KindInv, Kept
  <2>5. (v # 4 \/ n # 15) => s.on # "schedule"
    BY <1>1, <1>5 DEF KindInv
  <2>. QED  BY <1>1, <2>1, <2>2, <2>3, <2>4, <2>5 DEF MovesOn
<1>6. CASE s.op \notin {"create", "add", "rename", "drop"}
  <2>1. e.cols = d.cols
    BY <1>6 DEF Effect, Database
  <2>2. Gives(s) = {}
    BY <1>6 DEF Gives
  <2>. QED  BY <1>1, <2>1, <2>2 DEF MovesOn
<1>. QED  BY <1>2, <1>3, <1>4, <1>5, <1>6

-----------------------------------------------------------------------------
(* What a statement does to the rest.                                       *)

(* Most statements write to the schema only. *)
LEMMA Untouched ==
  ASSUME NEW v \in Versions, NEW d \in Database, NEW s
  PROVE  /\ Effect(s, v, d).present = d.present
         /\ s.op # "record" => Effect(s, v, d).applied = d.applied
         /\ s.op = "record" => /\ Effect(s, v, d).applied = d.applied \cup {v}
                               /\ Effect(s, v, d).cols = d.cols
         /\ s.op \notin {"split", "collapse"} => Effect(s, v, d).rows = d.rows
         /\ s.op \notin {"backfill", "toReady"} => Effect(s, v, d).runs = d.runs
BY DEF Effect, Database

(* The few that write rows turn one kind of table into the next. *)
LEMMA DataMove ==
  ASSUME NEW v, NEW d \in Database, NEW s
  PROVE  LET e == Effect(s, v, d) IN
         /\ s.op = "split" /\ d.rows = RowsLegacy => e.rows = RowsSplit
         /\ s.op = "collapse" /\ d.rows = RowsSplit => e.rows = RowsNew
         /\ s.op = "backfill" /\ d.rows = RowsSplit /\ d.runs = {} =>
              e.runs = RunsOf(d.present, "pending")
         /\ s.op = "toReady" /\ d.runs = RunsOf(d.present, "pending") =>
              e.runs = RunsOf(d.present, "ready")
         /\ s.op = "toReady" /\ d.runs = RunsOf(d.present, "ready") =>
              e.runs = RunsOf(d.present, "ready")
<1>. DEFINE e == Effect(s, v, d)
<1>1. ASSUME s.op = "split", d.rows = RowsLegacy  PROVE e.rows = RowsSplit
  <2>1. e.rows = [r \in Rows |->
           IF Legacy[r].schedule THEN [d.rows[r] EXCEPT !.source = "scheduled"]
           ELSE d.rows[r]]
    BY <1>1 DEF Effect, Database
  <2>. QED  BY <1>1, <2>1 DEF RowsLegacy, RowsSplit, SourceOf
<1>2. ASSUME s.op = "collapse", d.rows = RowsSplit  PROVE e.rows = RowsNew
  <2>1. e.rows = [r \in Rows |->
           [d.rows[r] EXCEPT !.status = IF @ = "cancelled" THEN @ ELSE "active"]]
    BY <1>2 DEF Effect, Database
  <2>. QED  BY <1>2, <2>1 DEF RowsNew, RowsSplit
<1>3. ASSUME s.op = "backfill", d.rows = RowsSplit, d.runs = {}
      PROVE  e.runs = RunsOf(d.present, "pending")
  <2>1. e.runs = Backfilled(d, Cardinality({}) + 1)
    BY <1>3 DEF Effect, Database
  <2>2. Cardinality({}) + 1 = 1
    BY FS_EmptySet
  <2>3. \A r \in d.present :
          [job |-> r, nth |-> 1,
           status |-> IF d.rows[r].status = "running" THEN "pending"
                      ELSE d.rows[r].status] = RunOfRow(r, "pending")
    BY <1>3 DEF RowsSplit, RunOfRow, Database
  <2>. QED  BY <2>1, <2>2, <2>3 DEF Backfilled, RunsOf
<1>4. ASSUME s.op = "toReady"
      PROVE  e.runs = {[x EXCEPT !.status = IF @ = "pending" THEN "ready" ELSE @]
                         : x \in d.runs}
  BY <1>4 DEF Effect, Database
<1>5. ASSUME NEW r \in Rows
      PROVE  \A x : x \in {RunOfRow(r, "pending"), RunOfRow(r, "ready")} =>
               [x EXCEPT !.status = IF @ = "pending" THEN "ready" ELSE @]
                 = RunOfRow(r, "ready")
  BY DEF RunOfRow
<1>6. d.present \subseteq Rows
  BY DEF Database
<1>7. ASSUME s.op = "toReady", d.runs = RunsOf(d.present, "pending")
      PROVE  e.runs = RunsOf(d.present, "ready")
  BY <1>4, <1>5, <1>6, <1>7 DEF RunsOf
<1>8. ASSUME s.op = "toReady", d.runs = RunsOf(d.present, "ready")
      PROVE  e.runs = RunsOf(d.present, "ready")
  BY <1>4, <1>5, <1>6, <1>8 DEF RunsOf
<1>. QED  BY <1>1, <1>2, <1>3, <1>7, <1>8

(* A statement that does not fail keeps the types. *)
LEMMA TypesMove ==
  ASSUME NEW v \in Versions, NEW n \in 1 .. Len(Migration[v]),
         NEW d \in Database, NEW s, s = Migration[v][n], ~Fails(s, v, d),
         s.op = "backfill" => d.rows = RowsSplit /\ d.runs = {}
  PROVE  Effect(s, v, d) \in Database
<1>. SUFFICES ASSUME NEW e, e = Effect(s, v, d)
              PROVE  e \in Database
  OBVIOUS
<1>1. KindInv(s, v, n)
  BY Kinds
<1>2. e.cols \subseteq Columns
  BY ColumnsMove
<1>3. e.indexes \subseteq {"scheduled_at", "name_schedule", "name"}
  BY <1>1 DEF Effect, Database, KindInv
<1>4. e.applied \subseteq Versions /\ e.present \subseteq Rows
  BY DEF Effect, Database
<1>5. e.rows \in [Rows -> [status : LegacyStatus \cup {"active"},
                           source : {"on_demand", "scheduled"}]]
  BY DEF Effect, Database
<1>6. e.runs \subseteq [job : Rows, nth : Nat, status : LegacyStatus \cup {"ready"}]
  <2>1. CASE s.op = "backfill"
    <3>1. e.runs = RunsOf(d.present, "pending")
      BY <2>1, DataMove
    <3>. QED  BY <3>1, MigrationsAssumption DEF RunsOf, RunOfRow, Database, LegacyStatus
  <2>2. CASE s.op = "toReady"
    BY <2>2 DEF Effect, Database
  <2>3. CASE s.op \notin {"backfill", "toReady"}
    <3>1. e.runs = d.runs
      BY <2>3, Untouched
    <3>. QED  BY <3>1 DEF Database
  <2>. QED  BY <2>1, <2>2, <2>3
<1>7. e = [cols |-> e.cols, indexes |-> e.indexes, applied |-> e.applied,
           present |-> e.present, rows |-> e.rows, runs |-> e.runs]
  BY DEF Effect, Database
<1>. QED  BY <1>2, <1>3, <1>4, <1>5, <1>6, <1>7 DEF Database, Columns

-----------------------------------------------------------------------------
(* What the invariant says of a process at work.                            *)

(* A process at work is at a statement of a step, of a known kind. *)
LEMMA AtStatement ==
  ASSUME MigTypes, NEW x \in Runners, runner[x].up
  PROVE  LET v == runner[x].version  n == runner[x].at IN
         /\ v \in Versions /\ v \in 1 .. 10
         /\ n \in 1 .. Len(Migration[v]) /\ n \in Nat /\ Len(Migration[v]) \in Nat
         /\ KindInv(Statement(x), v, n)
         /\ Statement(x) = Migration[v][n]
<1>1. runner[x].version \in Versions
      /\ runner[x].at \in 1 .. Len(Migration[runner[x].version])
  BY DEF MigTypes
<1>2. Len(Migration[runner[x].version]) \in Nat
  BY <1>1, StepsLength
<1>3. runner[x].at \in Nat
  BY <1>1, <1>2
<1>. QED  BY <1>1, <1>2, <1>3, Kinds, AllSteps DEF Statement

(* What it sees is a database with what its versions promise. *)
LEMMA AtDatabase ==
  ASSUME MigInv, NEW x \in Runners
  PROVE  /\ Visible(x) \in Database
         /\ Visible(x).applied = Applied /\ Visible(x).present = committed.present
         /\ Promised(Visible(x))
BY DEF MigInv, MigTypes, LockInv, SchemaInv, Visible, Applied

(* Past its first statement there is a jobs table. *)
LEMMA JobsThere ==
  ASSUME MigInv, NEW x \in Runners, runner[x].up,
         runner[x].version > 1 \/ runner[x].at > 1
  PROVE  "jobs" \in Visible(x).cols
<1>. DEFINE v == runner[x].version  n == runner[x].at
<1>1. /\ v \in Versions /\ v \in 1 .. 10 /\ n \in Nat
      /\ n \in 1 .. Len(Migration[v])
  BY AtStatement DEF MigInv
<1>2. CASE v > 1
  <2>1. 1 \in Applied
    BY <1>1, <1>2 DEF MigInv, OrderInv
  <2>. QED  BY <2>1, AtDatabase DEF Promised
<1>3. CASE v = 1 /\ n > 1
  <2>1. Migration[1][1] = Create("jobs")
    BY Step1
  <2>2. "jobs" \in Gives(Migration[1][1])
    BY <2>1, Statements, FinalIs DEF Gives
  <2>3. "jobs" \in Given(v, n)
    BY <1>1, <1>3, <2>2 DEF Given
  <2>. QED  BY <2>3 DEF MigInv, SightInv
<1>. QED  BY <1>1, <1>2, <1>3

-----------------------------------------------------------------------------
(* The initial states.                                                      *)

(* The first three steps promise no more than the jobs table. *)
LEMMA FirstThree ==
  ASSUME NEW v \in 1 .. 3
  PROVE  Given(v, Len(Migration[v])) \subseteq {"jobs"}
<1>1. CASE v = 1
  BY <1>1, Step1, Statements DEF Given, Gives
<1>2. CASE v = 2
  BY <1>2, Step2, Statements DEF Given, Gives
<1>3. CASE v = 3
  <2>1. Gives(Inspect("jobs")) = {} /\ Gives(Add("locked_at")) = {}
    BY Statements, FinalIs DEF Gives
  <2>2. \A m \in 1 .. (3 - 1) : Gives(Migration[3][m]) = {}
    BY <2>1, Step3
  <2>. QED  BY <1>3, <2>2, Step3 DEF Given
<1>. QED  BY <1>1, <1>2, <1>3

(* It holds of every database that migrate() can find. *)
LEMMA InitMigInv ==
  ASSUME MigInit
  PROVE  MigInv
<1>1. PICK cols \in {{}, ColumnsOf("jobs"), ColumnsOf("jobs") \cup {"locked_at"}},
           applied \in {{}, 1 .. 3} :
        /\ applied = 1 .. 3 => "locked_at" \in cols
        /\ db = [cols    |-> cols,
                 indexes |-> IF applied # {} THEN {"scheduled_at", "name_schedule"}
                             ELSE IF cols = {} THEN {} ELSE {"name"},
                 applied |-> applied,
                 present |-> IF cols = {} THEN {} ELSE Rows,
                 rows    |-> [r \in Rows |-> [status |-> Legacy[r].status,
                                              source |-> "on_demand"]],
                 runs    |-> {}]
  BY DEF MigInit, InitialDatabase
<1>2. committed = db /\ writer = None /\ runner = [x \in Runners |-> Down] /\ crashes = 0
  BY DEF MigInit
<1>3. \A x \in Runners : ~runner[x].up
  BY <1>2 DEF Down
<1>4. cols \subseteq Columns
  BY ColumnsAre DEF ColumnsOf
<1>5. db.rows = RowsLegacy /\ db.runs = {} /\ db.applied = applied /\ db.cols = cols
  BY <1>1 DEF RowsLegacy
<1>6. MigTypes
  <2>1. applied \subseteq Versions
    BY AllSteps
  <2>2. db.rows \in [Rows -> [status : LegacyStatus \cup {"active"},
                              source : {"on_demand", "scheduled"}]]
    BY <1>5, MigrationsAssumption DEF RowsLegacy
  <2>3. db \in Database
    BY <1>1, <1>4, <2>1, <2>2 DEF Database, Columns
  <2>4. runner \in [Runners -> [up : BOOLEAN, version : Nat, at : Nat,
                                columns : SUBSET Columns]]
    BY <1>2 DEF Down
  <2>. QED  BY <1>2, <1>3, <2>3, <2>4 DEF MigTypes
<1>7. LockInv
  BY <1>2 DEF LockInv
<1>8. OrderInv
  <2>1. applied = 1 .. 0 \/ applied = 1 .. 3
    OBVIOUS
  <2>. QED  BY <1>2, <1>3, <1>5, <2>1 DEF OrderInv, Applied
<1>9. SchemaInv
  <2>1. 4 \notin applied /\ \A v \in applied : v \in 1 .. 3
    OBVIOUS
  <2>2. "jobs" \in cols => {"status", "name", "payload", "schedule"} \subseteq cols
    BY DEF ColumnsOf
  <2>3. applied # {} => "jobs" \in cols
    BY <1>1 DEF ColumnsOf
  <2>. QED  BY <1>2, <1>5, <2>1, <2>2, <2>3, FirstThree DEF SchemaInv, Promised, Applied
<1>10. DataInv
  <2>1. 4 \notin applied /\ 8 \notin applied
    OBVIOUS
  <2>. QED  BY <1>2, <1>5, <2>1 DEF DataInv, Applied, RowsIn, RunsIn
<1>. QED  BY <1>3, <1>6, <1>7, <1>8, <1>9, <1>10 DEF MigInv

-----------------------------------------------------------------------------
(* The steps that write nothing.                                            *)

(* The highest version is the number of steps recorded. *)
LEMMA CurrentIs ==
  ASSUME NEW d, NEW k \in 0 .. 10, d.applied = 1 .. k
  PROVE  Current(d) = k
<1>1. CASE k = 0
  BY <1>1 DEF Current
<1>2. CASE k > 0
  <2>1. d.applied # {} /\ k \in d.applied /\ \A u \in d.applied : u <= k
    BY <1>2
  <2>2. ASSUME NEW v \in d.applied, \A u \in d.applied : u <= v
        PROVE  v = k
    <3>1. v <= k /\ k <= v /\ v \in Nat
      BY <2>1, <2>2
    <3>. QED  BY <3>1
  <2>. QED  BY <2>1, <2>2 DEF Current
<1>. QED  BY <1>1, <1>2

(* A process that begins is at the step after the last one recorded. *)
LEMMA BeginKeeps ==
  ASSUME MigInv, NEW x \in Runners, Begin(x)
  PROVE  MigInv'
<1>. USE DEF MigInv
<1>1. PICK k \in 0 .. 10 : Applied = 1 .. k
  BY DEF OrderInv
<1>2. Current(committed) = k /\ k < 10
  <2>1. Current(committed) = k
    BY <1>1, CurrentIs DEF Applied
  <2>. QED  BY <2>1, AllSteps DEF Begin
<1>3. /\ runner' = [runner EXCEPT ![x] = [Down EXCEPT !.up = TRUE, !.version = k + 1]]
      /\ db' = db /\ committed' = committed /\ writer' = writer /\ crashes' = crashes
      /\ ~runner[x].up
  BY <1>2 DEF Begin
<1>4. /\ runner'[x] = [up |-> TRUE, version |-> k + 1, at |-> 1, columns |-> {}]
      /\ \A y \in Runners : y # x => runner'[y] = runner[y]
  BY <1>3 DEF MigTypes, Down
<1>5. /\ k + 1 \in Versions /\ k + 1 \in 1 .. 10
      /\ 1 \in 1 .. Len(Migration[k + 1])
  <2>1. k + 1 \in Versions
    BY <1>2, AllSteps
  <2>. QED  BY <2>1, <1>2, StepsLength
<1>6. MigTypes'
  <2>1. [up |-> TRUE, version |-> k + 1, at |-> 1, columns |-> {}]
          \in [up : BOOLEAN, version : Nat, at : Nat, columns : SUBSET Columns]
    OBVIOUS
  <2>2. runner' \in [Runners -> [up : BOOLEAN, version : Nat, at : Nat,
                                 columns : SUBSET Columns]]
    BY <1>3, <1>4, <2>1 DEF MigTypes
  <2>3. \A y \in Runners : runner'[y].up =>
          /\ runner'[y].version \in Versions
          /\ runner'[y].at \in 1 .. Len(Migration[runner'[y].version])
    BY <1>4, <1>5 DEF MigTypes
  <2>. QED  BY <1>3, <2>2, <2>3 DEF MigTypes
<1>7. writer # x
  BY <1>3, MigrationsAssumption DEF LockInv
<1>8. LockInv'
  BY <1>3, <1>4, <1>7 DEF LockInv, MigTypes
<1>9. Applied' = Applied /\ \A y \in Runners : Visible(y)' = Visible(y)
  BY <1>3 DEF Applied, Visible
<1>10. OrderInv'
  <2>1. ASSUME NEW y \in Runners, runner'[y].up, NEW v \in 1 .. 10,
               v < runner'[y].version
        PROVE  v \in Applied
    <3>1. CASE y = x
      BY <1>1, <1>4, <2>1, <3>1
    <3>2. CASE y # x
      BY <1>4, <2>1, <3>2 DEF OrderInv
    <3>. QED  BY <3>1, <3>2
  <2>. QED  BY <1>1, <1>9, <2>1 DEF OrderInv
<1>11. SchemaInv' /\ DataInv'
  BY <1>3 DEF SchemaInv, Promised, DataInv, Applied
<1>12. ASSUME NEW y \in Runners, runner'[y].up, y # x
       PROVE  (SightInv(y) /\ StepFourInv(y) /\ SeenDataInv(y))'
  <2>1. SightInv(y) /\ StepFourInv(y) /\ SeenDataInv(y)
    BY <1>4, <1>12
  <2>. QED  BY <1>3, <1>4, <1>9, <1>12, <2>1
            DEF SightInv, StepFourInv, SeenDataInv
<1>13. (SightInv(x) /\ StepFourInv(x) /\ SeenDataInv(x))'
  <2>1. Visible(x)' = committed
    BY <1>3, <1>7 DEF Visible
  <2>2. SightInv(x)'
    BY <1>1, <1>4, <1>5, <1>9, <2>1, GivenGrows DEF SightInv, SchemaInv
  <2>3. StepFourInv(x)'
    BY <1>4 DEF StepFourInv
  <2>4. SeenDataInv(x)'
    <3>1. RowsAt(Applied, k + 1, 1) = RowsIn(Applied)
      BY DEF RowsAt, RowsIn
    <3>2. RunsAt(Applied, committed.present, k + 1, 1) = RunsIn(Applied, committed.present)
      BY DEF RunsAt
    <3>3. runner'[x].version = k + 1 /\ runner'[x].at = 1
      BY <1>4
    <3>4. committed.rows = RowsIn(Applied)
          /\ committed.runs = RunsIn(Applied, committed.present)
      BY DEF DataInv
    <3>. QED  BY <1>3, <1>9, <2>1, <3>1, <3>2, <3>3, <3>4 DEF SeenDataInv
  <2>. QED  BY <2>2, <2>3, <2>4
<1>. QED  BY <1>6, <1>8, <1>10, <1>11, <1>12, <1>13

(* Look and Skip move one process on; the rest is as before. *)
LEMMA PassKeeps ==
  ASSUME MigInv, NEW x \in Runners, runner[x].up,
         NEW row \in [up : BOOLEAN, version : Nat, at : Nat, columns : SUBSET Columns],
         row.up, row.version = runner[x].version, row.at = runner[x].at + 1,
         runner' = [runner EXCEPT ![x] = row],
         Statement(x).op # "record",
         UNCHANGED <<db, committed, writer, crashes>>,
         (SightInv(x) /\ StepFourInv(x) /\ SeenDataInv(x))'
  PROVE  MigInv'
<1>. USE DEF MigInv
<1>. DEFINE v == runner[x].version  n == runner[x].at
<1>1. /\ v \in Versions /\ n \in Nat
      /\ n \in 1 .. Len(Migration[v]) /\ Len(Migration[v]) \in Nat
      /\ KindInv(Statement(x), v, n)
  BY AtStatement
<1>2. n + 1 \in 1 .. Len(Migration[v])
  BY <1>1 DEF KindInv
<1>3. /\ db' = db /\ committed' = committed /\ writer' = writer /\ crashes' = crashes
      /\ runner'[x].up /\ runner'[x].version = v /\ runner'[x].at = n + 1
      /\ \A y \in Runners : y # x => runner'[y] = runner[y]
  BY DEF MigTypes
<1>4. MigTypes'
  <2>2. runner' \in [Runners -> [up : BOOLEAN, version : Nat, at : Nat,
                                 columns : SUBSET Columns]]
    BY DEF MigTypes
  <2>3. \A y \in Runners : runner'[y].up =>
          /\ runner'[y].version \in Versions
          /\ runner'[y].at \in 1 .. Len(Migration[runner'[y].version])
    BY <1>1, <1>2, <1>3 DEF MigTypes
  <2>. QED  BY <1>3, <2>2, <2>3 DEF MigTypes
<1>5. LockInv'
  <2>1. writer # None => runner'[writer].up
    BY <1>3 DEF LockInv, MigTypes
  <2>2. writer # None => /\ runner'[writer].version = runner[writer].version
                         /\ runner[writer].at > 17 => runner'[writer].at > 17
    BY <1>1, <1>3 DEF MigTypes
  <2>. QED  BY <1>3, <2>1, <2>2 DEF LockInv
<1>6. Applied' = Applied /\ \A y \in Runners : Visible(y)' = Visible(y)
  BY <1>3 DEF Applied, Visible
<1>7. OrderInv'
  BY <1>3, <1>6 DEF OrderInv
<1>8. SchemaInv' /\ DataInv'
  BY <1>3 DEF SchemaInv, Promised, DataInv, Applied
<1>9. ASSUME NEW y \in Runners, runner'[y].up, y # x
      PROVE  (SightInv(y) /\ StepFourInv(y) /\ SeenDataInv(y))'
  <2>1. SightInv(y) /\ StepFourInv(y) /\ SeenDataInv(y)
    BY <1>3, <1>9
  <2>. QED  BY <1>3, <1>6, <1>9, <2>1 DEF SightInv, StepFourInv, SeenDataInv
<1>. QED  BY <1>4, <1>5, <1>7, <1>8, <1>9

(* What a process sees when it inspects is so. *)
LEMMA LookKeeps ==
  ASSUME MigInv, NEW x \in Runners, Look(x)
  PROVE  MigInv'
<1>. USE DEF MigInv
<1>. DEFINE v == runner[x].version  n == runner[x].at
            new == ColumnsIn(Statement(x).on, Visible(x).cols)
            seen == runner[x].columns \cup new
<1>1. /\ v \in Versions /\ n \in Nat
      /\ n \in 1 .. Len(Migration[v]) /\ Len(Migration[v]) \in Nat
      /\ KindInv(Statement(x), v, n) /\ Statement(x) = Migration[v][n]
  BY AtStatement DEF Look
<1>a. new \subseteq Visible(x).cols
  BY DEF ColumnsIn
<1>2. /\ runner[x].up /\ Statement(x).op = "inspect"
      /\ db' = db /\ committed' = committed /\ writer' = writer
      /\ UNCHANGED <<db, committed, writer, crashes>>
  BY DEF Look
<1>3. PICK row : row = [runner[x] EXCEPT !.at = n + 1, !.columns = seen]
  OBVIOUS
<1>4. /\ row.up /\ row.version = v /\ row.at = n + 1 /\ row.columns = seen
      /\ row \in [up : BOOLEAN, version : Nat, at : Nat, columns : SUBSET Columns]
      /\ runner' = [runner EXCEPT ![x] = row] /\ runner'[x] = row
  <2>1. runner[x] \in [up : BOOLEAN, version : Nat, at : Nat, columns : SUBSET Columns]
    BY DEF MigTypes
  <2>2. seen \subseteq Columns
    BY <1>a, <2>1, AtDatabase DEF Database, Columns
  <2>3. /\ row.up = runner[x].up /\ row.version = v /\ row.at = n + 1
        /\ row.columns = seen
    BY <1>3, <2>1
  <2>4. row \in [up : BOOLEAN, version : Nat, at : Nat, columns : SUBSET Columns]
    <3>1. n + 1 \in Nat /\ seen \in SUBSET Columns
      BY <1>1, <2>2
    <3>. QED  BY <1>3, <2>1, <3>1
  <2>5. runner' = [runner EXCEPT ![x] = row]
    BY <1>3, <2>1 DEF Look, MigTypes
  <2>. QED  BY <1>2, <2>3, <2>4, <2>5 DEF MigTypes
<1>5. Promised(Visible(x))
  BY AtDatabase
<1>6. v = 4 => /\ n = 3 /\ "jobs" \in Visible(x).cols
               /\ \A c \in ColumnsOf("jobs") \cup {"job", "args"} :
                    c \in Visible(x).cols => c \in seen
  <2>1. v = 4 => n = 3 /\ Statement(x).on = "jobs" /\ "jobs" \in Visible(x).cols
    BY <1>1, <1>2, JobsThere DEF KindInv
  <2>. QED  BY <2>1 DEF ColumnsIn, ColumnsOf, RunColumns, TaskColumns
<1>7. v # 8
  BY <1>1, <1>2 DEF KindInv
<1>8. Visible(x)' = Visible(x) /\ Applied' = Applied
  BY <1>2 DEF Visible, Applied
<1>9. SightInv(x) /\ StepFourInv(x) /\ SeenDataInv(x)
  BY <1>2
<1>10. SightInv(x)'
  <2>1. Gives(Statement(x)) = {}
    BY <1>2 DEF Gives
  <2>2. Given(v, n + 1) = Given(v, n)
    BY <1>1, <2>1, GivenGrows
  <2>3. seen \cap Lasting(v) \subseteq Visible(x).cols
    BY <1>a, <1>9 DEF SightInv
  <2>4. v = 4 /\ n + 1 > 3 =>
          /\ "status" \in seen
          /\ "name" \in seen \/ "job" \in seen
          /\ "payload" \in seen \/ "args" \in seen
          /\ "schedule" \in Visible(x).cols => "schedule" \in seen
          /\ "run_state" \in Visible(x).cols => "run_state" \in seen
    BY <1>5, <1>6 DEF Promised, ColumnsOf
  <2>5. v = 4 => n = 3 /\ n <= 15
    BY <1>6
  <2>. QED  BY <1>1, <1>4, <1>8, <1>9, <2>2, <2>3, <2>4, <2>5 DEF SightInv
<1>11. StepFourInv(x)'
  BY <1>1, <1>2, <1>4, <1>6, <1>8, <1>9 DEF StepFourInv
<1>12. SeenDataInv(x)'
  <2>1. RowsAt(Applied, v, n + 1) = RowsAt(Applied, v, n)
    BY <1>1, <1>6 DEF RowsAt
  <2>2. RunsAt(Applied, committed.present, v, n + 1)
          = RunsAt(Applied, committed.present, v, n)
    BY <1>1, <1>6, <1>7 DEF RunsAt
  <2>. QED  BY <1>1, <1>2, <1>4, <1>7, <1>8, <1>9, <2>1, <2>2 DEF SeenDataInv
<1>. QED  BY <1>2, <1>4, <1>10, <1>11, <1>12, PassKeeps

(* Where statements stand in the fourth and the eighth step, a process that
   comes to the next one sees the same data, or its statement has changed it. *)
LEMMA DataAtNext ==
  ASSUME NEW v \in Versions, NEW n \in 1 .. Len(Migration[v]),
         NEW s, s = Migration[v][n], NEW applied, NEW present
  PROVE  /\ s.op \notin {"split", "collapse"} =>
              RowsAt(applied, v, n + 1) = RowsAt(applied, v, n)
         /\ s.op \notin {"backfill", "toReady", "record"} =>
              RunsAt(applied, present, v, n + 1) = RunsAt(applied, present, v, n)
<1>1. KindInv(s, v, n) /\ n \in Nat /\ Len(Migration[v]) \in Nat
  BY Kinds, StepsLength
<1>2. v = 4 /\ n = 12 => s.op = "split"
  BY <1>1 DEF KindInv
<1>3. v = 4 /\ n = 14 => s.op = "collapse"
  BY <1>1 DEF KindInv
<1>4. v = 4 /\ n = 13 => s.op = "backfill"
  BY <1>1 DEF KindInv
<1>5. v = 8 /\ n = 1 => s.op = "toReady"
  BY <1>1 DEF KindInv
<1>6. v = 8 => n \in {1, 2, 3} /\ (n = 3 => s.op = "record")
  <2>1. n = Len(Migration[v]) => s.op = "record"
    BY <1>1 DEF KindInv
  <2>2. SUFFICES ASSUME v = 8  PROVE n \in {1, 2, 3} /\ (n = 3 => s.op = "record")
    OBVIOUS
  <2>3. Len(Migration[v]) = 3
    BY <2>2, Step8
  <2>4. n \in 1 .. 3
    BY <2>3
  <2>. QED  BY <2>1, <2>3, <2>4
<1>7. ASSUME s.op \notin {"split", "collapse"}
      PROVE  RowsAt(applied, v, n + 1) = RowsAt(applied, v, n)
  BY <1>1, <1>2, <1>3, <1>7 DEF RowsAt
<1>8. ASSUME s.op \notin {"backfill", "toReady", "record"}
      PROVE  RunsAt(applied, present, v, n + 1) = RunsAt(applied, present, v, n)
  <2>1. CASE v = 8
    BY <1>5, <1>6, <1>8, <2>1 DEF RunsAt
  <2>2. CASE v # 8
    BY <1>1, <1>4, <1>8, <2>2 DEF RunsAt
  <2>. QED  BY <2>1, <2>2
<1>. QED  BY <1>7, <1>8

(* What a process skips has been done already. *)
LEMMA SkipKeeps ==
  ASSUME MigInv, NEW x \in Runners, Skip(x)
  PROVE  MigInv'
<1>. USE DEF MigInv
<1>. DEFINE v == runner[x].version  n == runner[x].at  seen == runner[x].columns
            s == Statement(x)
<1>1. /\ v \in Versions /\ n \in Nat /\ v \in 1 .. 10
      /\ n \in 1 .. Len(Migration[v]) /\ Len(Migration[v]) \in Nat
      /\ KindInv(s, v, n) /\ s = Migration[v][n]
  BY AtStatement DEF Skip
<1>2. /\ runner[x].up /\ Skips(x)
      /\ db' = db /\ committed' = committed /\ writer' = writer
      /\ UNCHANGED <<db, committed, writer, crashes>>
  BY DEF Skip
<1>3. PICK row : row = [runner[x] EXCEPT !.at = n + 1]
  OBVIOUS
<1>4. /\ row.up /\ row.version = v /\ row.at = n + 1 /\ row.columns = seen
      /\ row \in [up : BOOLEAN, version : Nat, at : Nat, columns : SUBSET Columns]
      /\ runner' = [runner EXCEPT ![x] = row] /\ runner'[x] = row
  <2>1. runner[x] \in [up : BOOLEAN, version : Nat, at : Nat, columns : SUBSET Columns]
    BY DEF MigTypes
  <2>2. row.up /\ row.version = v /\ row.at = n + 1 /\ row.columns = seen
    BY <1>2, <1>3, <2>1
  <2>3. row \in [up : BOOLEAN, version : Nat, at : Nat, columns : SUBSET Columns]
    BY <1>1, <1>3, <2>1
  <2>4. runner' = [runner EXCEPT ![x] = row]
    BY <1>3, <2>1 DEF Skip, Advance, MigTypes
  <2>. QED  BY <2>2, <2>3, <2>4 DEF MigTypes
<1>5. /\ s.op \in {"rename", "add", "drop", "split", "backfill", "collapse"}
      /\ s.op = "rename" => ~(s.on \in seen /\ s.to \notin seen)
      /\ s.op = "add" => s.on \in seen
      /\ s.op \in {"drop", "split", "backfill", "collapse"} => s.on \notin seen
  BY <1>2 DEF Skips
<1>6. Visible(x)' = Visible(x) /\ Applied' = Applied
  BY <1>2 DEF Visible, Applied
<1>7. SightInv(x) /\ StepFourInv(x) /\ SeenDataInv(x)
  BY <1>2
<1>8. v = 4 /\ n > 3 => "jobs" \in Visible(x).cols
  BY <1>2, JobsThere
<1>9. s.op \notin {"backfill", "collapse"}
  <2>1. s.op \in {"backfill", "collapse"} => v = 4 /\ n > 3 /\ s.on = "status"
    BY <1>1, Statements DEF KindInv
  <2>2. v = 4 /\ n > 3 => "status" \in seen
    BY <1>7 DEF SightInv
  <2>. QED  BY <1>5, <2>1, <2>2
<1>10. s.op = "split" => 4 \in Applied
  <2>1. ASSUME s.op = "split", 4 \notin Applied  PROVE FALSE
    <3>1. v = 4 /\ n = 12 /\ s.on = "schedule"
      BY <1>1, <2>1, Statements DEF KindInv
    <3>2. "schedule" \in Visible(x).cols
      BY <1>7, <1>8, <2>1, <3>1 DEF SightInv
    <3>. QED  BY <1>5, <1>7, <2>1, <3>1, <3>2 DEF SightInv
  <2>. QED  BY <2>1
<1>11. SightInv(x)'
  <2>1. Gives(s) \subseteq Visible(x).cols
    <3>1. CASE s.op = "rename"
      <4>0. /\ v = 4 /\ n > 3
            /\ s \in {Rename("name", "job"), Rename("payload", "args")}
        BY <1>1, <3>1 DEF KindInv
      <4>1. \/ s.on = "name" /\ s.to = "job"
            \/ s.on = "payload" /\ s.to = "args"
        BY <4>0, Statements
      <4>2. s.to \in seen
        BY <1>5, <1>7, <3>1, <4>0, <4>1 DEF SightInv
      <4>3. s.to \in Lasting(v)
        BY <4>0, <4>1, FinalIs DEF Lasting
      <4>4. Gives(s) \subseteq {s.to}
        BY <3>1 DEF Gives
      <4>. QED  BY <1>7, <4>2, <4>3, <4>4 DEF SightInv
    <3>2. CASE s.op = "add"
      <4>1. \A c \in Gives(s) : c = s.on /\ c \in Lasting(v)
        BY <1>1, <3>2 DEF KindInv, Gives, Lasting
      <4>. QED  BY <1>5, <1>7, <3>2, <4>1 DEF SightInv
    <3>3. CASE s.op \notin {"rename", "add"}
      BY <1>5, <3>3 DEF Gives
    <3>. QED  BY <3>1, <3>2, <3>3
  <2>2. Given(v, n + 1) \subseteq Visible(x).cols
    BY <1>1, <1>7, <2>1, GivenGrows DEF SightInv
  <2>3. n + 1 > 3 /\ v = 4 => n > 3
    BY <1>1, <1>5 DEF KindInv
  <2>4. n + 1 <= 15 => n <= 15
    BY <1>1
  <2>. QED  BY <1>1, <1>4, <1>6, <1>7, <2>2, <2>3, <2>4 DEF SightInv
<1>12. StepFourInv(x)'
  <2>1. SUFFICES ASSUME v = 4
                 PROVE  /\ n + 1 > 13 => 4 \notin Applied
                        /\ n + 1 > 12 /\ 4 \notin Applied => writer = x
                        /\ n + 1 > 15 => "schedule" \notin Visible(x).cols
                        /\ n + 1 > 16 => "run_state" \notin Visible(x).cols
    BY <1>2, <1>4, <1>6 DEF StepFourInv
  <2>2. n # 13 /\ (n = 12 => 4 \in Applied)
    BY <1>1, <1>9, <1>10, <2>1 DEF KindInv
  <2>3. n = 15 => "schedule" \notin seen
    BY <1>1, <1>5, <2>1, Statements DEF KindInv
  <2>4. n = 16 => "run_state" \notin seen
    BY <1>1, <1>5, <2>1, Statements DEF KindInv
  <2>5. n + 1 > 13 => 4 \notin Applied
    BY <1>1, <1>7, <2>1, <2>2 DEF StepFourInv
  <2>6. n + 1 > 12 /\ 4 \notin Applied => writer = x
    BY <1>1, <1>7, <2>1, <2>2 DEF StepFourInv
  <2>7. n + 1 > 15 => "schedule" \notin Visible(x).cols
    BY <1>1, <1>7, <2>1, <2>3 DEF StepFourInv, SightInv
  <2>8. n + 1 > 16 => "run_state" \notin Visible(x).cols
    BY <1>1, <1>7, <2>1, <2>4 DEF StepFourInv, SightInv
  <2>. QED  BY <2>5, <2>6, <2>7, <2>8
<1>13. SeenDataInv(x)'
  <2>1. v = 8 => n # 1
    BY <1>1, <1>5 DEF KindInv
  <2>2. RowsAt(Applied, v, n + 1) = RowsAt(Applied, v, n)
    <3>1. CASE s.op = "split"
      BY <1>10, <3>1 DEF RowsAt
    <3>2. CASE s.op # "split"
      BY <1>1, <1>9, <3>2, DataAtNext
    <3>. QED  BY <3>1, <3>2
  <2>3. RunsAt(Applied, committed.present, v, n + 1)
          = RunsAt(Applied, committed.present, v, n)
    BY <1>1, <1>5, <1>9, DataAtNext
  <2>. QED  BY <1>1, <1>2, <1>4, <1>6, <1>7, <2>1, <2>2, <2>3 DEF SeenDataInv
<1>. QED  BY <1>2, <1>4, <1>5, <1>11, <1>12, <1>13, PassKeeps

-----------------------------------------------------------------------------
(* A process that ends, and with it its transaction.                        *)

(* A process that raises or dies leaves what is committed. *)
LEMMA EndsKeeps ==
  ASSUME MigInv, NEW x \in Runners, runner[x].up, Ends(x),
         crashes' \in {crashes, crashes + 1}
  PROVE  MigInv'
<1>. USE DEF MigInv
<1>1. /\ runner' = [runner EXCEPT ![x] = Down] /\ committed' = committed
      /\ writer = x => db' = committed /\ writer' = None
      /\ writer # x => db' = db /\ writer' = writer
  BY DEF Ends
<1>2. /\ ~runner'[x].up
      /\ \A y \in Runners : y # x => runner'[y] = runner[y]
  BY <1>1 DEF MigTypes, Down
<1>3. x # None
  BY MigrationsAssumption
<1>4. MigTypes'
  <2>1. Down \in [up : BOOLEAN, version : Nat, at : Nat, columns : SUBSET Columns]
    BY DEF Down
  <2>2. runner' \in [Runners -> [up : BOOLEAN, version : Nat, at : Nat,
                                 columns : SUBSET Columns]]
    BY <1>1, <2>1 DEF MigTypes
  <2>3. \A y \in Runners : runner'[y].up =>
          /\ runner'[y].version \in Versions
          /\ runner'[y].at \in 1 .. Len(Migration[runner'[y].version])
    BY <1>2 DEF MigTypes
  <2>4. crashes' \in Nat /\ db' \in Database /\ committed' \in Database
        /\ writer' \in Runners \cup {None}
    BY <1>1 DEF MigTypes
  <2>. QED  BY <2>2, <2>3, <2>4 DEF MigTypes
<1>5. LockInv'
  <2>1. CASE writer = x
    BY <1>1, <2>1 DEF LockInv
  <2>2. CASE writer # x
    <3>1. writer # None => writer \in Runners /\ runner'[writer] = runner[writer]
      BY <1>2, <2>2 DEF MigTypes
    <3>. QED  BY <1>1, <2>2, <3>1 DEF LockInv
  <2>. QED  BY <2>1, <2>2
<1>6. Applied' = Applied /\ \A y \in Runners : y # x => Visible(y)' = Visible(y)
  BY <1>1, <1>3 DEF Applied, Visible, LockInv
<1>7. OrderInv'
  BY <1>2, <1>6 DEF OrderInv
<1>8. SchemaInv' /\ DataInv'
  BY <1>1 DEF SchemaInv, Promised, DataInv, Applied
<1>9. ASSUME NEW y \in Runners, runner'[y].up
      PROVE  (SightInv(y) /\ StepFourInv(y) /\ SeenDataInv(y))'
  <2>1. y # x /\ runner'[y] = runner[y]
    BY <1>2, <1>9
  <2>2. SightInv(y) /\ StepFourInv(y) /\ SeenDataInv(y)
    BY <1>9, <2>1
  <2>3. writer = y => writer' = y
    BY <1>1, <2>1
  <2>. QED  BY <1>1, <1>6, <2>1, <2>2, <2>3
            DEF SightInv, StepFourInv, SeenDataInv
<1>. QED  BY <1>4, <1>5, <1>7, <1>8, <1>9

-----------------------------------------------------------------------------
(* A statement.                                                             *)

\* What an execution of the nth statement s of step v by x does.
Executes(x, s, v, n) ==
  /\ runner[x].up /\ v = runner[x].version /\ n = runner[x].at
  /\ s.op \notin {"inspect", "record"} /\ writer \in {None, x}
  /\ ~Fails(s, v, db) /\ db' = Effect(s, v, db)
  /\ \/ writer' = x /\ committed' = committed
     \/ writer = None /\ writer' = None /\ committed' = db' /\ s.op \notin DML
  /\ crashes' = crashes

(* Execute, in one row of the runner. *)
LEMMA ExecuteShape ==
  ASSUME MigInv, NEW x \in Runners, Execute(x)
  PROVE  LET v == runner[x].version  n == runner[x].at IN
         /\ Executes(x, Statement(x), v, n)
         /\ runner' \in [Runners -> [up : BOOLEAN, version : Nat, at : Nat,
                                     columns : SUBSET Columns]]
         /\ runner'[x].up /\ runner'[x].version = v /\ runner'[x].at = n + 1
         /\ runner'[x].columns = runner[x].columns
         /\ \A y \in Runners : y # x => runner'[y] = runner[y]
         /\ n + 1 \in 1 .. Len(Migration[v])
<1>. USE DEF MigInv
<1>. DEFINE v == runner[x].version  n == runner[x].at
<1>1. /\ n \in Nat /\ n \in 1 .. Len(Migration[v]) /\ Len(Migration[v]) \in Nat
      /\ KindInv(Statement(x), v, n)
  BY AtStatement DEF Execute
<1>2. Executes(x, Statement(x), v, n)
  BY DEF Execute, Executes, Opens
<1>3. n + 1 \in 1 .. Len(Migration[v])
  BY <1>1, <1>2 DEF KindInv, Executes
<1>4. runner[x] \in [up : BOOLEAN, version : Nat, at : Nat, columns : SUBSET Columns]
  BY DEF MigTypes
<1>5. PICK row : row = [runner[x] EXCEPT !.at = n + 1]
  OBVIOUS
<1>6. /\ row.up = runner[x].up /\ row.version = v /\ row.at = n + 1
      /\ row.columns = runner[x].columns
  BY <1>4, <1>5
<1>7. row \in [up : BOOLEAN, version : Nat, at : Nat, columns : SUBSET Columns]
  <2>1. n + 1 \in Nat
    BY <1>1
  <2>. QED  BY <1>4, <1>5, <2>1
<1>8. runner' = [runner EXCEPT ![x] = row]
  BY <1>5 DEF Execute, Advance, MigTypes
<1>. QED  BY <1>2, <1>3, <1>6, <1>7, <1>8 DEF MigTypes, Executes

(* What the databases are after it. *)
LEMMA ExecuteMoves ==
  ASSUME MigInv, NEW x \in Runners, NEW s, NEW v, NEW n,
         s = Statement(x), Executes(x, s, v, n)
  PROVE  /\ v \in Versions /\ v \in 1 .. 10 /\ n \in Nat
         /\ n \in 1 .. Len(Migration[v]) /\ Len(Migration[v]) \in Nat
         /\ s = Migration[v][n] /\ KindInv(s, v, n)
         /\ Visible(x) = db /\ Visible(x)' = db'
         /\ \A y \in Runners : y # x => Visible(y) = committed /\ Visible(y)' = committed'
         /\ MovesOn(s, v, n, db.cols, db'.cols)
         /\ db'.applied = Applied /\ Applied' = Applied
         /\ db'.present = committed.present /\ committed'.present = committed.present
         /\ s.op \in {"split", "backfill"} => 4 \notin Applied
         /\ writer = None => db = committed /\ ~(v = 4 /\ n > 13)
<1>. USE DEF MigInv
<1>1. /\ v \in Versions /\ v \in 1 .. 10 /\ n \in Nat
      /\ n \in 1 .. Len(Migration[v]) /\ Len(Migration[v]) \in Nat
      /\ s = Migration[v][n] /\ KindInv(s, v, n)
  BY AtStatement DEF Executes
<1>2. x # None /\ db \in Database /\ db.applied = Applied /\ Promised(db)
  BY MigrationsAssumption DEF MigTypes, LockInv, SchemaInv, Applied
<1>3. writer = None => db = committed
  BY DEF LockInv
<1>4. Visible(x) = db /\ Visible(x)' = db'
  BY <1>2, <1>3 DEF Visible, Executes
<1>5. \A y \in Runners : y # x => Visible(y) = committed /\ Visible(y)' = committed'
  <2>1. \A y \in Runners : y # None
    BY MigrationsAssumption
  <2>. QED  BY <2>1 DEF Visible, Executes
<1>6. MovesOn(s, v, n, db.cols, db'.cols)
  BY <1>1, <1>2, ColumnsMove DEF Executes
<1>7. db'.applied = db.applied /\ db'.present = db.present
  <2>1. db' = Effect(s, v, db) /\ s.op # "record"
    BY DEF Executes
  <2>. QED  BY <1>1, <1>2, <2>1, Untouched
<1>8. /\ db.present = committed.present
      /\ committed' = committed \/ committed' = db'
  BY DEF Executes, LockInv
<1>9. s.op \in {"split", "backfill"} => 4 \notin Applied
  <2>1. ASSUME s.op = "split"  PROVE "schedule" \in db.cols
    BY <2>1 DEF Executes, Fails
  <2>2. ASSUME s.op = "backfill"  PROVE "run_state" \in db.cols
    BY <2>2 DEF Executes, Fails
  <2>. QED  BY <1>2, <2>1, <2>2 DEF Promised
<1>10. writer = None => ~(v = 4 /\ n > 13)
  <2>1. ASSUME v = 4, n > 13  PROVE writer = x
    <3>1. StepFourInv(x) /\ runner[x].version = 4 /\ runner[x].at = n
      BY <2>1 DEF Executes
    <3>. QED  BY <1>1, <2>1, <3>1 DEF StepFourInv
  <2>. QED  BY <1>2, <2>1
<1>. QED  BY <1>1, <1>2, <1>3, <1>4, <1>5, <1>6, <1>7, <1>8, <1>9, <1>10 DEF Applied

(* The rows and the runs after it. *)
LEMMA ExecuteData ==
  ASSUME MigInv, NEW x \in Runners, NEW s, NEW v, NEW n,
         s = Statement(x), Executes(x, s, v, n)
  PROVE  /\ db' \in Database /\ committed' \in Database
         /\ db'.rows = RowsAt(Applied, v, n + 1)
         /\ db'.runs = RunsAt(Applied, committed.present, v, n + 1)
         /\ committed'.rows = committed.rows /\ committed'.runs = committed.runs
<1>. USE DEF MigInv
<1>1. /\ v \in Versions /\ v \in 1 .. 10 /\ n \in Nat
      /\ n \in 1 .. Len(Migration[v]) /\ Len(Migration[v]) \in Nat
      /\ s = Migration[v][n] /\ KindInv(s, v, n)
      /\ Visible(x) = db
      /\ s.op \in {"split", "backfill"} => 4 \notin Applied
      /\ writer = None => db = committed
  BY ExecuteMoves
<1>2. /\ db.rows = RowsAt(Applied, v, n)
      /\ db.runs = RunsAt(Applied, committed.present, v, n)
      /\ db \in Database /\ db.present = committed.present
  <2>1. SeenDataInv(x) /\ v = runner[x].version /\ n = runner[x].at
    BY DEF Executes
  <2>. QED  BY <1>1, <2>1 DEF SeenDataInv, MigTypes, LockInv
<1>3. s.op = "split" => /\ v = 4 /\ n = 12
                        /\ db.rows = RowsLegacy
                        /\ RowsAt(Applied, v, n + 1) = RowsSplit
  BY <1>1, <1>2 DEF KindInv, RowsAt
<1>4. s.op = "collapse" => /\ v = 4 /\ n = 14
                           /\ db.rows = RowsSplit
                           /\ RowsAt(Applied, v, n + 1) = RowsNew
  <2>1. ASSUME s.op = "collapse"  PROVE v = 4 /\ n = 14 /\ 4 \notin Applied
    <3>1. v = 4 /\ n = 14
      BY <1>1, <2>1 DEF KindInv
    <3>2. StepFourInv(x) /\ runner[x].version = 4 /\ runner[x].at = 14
      BY <3>1 DEF Executes
    <3>. QED  BY <3>1, <3>2 DEF StepFourInv
  <2>. QED  BY <1>2, <2>1 DEF RowsAt
<1>5. s.op = "backfill" =>
        /\ db.rows = RowsSplit /\ db.runs = {}
        /\ RunsAt(Applied, committed.present, v, n + 1) = RunsOf(db.present, "pending")
  <2>1. ASSUME s.op = "backfill"  PROVE v = 4 /\ n = 13 /\ 4 \notin Applied
    BY <1>1, <2>1 DEF KindInv
  <2>2. 4 \notin Applied => 8 \notin Applied
    BY DEF OrderInv
  <2>. QED  BY <1>2, <2>1, <2>2 DEF RowsAt, RunsAt, RunsIn
<1>6. s.op = "toReady" =>
        /\ db.runs \in {RunsOf(db.present, "pending"), RunsOf(db.present, "ready")}
        /\ RunsAt(Applied, committed.present, v, n + 1) = RunsOf(db.present, "ready")
  <2>1. ASSUME s.op = "toReady"  PROVE v = 8 /\ n = 1 /\ 4 \in Applied
    <3>1. v = 8 /\ n = 1
      BY <1>1, <2>1 DEF KindInv
    <3>2. runner[x].up /\ runner[x].version = 8
      BY <3>1 DEF Executes
    <3>3. 4 \in Applied
      BY <3>2 DEF OrderInv
    <3>. QED  BY <3>1, <3>3
  <2>. QED  BY <1>2, <2>1 DEF RunsAt, RunsIn
<1>7. db' = Effect(s, v, db) /\ s.op # "record"
  BY DEF Executes
<1>8. db' \in Database
  BY <1>1, <1>2, <1>5, TypesMove DEF Executes
<1>9. db'.rows = RowsAt(Applied, v, n + 1)
  <2>1. CASE s.op = "split"
    BY <1>1, <1>2, <1>3, <1>7, <2>1, DataMove
  <2>2. CASE s.op = "collapse"
    BY <1>1, <1>2, <1>4, <1>7, <2>2, DataMove
  <2>3. CASE s.op \notin {"split", "collapse"}
    <3>1. Effect(s, v, db).rows = db.rows
      BY <1>1, <1>2, <2>3, Untouched
    <3>2. RowsAt(Applied, v, n + 1) = RowsAt(Applied, v, n)
      BY <1>1, <2>3, DataAtNext
    <3>. QED  BY <1>2, <1>7, <3>1, <3>2
  <2>. QED  BY <2>1, <2>2, <2>3
<1>10. db'.runs = RunsAt(Applied, committed.present, v, n + 1)
  <2>1. CASE s.op = "backfill"
    BY <1>1, <1>2, <1>5, <1>7, <2>1, DataMove
  <2>2. CASE s.op = "toReady"
    BY <1>1, <1>2, <1>6, <1>7, <2>2, DataMove
  <2>3. CASE s.op \notin {"backfill", "toReady"}
    <3>1. Effect(s, v, db).runs = db.runs
      BY <1>1, <1>2, <2>3, Untouched
    <3>2. RunsAt(Applied, committed.present, v, n + 1)
            = RunsAt(Applied, committed.present, v, n)
      BY <1>1, <1>7, <2>3, DataAtNext
    <3>. QED  BY <1>2, <1>7, <3>1, <3>2
  <2>. QED  BY <2>1, <2>2, <2>3
<1>11. committed'.rows = committed.rows /\ committed'.runs = committed.runs
  <2>1. CASE committed' = committed
    BY <2>1
  <2>2. CASE writer = None /\ committed' = db' /\ s.op \notin DML
    BY <1>1, <1>2, <1>7, <2>2, Untouched DEF DML
  <2>. QED  BY <2>1, <2>2 DEF Executes
<1>12. committed' \in Database
  BY <1>8 DEF Executes, MigTypes
<1>. QED  BY <1>8, <1>9, <1>10, <1>11, <1>12

(* What versions promise stays: only the old attempts goes, before v4 is recorded. *)
LEMMA PromisedStays ==
  ASSUME OrderInv, NEW v \in Versions, NEW n, NEW s,
         NEW before, NEW after, Promised(before), after.applied = before.applied,
         before.applied = Applied, v = 4 /\ n = 17 => 4 \notin Applied,
         MovesOn(s, v, n, before.cols, after.cols)
  PROVE  Promised(after)
<1>1. PICK k \in 0 .. 10 : Applied = 1 .. k
  BY DEF OrderInv
<1>2. "jobs" \in Kept(v, n)
  BY FinalIs DEF Kept
<1>3. "jobs" \in before.cols => "jobs" \in after.cols
  BY <1>2 DEF MovesOn
<1>4. "jobs" \notin before.cols /\ "jobs" \in after.cols =>
        {"status", "name", "payload"} \subseteq after.cols
  BY DEF MovesOn, ColumnsOf
<1>5. Applied # {} => "jobs" \in before.cols
  BY DEF Promised
<1>6. ASSUME NEW w \in Applied, NEW c \in Given(w, Len(Migration[w]))
      PROVE  c \in after.cols
  <2>1. w \in Versions /\ w \in 1 .. 10
    BY <1>1, <1>6, AllSteps
  <2>2. Len(Migration[w]) \in 1 .. Len(Migration[w])
    BY <2>1, StepsLength
  <2>3. c \in Lasting(w)
    BY <1>6, <2>1, <2>2, GivenGrows
  <2>4. v = 4 /\ n = 17 => w < 4
    BY <1>1, <1>6
  <2>5. c \in Kept(v, n)
    BY <2>1, <2>3, <2>4 DEF Lasting, Kept
  <2>. QED  BY <1>6, <2>5 DEF Promised, MovesOn
<1>7. 4 \in Applied => "run_state" \notin after.cols /\ "schedule" \notin after.cols
  BY <1>5 DEF Promised, MovesOn
<1>8. "jobs" \in after.cols =>
        /\ "status" \in after.cols
        /\ "name" \in after.cols \/ "job" \in after.cols
        /\ "payload" \in after.cols \/ "args" \in after.cols
  BY <1>4 DEF Promised, MovesOn
<1>. QED  BY <1>3, <1>5, <1>6, <1>7, <1>8 DEF Promised

(* The invariant of the process itself after a statement. *)
LEMMA ExecuteOwn ==
  ASSUME MigInv, NEW x \in Runners, Execute(x)
  PROVE  (SightInv(x) /\ StepFourInv(x) /\ SeenDataInv(x))'
<1>. USE DEF MigInv
<1>1. PICK v, n, s, seen : /\ v = runner[x].version /\ n = runner[x].at
                           /\ s = Statement(x) /\ seen = runner[x].columns
  OBVIOUS
<1>2. /\ Executes(x, s, v, n)
      /\ runner'[x].up /\ runner'[x].version = v /\ runner'[x].at = n + 1
      /\ runner'[x].columns = seen
  BY <1>1, ExecuteShape
<1>3. /\ v \in Versions /\ v \in 1 .. 10 /\ n \in Nat
      /\ n \in 1 .. Len(Migration[v]) /\ Len(Migration[v]) \in Nat
      /\ s = Migration[v][n] /\ KindInv(s, v, n)
      /\ Visible(x) = db /\ Visible(x)' = db'
      /\ MovesOn(s, v, n, db.cols, db'.cols)
      /\ db'.applied = Applied /\ Applied' = Applied
      /\ committed'.present = committed.present
      /\ s.op \in {"split", "backfill"} => 4 \notin Applied
  BY <1>1, <1>2, ExecuteMoves
<1>4. SightInv(x) /\ StepFourInv(x) /\ SeenDataInv(x) /\ runner[x].up
  BY <1>2 DEF Executes
<1>5. /\ writer \in {None, x} /\ writer' \in {None, x}
      /\ writer = x \/ s.op \in DML => writer' = x
      /\ s.op \notin {"inspect", "record"} /\ db' = Effect(s, v, db)
  BY <1>2 DEF Executes
<1>6. v > 1 \/ n > 1 => "jobs" \in db.cols
  BY <1>1, <1>3, <1>4, JobsThere
<1>7. /\ Given(v, n) \subseteq db.cols
      /\ seen \cap Lasting(v) \subseteq db.cols
      /\ 4 \notin Applied /\ "jobs" \in db.cols /\ (v # 4 \/ n <= 15) =>
           "schedule" \in db.cols
      /\ v = 4 /\ n > 3 =>
           /\ "status" \in seen
           /\ "name" \in seen \/ "job" \in seen
           /\ "payload" \in seen \/ "args" \in seen
           /\ "schedule" \in db.cols => "schedule" \in seen
           /\ "run_state" \in db.cols => "run_state" \in seen
  BY <1>1, <1>3, <1>4 DEF SightInv
<1>8. v = 4 => /\ n > 13 => 4 \notin Applied
               /\ n > 12 /\ 4 \notin Applied => writer = x
               /\ n > 15 => "schedule" \notin db.cols
               /\ n > 16 => "run_state" \notin db.cols
  BY <1>1, <1>3, <1>4 DEF StepFourInv
<1>9. \A c \in Lasting(v) : c \in Kept(v, n)
  BY DEF Lasting, Kept
<1>10. SightInv(x)'
  <2>1. Given(v, n + 1) \subseteq db'.cols
    <3>1. Given(v, n) \subseteq Lasting(v)
      BY <1>3, GivenGrows
    <3>2. Given(v, n) \subseteq db'.cols
      BY <1>3, <1>7, <1>9, <3>1 DEF MovesOn
    <3>3. Given(v, n + 1) = Given(v, n) \cup Gives(s)
      BY <1>3, GivenGrows
    <3>. QED  BY <1>3, <3>2, <3>3 DEF MovesOn
  <2>2. seen \cap Lasting(v) \subseteq db'.cols
    BY <1>3, <1>7, <1>9 DEF MovesOn
  <2>3. 4 \notin Applied /\ "jobs" \in db'.cols /\ (v # 4 \/ n + 1 <= 15) =>
          "schedule" \in db'.cols
    <3>1. "schedule" \in ColumnsOf("jobs")
      BY DEF ColumnsOf
    <3>2. v # 4 \/ n + 1 <= 15 => v # 4 \/ (n # 15 /\ n <= 15)
      BY <1>3
    <3>. QED  BY <1>3, <1>7, <3>1, <3>2 DEF MovesOn
  <2>4. v = 4 /\ n + 1 > 3 => n > 3 /\ "jobs" \in db.cols
    BY <1>3, <1>5, <1>6 DEF KindInv
  <2>5. v = 4 /\ n > 3 => /\ "schedule" \in db'.cols => "schedule" \in seen
                          /\ "run_state" \in db'.cols => "run_state" \in seen
    BY <1>3, <1>6, <1>7 DEF MovesOn
  <2>. QED  BY <1>2, <1>3, <1>7, <2>1, <2>2, <2>3, <2>4, <2>5 DEF SightInv
<1>11. StepFourInv(x)'
  <2>1. SUFFICES ASSUME v = 4
                 PROVE  /\ n + 1 > 13 => 4 \notin Applied
                        /\ n + 1 > 12 /\ 4 \notin Applied => writer' = x
                        /\ n + 1 > 15 => "schedule" \notin db'.cols
                        /\ n + 1 > 16 => "run_state" \notin db'.cols
    BY <1>2, <1>3 DEF StepFourInv
  <2>2. /\ n = 12 => s.op = "split"
        /\ n = 13 => s.op = "backfill"
        /\ n = 15 => s = DropCol("schedule")
        /\ n = 16 => s = DropCol("run_state")
    BY <1>3, <2>1 DEF KindInv
  <2>3. n + 1 > 13 => 4 \notin Applied
    BY <1>3, <1>8, <2>1, <2>2
  <2>4. n + 1 > 12 /\ 4 \notin Applied => writer' = x
    BY <1>3, <1>5, <1>8, <2>1, <2>2 DEF DML
  <2>5. "jobs" \in db.cols
    BY <1>6, <2>1
  <2>6. db \in Database
    BY DEF MigTypes
  <2>7. \A c : s = DropCol(c) => c \notin db'.cols
    <3>1. ASSUME NEW c, s.op = "drop", s.on = c  PROVE c \notin db'.cols
      BY <1>5, <2>6, <3>1 DEF Effect, Database
    <3>. QED  BY <3>1, Statements
  <2>8. n + 1 > 15 => "schedule" \notin db'.cols
    BY <1>3, <1>8, <2>1, <2>2, <2>5, <2>7 DEF MovesOn
  <2>9. n + 1 > 16 => "run_state" \notin db'.cols
    BY <1>3, <1>8, <2>1, <2>2, <2>5, <2>7 DEF MovesOn
  <2>. QED  BY <2>3, <2>4, <2>8, <2>9
<1>12. SeenDataInv(x)'
  <2>1. v = 8 /\ n + 1 > 1 => writer' = x
    <3>1. v = 8 => n \in {1, 2, 3} /\ (n = 3 => s.op = "record")
      <4>1. n = Len(Migration[v]) => s.op = "record"
        BY <1>3 DEF KindInv
      <4>2. SUFFICES ASSUME v = 8
                     PROVE  n \in {1, 2, 3} /\ (n = 3 => s.op = "record")
        OBVIOUS
      <4>3. Len(Migration[v]) = 3
        BY <4>2, Step8
      <4>4. n \in 1 .. 3
        BY <1>3, <4>3
      <4>. QED  BY <4>1, <4>3, <4>4
    <3>. QED  BY <1>3, <1>5, <3>1 DEF KindInv, DML
  <2>2. /\ db'.rows = RowsAt(Applied, v, n + 1)
        /\ db'.runs = RunsAt(Applied, committed.present, v, n + 1)
    BY <1>1, <1>2, ExecuteData
  <2>. QED  BY <1>2, <1>3, <2>1, <2>2 DEF SeenDataInv
<1>. QED  BY <1>10, <1>11, <1>12

(* The invariant of another process: the statement did not hold the lock, or
   the other process does not see it yet. *)
LEMMA ExecuteOther ==
  ASSUME MigInv, NEW x \in Runners, Execute(x),
         NEW y \in Runners, y # x, runner[y].up
  PROVE  (SightInv(y) /\ StepFourInv(y) /\ SeenDataInv(y))'
<1>. USE DEF MigInv
<1>1. PICK v, n, s : v = runner[x].version /\ n = runner[x].at /\ s = Statement(x)
  OBVIOUS
<1>2. Executes(x, s, v, n) /\ runner'[y] = runner[y]
  BY <1>1, ExecuteShape
<1>3. /\ v \in Versions /\ n \in Nat
      /\ Visible(y) = committed /\ Visible(y)' = committed'
      /\ MovesOn(s, v, n, db.cols, db'.cols) /\ Applied' = Applied
      /\ committed'.present = committed.present
      /\ writer = None => db = committed /\ ~(v = 4 /\ n > 13)
  BY <1>1, <1>2, ExecuteMoves
<1>4. committed'.rows = committed.rows /\ committed'.runs = committed.runs
  BY <1>1, <1>2, ExecuteData
<1>5. writer # y /\ (committed' = committed \/ (writer = None /\ committed' = db'))
  BY <1>2, MigrationsAssumption DEF Executes
<1>6. /\ \A c \in Final : c \in committed.cols => c \in committed'.cols
      /\ "jobs" \in committed.cols => \A c \in {"run_state", "schedule"} :
           c \in committed'.cols => c \in committed.cols
      /\ "jobs" \in committed.cols =>
           ("schedule" \in committed.cols => "schedule" \in committed'.cols)
      /\ "jobs" \in committed'.cols /\ "jobs" \notin committed.cols =>
           "schedule" \in committed'.cols
  <2>1. CASE committed' = committed
    BY <2>1
  <2>2. CASE writer = None /\ committed' = db'
    <3>1. ~(v = 4 /\ n = 17) /\ ~(v = 4 /\ n = 15) /\ db = committed
      BY <1>3, <2>2
    <3>2. Kept(v, n) = Final
      BY <3>1 DEF Kept
    <3>. QED  BY <1>3, <2>2, <3>1, <3>2 DEF MovesOn, ColumnsOf
  <2>. QED  BY <1>5, <2>1, <2>2
<1>7. SightInv(y) /\ StepFourInv(y) /\ SeenDataInv(y)
  OBVIOUS
<1>8. PICK w, m, seen : w = runner[y].version /\ m = runner[y].at /\ seen = runner[y].columns
  OBVIOUS
<1>9. /\ w \in Versions /\ m \in 1 .. Len(Migration[w]) /\ m \in Nat
      /\ w > 1 \/ m > 1 => "jobs" \in committed.cols
  BY <1>3, <1>8, AtStatement, JobsThere
<1>10. SightInv(y)'
  <2>1. Given(w, m) \subseteq Final
    BY <1>9, GivenGrows DEF Lasting
  <2>2. Lasting(w) \subseteq Final
    BY DEF Lasting
  <2>. QED  BY <1>2, <1>3, <1>6, <1>7, <1>8, <1>9, <2>1, <2>2 DEF SightInv
<1>11. w = 4 => m <= 13 /\ (4 \in Applied \/ m <= 12)
  BY <1>5, <1>7, <1>8, <1>9 DEF StepFourInv
<1>12. StepFourInv(y)'
  BY <1>2, <1>3, <1>8, <1>9, <1>11 DEF StepFourInv
<1>13. SeenDataInv(y)'
  BY <1>2, <1>3, <1>4, <1>5, <1>7 DEF SeenDataInv
<1>. QED  BY <1>10, <1>12, <1>13

(* A statement keeps the invariant, for the process and for the others. *)
LEMMA ExecuteKeeps ==
  ASSUME MigInv, NEW x \in Runners, Execute(x)
  PROVE  MigInv'
<1>. USE DEF MigInv
<1>1. PICK v, n, s : v = runner[x].version /\ n = runner[x].at /\ s = Statement(x)
  OBVIOUS
<1>2. /\ Executes(x, s, v, n)
      /\ runner' \in [Runners -> [up : BOOLEAN, version : Nat, at : Nat,
                                  columns : SUBSET Columns]]
      /\ runner'[x].up /\ runner'[x].version = v /\ runner'[x].at = n + 1
      /\ \A y \in Runners : y # x => runner'[y] = runner[y]
      /\ n + 1 \in 1 .. Len(Migration[v])
  BY <1>1, ExecuteShape
<1>3. /\ v \in Versions /\ n \in Nat
      /\ MovesOn(s, v, n, db.cols, db'.cols)
      /\ db'.applied = Applied /\ Applied' = Applied
      /\ db'.present = committed.present /\ committed'.present = committed.present
      /\ writer = None => db = committed /\ ~(v = 4 /\ n > 13)
  BY <1>1, <1>2, ExecuteMoves
<1>4. /\ db' \in Database /\ committed' \in Database
      /\ committed'.rows = committed.rows /\ committed'.runs = committed.runs
  BY <1>1, <1>2, ExecuteData
<1>5. /\ runner[x].up /\ writer \in {None, x} /\ writer' \in {None, x} /\ x # None
      /\ \/ writer' = x /\ committed' = committed
         \/ writer = None /\ writer' = None /\ committed' = db'
      /\ crashes' = crashes
  BY <1>2, MigrationsAssumption DEF Executes
<1>6. MigTypes'
  <2>1. \A y \in Runners : runner'[y].up =>
          /\ runner'[y].version \in Versions
          /\ runner'[y].at \in 1 .. Len(Migration[runner'[y].version])
    BY <1>2, <1>3 DEF MigTypes
  <2>2. crashes' \in Nat /\ writer' \in Runners \cup {None}
    BY <1>5 DEF MigTypes
  <2>. QED  BY <1>2, <1>4, <2>1, <2>2 DEF MigTypes
<1>7. LockInv'
  <2>1. writer' = None => db' = committed'
    BY <1>5
  <2>2. db'.applied = committed'.applied /\ db'.present = committed'.present
    BY <1>3 DEF Applied
  <2>3. ASSUME writer' # None
        PROVE  /\ \A c \in Final : c \in committed'.cols =>
                    c \in db'.cols \/ (c = "attempts" /\ v = 4 /\ n + 1 > 17)
               /\ "jobs" \in committed'.cols => \A c \in {"run_state", "schedule"} :
                    c \in db'.cols => c \in committed'.cols
    <3>1. writer' = x /\ committed' = committed
      BY <1>5, <2>3
    <3>2. /\ \A c \in Final : c \in committed.cols =>
               c \in db.cols \/ (c = "attempts" /\ v = 4 /\ n > 17)
          /\ "jobs" \in committed.cols => \A c \in {"run_state", "schedule"} :
               c \in db.cols => c \in committed.cols
      BY <1>1, <1>3, <1>5 DEF LockInv
    <3>3. "jobs" \in committed.cols => "jobs" \in db.cols
      BY <3>2, FinalIs
    <3>4. \A c \in Final : c \in Kept(v, n) \/ (c = "attempts" /\ v = 4 /\ n = 17)
      BY DEF Kept
    <3>. QED  BY <1>3, <3>1, <3>2, <3>3, <3>4 DEF MovesOn
  <2>. QED  BY <1>2, <1>5, <2>1, <2>2, <2>3 DEF LockInv
<1>8. OrderInv'
  <2>1. \A y \in Runners : runner'[y].up => runner[y].up /\ runner'[y].version = runner[y].version
    BY <1>1, <1>2, <1>5
  <2>. QED  BY <1>3, <2>1 DEF OrderInv
<1>9. v = 4 /\ n = 17 => 4 \notin Applied
  <2>1. StepFourInv(x)
    BY <1>5
  <2>. QED  BY <1>1, <2>1 DEF StepFourInv
<1>10. SchemaInv'
  <2>1. Promised(db')
    <3>1. Promised(db) /\ db.applied = Applied
      BY DEF SchemaInv, LockInv, Applied
    <3>. QED  BY <1>3, <1>9, <3>1, PromisedStays
  <2>2. Promised(committed')
    BY <1>5, <2>1 DEF SchemaInv
  <2>3. 4 \notin Applied /\ "jobs" \in committed'.cols => "schedule" \in committed'.cols
    <3>1. CASE committed' = committed
      BY <3>1 DEF SchemaInv
    <3>2. CASE writer = None /\ committed' = db'
      <4>1. ~(v = 4 /\ n = 15) /\ db = committed /\ "schedule" \in ColumnsOf("jobs")
        BY <1>3, <3>2 DEF ColumnsOf
      <4>. QED  BY <1>3, <3>2, <4>1 DEF MovesOn, SchemaInv
    <3>. QED  BY <1>5, <3>1, <3>2
  <2>4. Promised(db)' /\ Promised(committed)'
    BY <2>1, <2>2 DEF Promised
  <2>. QED  BY <1>3, <2>3, <2>4 DEF SchemaInv
<1>11. DataInv'
  BY <1>3, <1>4 DEF DataInv
<1>12. ASSUME NEW y \in Runners, runner'[y].up
       PROVE  (SightInv(y) /\ StepFourInv(y) /\ SeenDataInv(y))'
  <2>1. CASE y = x
    BY <2>1, ExecuteOwn
  <2>2. CASE y # x
    BY <1>2, <1>12, <2>2, ExecuteOther
  <2>. QED  BY <2>1, <2>2
<1>. QED  BY <1>6, <1>7, <1>8, <1>10, <1>11, <1>12

-----------------------------------------------------------------------------
(* The version is recorded.                                                 *)

(* A commit keeps it: what one process saw is now what all see. *)
LEMMA CommitKeeps ==
  ASSUME MigInv, NEW x \in Runners, Commit(x)
  PROVE  MigInv'
<1>. USE DEF MigInv
<1>1. PICK v, n : v = runner[x].version /\ n = runner[x].at
  OBVIOUS
<1>2. /\ runner[x].up /\ Statement(x).op = "record" /\ writer \in {None, x}
      /\ x # None
  BY MigrationsAssumption DEF Commit
<1>3. /\ v \in Versions /\ v \in 1 .. 10 /\ n \in Nat
      /\ n \in 1 .. Len(Migration[v]) /\ Len(Migration[v]) \in Nat
      /\ KindInv(Statement(x), v, n)
  BY <1>1, <1>2, AtStatement
<1>4. n = Len(Migration[v]) /\ n > 1
  BY <1>2, <1>3 DEF KindInv
<1>5. PICK d : d = Effect(Record, v, db)
  OBVIOUS
<1>6. /\ db' = d /\ committed' = d /\ writer' = None /\ crashes' = crashes
      /\ v \notin db.applied
      /\ runner' = [runner EXCEPT ![x] =
           IF v = 10 THEN Down ELSE [Down EXCEPT !.up = TRUE, !.version = v + 1]]
  BY <1>1, <1>5, Statements, AllSteps DEF Commit, Fails
<1>7. /\ d.applied = Applied \cup {v} /\ d.cols = db.cols
      /\ d.rows = db.rows /\ d.runs = db.runs /\ d.present = committed.present
  <2>1. db \in Database /\ db.applied = Applied /\ db.present = committed.present
    BY DEF MigTypes, LockInv, Applied
  <2>. QED  BY <1>3, <1>5, <2>1, Statements, Untouched
<1>8. d \in Database
  <2>1. ~Fails(Record, v, db) /\ Record.op # "backfill" /\ db \in Database
    BY <1>1, Statements DEF Commit, MigTypes
  <2>2. Record = Migration[v][n]
    BY <1>2, <1>3, <1>1, AtStatement DEF KindInv
  <2>. QED  BY <1>3, <1>5, <2>1, <2>2, TypesMove
<1>9. /\ SightInv(x) /\ StepFourInv(x) /\ SeenDataInv(x)
      /\ Visible(x) = db
      /\ \A y \in Runners : y # x => Visible(y) = committed
      /\ \A y \in Runners : Visible(y)' = d
  BY <1>2, <1>6, MigrationsAssumption DEF Visible, LockInv
<1>10. Applied' = Applied \cup {v} /\ v \notin Applied
  BY <1>6, <1>7 DEF Applied, LockInv
<1>11. /\ v = 10 => ~runner'[x].up
       /\ v # 10 => /\ runner'[x].up /\ runner'[x].version = v + 1
                    /\ runner'[x].at = 1 /\ runner'[x].columns = {}
       /\ \A y \in Runners : y # x => runner'[y] = runner[y]
  BY <1>6 DEF MigTypes, Down
<1>12. PICK k \in 0 .. 10 : Applied = 1 .. k
  BY DEF OrderInv
<1>13. v = k + 1 /\ Applied' = 1 .. v
  <2>1. \A u \in 1 .. 10 : u < v => u \in Applied
    BY <1>1, <1>2 DEF OrderInv
  <2>2. k >= v - 1
    <3>1. CASE v = 1
      BY <3>1
    <3>2. CASE v > 1
      <4>1. v - 1 \in Applied
        BY <1>3, <2>1, <3>2
      <4>. QED  BY <1>3, <1>12, <4>1
    <3>. QED  BY <1>3, <3>1, <3>2
  <2>3. v = k + 1
    BY <1>3, <1>10, <1>12, <2>2
  <2>4. (1 .. k) \cup {k + 1} = 1 .. (k + 1)
    OBVIOUS
  <2>. QED  BY <1>10, <1>12, <2>3, <2>4
<1>14. MigTypes'
  <2>1. PICK down : down = Down
    OBVIOUS
  <2>2. down \in [up : BOOLEAN, version : Nat, at : Nat, columns : SUBSET Columns]
    BY <2>1 DEF Down
  <2>3. [down EXCEPT !.up = TRUE, !.version = v + 1]
          \in [up : BOOLEAN, version : Nat, at : Nat, columns : SUBSET Columns]
    <3>1. v + 1 \in Nat
      BY <1>3
    <3>. QED  BY <2>2, <3>1
  <2>4. runner' \in [Runners -> [up : BOOLEAN, version : Nat, at : Nat,
                                 columns : SUBSET Columns]]
    BY <1>6, <2>1, <2>2, <2>3 DEF MigTypes
  <2>5. v # 10 => v + 1 \in Versions /\ 1 \in 1 .. Len(Migration[v + 1])
    <3>1. v # 10 => v + 1 \in Versions
      BY <1>3, AllSteps
    <3>. QED  BY <3>1, StepsLength
  <2>6. \A y \in Runners : runner'[y].up =>
          /\ runner'[y].version \in Versions
          /\ runner'[y].at \in 1 .. Len(Migration[runner'[y].version])
    BY <1>11, <2>5 DEF MigTypes
  <2>. QED  BY <1>6, <1>8, <2>4, <2>6 DEF MigTypes
<1>15. LockInv'
  BY <1>6 DEF LockInv
<1>16. OrderInv'
  <2>1. ASSUME NEW y \in Runners, runner'[y].up, NEW u \in 1 .. 10,
               u < runner'[y].version
        PROVE  u \in Applied'
    <3>1. CASE y = x
      BY <1>3, <1>11, <1>13, <2>1, <3>1
    <3>2. CASE y # x
      BY <1>10, <1>11, <2>1, <3>2 DEF OrderInv
    <3>. QED  BY <3>1, <3>2
  <2>2. v \in 0 .. 10
    BY <1>3
  <2>. QED  BY <1>13, <2>1, <2>2 DEF OrderInv
<1>17. "jobs" \in db.cols
  BY <1>1, <1>2, <1>4, <1>9, JobsThere
<1>18. 4 \notin Applied' => "schedule" \in db.cols
  BY <1>1, <1>9, <1>10, <1>17 DEF SightInv
<1>19. SchemaInv'
  <2>1. Promised(db) /\ db.applied = Applied
    BY DEF SchemaInv, LockInv, Applied
  <2>2. v = 4 => "run_state" \notin db.cols /\ "schedule" \notin db.cols
    <3>1. v = 4 => n = 19
      BY <1>4, Step4
    <3>. QED  BY <1>1, <1>9, <3>1 DEF StepFourInv
  <2>3. Given(v, Len(Migration[v])) \subseteq db.cols
    BY <1>1, <1>4, <1>9 DEF SightInv
  <2>4. Promised(d)
    BY <1>7, <1>17, <2>1, <2>2, <2>3 DEF Promised
  <2>5. Promised(db)' /\ Promised(committed)'
    BY <1>6, <2>4 DEF Promised
  <2>. QED  BY <1>6, <1>7, <1>18, <2>5 DEF SchemaInv
<1>20. /\ d.rows = RowsIn(Applied') /\ d.runs = RunsIn(Applied', committed.present)
  <2>1. db.rows = RowsAt(Applied, v, n)
        /\ db.runs = RunsAt(Applied, committed.present, v, n)
    BY <1>1, <1>9 DEF SeenDataInv
  <2>2. v = 4 => n = 19
    BY <1>4, Step4
  <2>3. v = 8 => n = 3
    BY <1>4, Step8
  <2>4. RowsAt(Applied, v, n) = RowsIn(Applied')
    BY <1>3, <1>10, <2>2 DEF RowsAt, RowsIn
  <2>5. v = 4 => 8 \notin Applied'
    BY <1>13
  <2>6. RunsAt(Applied, committed.present, v, n) = RunsIn(Applied', committed.present)
    <3>1. CASE v = 8
      BY <1>10, <2>3, <3>1 DEF RunsAt, RunsIn
    <3>2. CASE v = 4
      BY <1>10, <2>2, <2>5, <3>2 DEF RunsAt, RunsIn
    <3>3. CASE v \notin {4, 8}
      BY <1>10, <3>3 DEF RunsAt, RunsIn
    <3>. QED  BY <3>1, <3>2, <3>3
  <2>. QED  BY <1>7, <2>1, <2>4, <2>6
<1>21. DataInv'
  BY <1>6, <1>7, <1>20 DEF DataInv
<1>22. ASSUME NEW y \in Runners, runner'[y].up, y = x
       PROVE  (SightInv(y) /\ StepFourInv(y) /\ SeenDataInv(y))'
  <2>1. /\ runner'[x].version = v + 1 /\ runner'[x].at = 1
        /\ runner'[x].columns = {} /\ v # 10
    BY <1>11, <1>22
  <2>2. v + 1 \in Versions
    BY <1>3, <2>1, AllSteps
  <2>3. SightInv(x)'
    BY <1>6, <1>7, <1>9, <1>18, <2>1, <2>2, GivenGrows DEF SightInv
  <2>4. StepFourInv(x)'
    BY <2>1 DEF StepFourInv
  <2>5. /\ RowsAt(Applied', v + 1, 1) = RowsIn(Applied')
        /\ RunsAt(Applied', committed.present, v + 1, 1)
             = RunsIn(Applied', committed.present)
    BY DEF RowsAt, RunsAt, RowsIn
  <2>6. SeenDataInv(x)'
    BY <1>6, <1>7, <1>9, <1>20, <2>1, <2>5 DEF SeenDataInv
  <2>. QED  BY <1>22, <2>3, <2>4, <2>6
<1>23. ASSUME NEW y \in Runners, runner'[y].up, y # x
       PROVE  (SightInv(y) /\ StepFourInv(y) /\ SeenDataInv(y))'
  <2>1. /\ runner'[y] = runner[y] /\ runner[y].up
        /\ SightInv(y) /\ StepFourInv(y) /\ SeenDataInv(y)
        /\ Visible(y) = committed /\ Visible(y)' = d
    BY <1>9, <1>11, <1>23
  <2>2. PICK w, m, seen : w = runner[y].version /\ m = runner[y].at
                          /\ seen = runner[y].columns
    OBVIOUS
  <2>3. /\ w \in Versions /\ w \in 1 .. 10 /\ m \in Nat
        /\ m \in 1 .. Len(Migration[w])
        /\ w > 1 \/ m > 1 => "jobs" \in committed.cols
    BY <2>1, <2>2, AtStatement, JobsThere
  <2>4. writer # y
    BY <1>2, <1>23, MigrationsAssumption
  <2>5. w = 4 => m <= 13 /\ (4 \in Applied \/ m <= 12)
    BY <2>1, <2>2, <2>3, <2>4 DEF StepFourInv
  <2>6. w = 8 => m <= 1
    BY <2>1, <2>2, <2>3, <2>4 DEF SeenDataInv
  <2>7. /\ \A c \in Final : c \in committed.cols =>
             c \in db.cols \/ (c = "attempts" /\ v = 4)
        /\ "jobs" \in committed.cols => \A c \in {"run_state", "schedule"} :
             c \in db.cols => c \in committed.cols
    BY <1>1, <1>2 DEF LockInv
  <2>8. v = 4 => w <= 4
    <3>1. ASSUME w > 4  PROVE 4 \in Applied
      BY <2>1, <2>2, <3>1 DEF OrderInv
    <3>. QED  BY <1>10, <2>3, <3>1
  <2>9. SightInv(y)'
    <3>1. \A c \in Lasting(w) : c \in committed.cols => c \in db.cols
      BY <2>3, <2>7, <2>8 DEF Lasting
    <3>2. Given(w, m) \subseteq Lasting(w)
      BY <2>3, GivenGrows
    <3>. QED  BY <1>7, <1>18, <2>1, <2>2, <2>3, <2>7, <3>1, <3>2 DEF SightInv
  <2>10. StepFourInv(y)'
    BY <1>10, <2>1, <2>2, <2>3, <2>5 DEF StepFourInv
  <2>11. SeenDataInv(y)'
    <3>1. RowsAt(Applied', w, m) = RowsIn(Applied')
      BY <1>10, <2>3, <2>5 DEF RowsAt, RowsIn
    <3>2. RunsAt(Applied', committed.present, w, m) = RunsIn(Applied', committed.present)
      BY <2>3, <2>5, <2>6 DEF RunsAt
    <3>3. ~(w = 8 /\ m > 1)
      BY <2>3, <2>6
    <3>. QED  BY <1>6, <1>7, <1>20, <2>1, <2>2, <3>1, <3>2, <3>3 DEF SeenDataInv
  <2>. QED  BY <2>9, <2>10, <2>11
<1>. QED  BY <1>14, <1>15, <1>16, <1>19, <1>21, <1>22, <1>23

(* Every step keeps the invariant. *)
LEMMA MigInvariant == MigSpec => []MigInv
<1>1. MigInit => MigInv
  BY InitMigInv
<1>2. MigInv /\ [MigNext]_migVars => MigInv'
  <2>. SUFFICES ASSUME MigInv, [MigNext]_migVars
                PROVE  MigInv'
    OBVIOUS
  <2>1. ASSUME NEW x \in Runners, MigStep(x) \/ Crash(x)
        PROVE  MigInv'
    <3>1. CASE Begin(x)
      BY <3>1, BeginKeeps
    <3>2. CASE Look(x)
      BY <3>2, LookKeeps
    <3>3. CASE Skip(x)
      BY <3>3, SkipKeeps
    <3>4. CASE Execute(x)
      BY <3>4, ExecuteKeeps
    <3>5. CASE Commit(x)
      BY <3>5, CommitKeeps
    <3>6. CASE Raise(x)
      <4>1. runner[x].up /\ Ends(x) /\ crashes' \in {crashes, crashes + 1}
        BY <3>6 DEF Raise
      <4>. QED  BY <4>1, EndsKeeps
    <3>7. CASE Crash(x)
      <4>1. runner[x].up /\ Ends(x) /\ crashes' \in {crashes, crashes + 1}
        BY <3>7 DEF Crash
      <4>. QED  BY <4>1, EndsKeeps
    <3>. QED  BY <2>1, <3>1, <3>2, <3>3, <3>4, <3>5, <3>6, <3>7 DEF MigStep
  <2>2. CASE UNCHANGED migVars
    <3>1. db' = db /\ committed' = committed /\ writer' = writer
          /\ runner' = runner /\ crashes' = crashes
      BY <2>2 DEF migVars
    <3>2. MigTypes' /\ LockInv'
      BY <3>1 DEF MigInv, MigTypes, LockInv
    <3>3. OrderInv' /\ SchemaInv' /\ DataInv'
      BY <3>1 DEF MigInv, OrderInv, SchemaInv, DataInv, Promised, Applied
    <3>4. ASSUME NEW y \in Runners, runner'[y].up
          PROVE  (SightInv(y) /\ StepFourInv(y) /\ SeenDataInv(y))'
      <4>1. SightInv(y) /\ StepFourInv(y) /\ SeenDataInv(y)
        BY <3>1, <3>4 DEF MigInv
      <4>. QED  BY <3>1, <4>1
                DEF SightInv, StepFourInv, SeenDataInv, Visible, Applied
    <3>. QED  BY <3>2, <3>3, <3>4 DEF MigInv
  <2>. QED  BY <2>1, <2>2 DEF MigNext
<1>. QED  BY <1>1, <1>2, PTL DEF MigSpec

-----------------------------------------------------------------------------
(* What follows.                                                            *)

(***************************************************************************)
(* migrate() leaves rows and runs of the tables' types, and each process   *)
(* that runs it is at one of the ten steps.                                *)
(***************************************************************************)
THEOREM MigTypeCorrect == MigSpec => []MigTypeOK
<1>1. MigInv => MigTypeOK
  BY DEF MigInv, MigTypes, MigTypeOK
<1>. QED  BY <1>1, MigInvariant, PTL

(* The runs made of the rows, told apart by their job. *)
LEMMA RunsOfJob ==
  ASSUME NEW present, NEW word, NEW r \in present
  PROVE  {x \in RunsOf(present, word) : x.job = r} = {RunOfRow(r, word)}
<1>1. \A q : RunOfRow(q, word).job = q
  BY DEF RunOfRow
<1>. QED  BY <1>1 DEF RunsOf

(***************************************************************************)
(* The backfill of v4 makes one run of each row of the old table: all of   *)
(* them when v4 is recorded and none before, whoever is killed at which    *)
(* statement and whoever migrates beside.                                  *)
(***************************************************************************)
THEOREM EachRowOnce == MigSpec => []BackfilledOnce
<1>1. MigInv => BackfilledOnce
  <2>. SUFFICES ASSUME MigInv, NEW r \in committed.present
                PROVE  Cardinality({x \in committed.runs : x.job = r})
                         = IF 4 \in committed.applied THEN 1 ELSE 0
    BY DEF BackfilledOnce
  <2>1. committed.runs = RunsIn(committed.applied, committed.present)
    BY DEF MigInv, DataInv, Applied
  <2>2. 8 \in committed.applied => 4 \in committed.applied
    BY DEF MigInv, OrderInv, Applied
  <2>3. CASE 4 \in committed.applied
    <3>1. PICK word : committed.runs = RunsOf(committed.present, word)
      BY <2>1, <2>3 DEF RunsIn
    <3>2. {x \in committed.runs : x.job = r} = {RunOfRow(r, word)}
      BY <3>1, RunsOfJob
    <3>. QED  BY <2>3, <3>2, FS_Singleton
  <2>4. CASE 4 \notin committed.applied
    <3>1. {x \in committed.runs : x.job = r} = {}
      BY <2>1, <2>2, <2>4 DEF RunsIn
    <3>. QED  BY <2>4, <3>1, FS_EmptySet
  <2>. QED  BY <2>3, <2>4
<1>. QED  BY <1>1, MigInvariant, PTL

(***************************************************************************)
(* Once v4 is recorded, a job and its run say what the legacy row said:    *)
(* the schedule as the source, a cancelled row as a cancelled job, a       *)
(* settled row as a run that ended so, and one that was waiting or running *)
(* as a run that waits: "pending", and "ready" from v8 on.                 *)
(***************************************************************************)
THEOREM LegacySurvives == MigSpec => []LegacyKept
<1>1. MigInv => LegacyKept
  <2>. SUFFICES ASSUME MigInv, 4 \in committed.applied, NEW r \in committed.present
                PROVE  /\ committed.rows[r].source
                            = IF Legacy[r].schedule THEN "scheduled" ELSE "on_demand"
                       /\ committed.rows[r].status
                            = IF Legacy[r].status = "cancelled" THEN "cancelled"
                              ELSE "active"
                       /\ \A x \in committed.runs : x.job = r => x.status =
                            IF Legacy[r].status \in {"pending", "running"}
                            THEN (IF 8 \in committed.applied THEN "ready"
                                  ELSE "pending")
                            ELSE Legacy[r].status
    BY DEF LegacyKept
  <2>1. r \in Rows
    BY DEF MigInv, MigTypes, Database
  <2>2. committed.rows = RowsNew
    BY DEF MigInv, DataInv, Applied, RowsIn
  <2>3. committed.runs = RunsOf(committed.present,
                                IF 8 \in committed.applied THEN "ready" ELSE "pending")
    BY DEF MigInv, DataInv, Applied, RunsIn
  <2>4. ASSUME NEW x \in committed.runs, x.job = r
        PROVE  x.status = IF Legacy[r].status \in {"pending", "running"}
                          THEN (IF 8 \in committed.applied THEN "ready"
                                ELSE "pending")
                          ELSE Legacy[r].status
    <3>1. PICK q \in committed.present :
            x = RunOfRow(q, IF 8 \in committed.applied THEN "ready" ELSE "pending")
      BY <2>3, <2>4 DEF RunsOf
    <3>. QED  BY <2>4, <3>1 DEF RunOfRow
  <2>. QED  BY <2>1, <2>2, <2>4 DEF RowsNew, SourceOf
<1>. QED  BY <1>1, MigInvariant, PTL

(* What the nth statement of step v sees to is seen to by the whole step. *)
LEMMA GivenBy ==
  ASSUME NEW v \in Versions, NEW n \in 1 .. (Len(Migration[v]) - 1)
  PROVE  Gives(Migration[v][n]) \subseteq Given(v, Len(Migration[v]))
BY DEF Given

(* The statement that sees to each column of the last schema. *)
LEMMA FinalIsGiven ==
  ASSUME NEW c \in Final, c # "status"
  PROVE  \E v \in Versions : c \in Given(v, Len(Migration[v]))
<1>1. SUFFICES \E v \in Versions : \E n \in 1 .. (Len(Migration[v]) - 1) :
                 c \in Gives(Migration[v][n])
  BY GivenBy
<1>2. \A t : c = t => c \in Gives(Create(t)) /\ c \in Gives(Add(t))
                    /\ \A s : c \in Gives(Rename(s, t))
  BY Statements DEF Gives
<1>3. CASE c \in {"runs", "tasks", "job", "args", "source", "key"}
  <2>1. 4 \in Versions /\ 1 \in 1 .. (Len(Migration[4]) - 1)
        /\ 2 \in 1 .. (Len(Migration[4]) - 1) /\ 7 \in 1 .. (Len(Migration[4]) - 1)
        /\ 8 \in 1 .. (Len(Migration[4]) - 1) /\ 9 \in 1 .. (Len(Migration[4]) - 1)
        /\ 11 \in 1 .. (Len(Migration[4]) - 1)
    BY AllSteps, Step4
  <2>2. \E n \in {1, 2, 7, 8, 9, 11} : c \in Gives(Migration[4][n])
    BY <1>2, <1>3, Step4
  <2>. QED  BY <2>1, <2>2
<1>4. CASE c \in {"updated_at", "runs.updated_at", "tasks.created_at", "tasks.updated_at"}
  <2>1. 5 \in Versions /\ \A n \in 4 .. 7 : n \in 1 .. (Len(Migration[5]) - 1)
    BY AllSteps, Step5
  <2>2. \E n \in 4 .. 7 : c \in Gives(Migration[5][n])
    BY <1>2, <1>4, Step5
  <2>. QED  BY <2>1, <2>2
<1>5. CASE c \in {"retries", "attempts"}
  <2>1. 6 \in Versions /\ \A n \in 2 .. 3 : n \in 1 .. (Len(Migration[6]) - 1)
    BY AllSteps, Step6
  <2>2. \E n \in 2 .. 3 : c \in Gives(Migration[6][n])
    BY <1>2, <1>5, Step6
  <2>. QED  BY <2>1, <2>2
<1>6. CASE c = "jobs"
  <2>1. 1 \in Versions /\ 1 \in 1 .. (Len(Migration[1]) - 1)
    BY AllSteps, Step1
  <2>. QED  BY <1>2, <1>6, <2>1, Step1
<1>7. CASE c = "runs.progress"
  <2>1. 9 \in Versions /\ 2 \in 1 .. (Len(Migration[9]) - 1)
    BY AllSteps, Step9
  <2>. QED  BY <1>2, <1>7, <2>1, Step9
<1>8. CASE c = "tags"
  <2>1. 10 \in Versions /\ 2 \in 1 .. (Len(Migration[10]) - 1)
    BY AllSteps, Step10
  <2>. QED  BY <1>2, <1>8, <2>1, Step10
<1>. QED  BY FinalIs, <1>3, <1>4, <1>5, <1>6, <1>7, <1>8

(* What a database at the last version promises is the last schema. *)
LEMMA PromisedSuffices ==
  ASSUME Promised(committed), committed.applied = Versions
  PROVE  Final \subseteq committed.cols
<1>. SUFFICES ASSUME NEW c \in Final
              PROVE  c \in committed.cols
  OBVIOUS
<1>1. CASE c = "status"
  <2>1. committed.applied # {}
    BY AllSteps
  <2>. QED  BY <1>1, <2>1 DEF Promised
<1>2. CASE c # "status"
  <2>1. PICK v \in Versions : c \in Given(v, Len(Migration[v]))
    BY <1>2, FinalIsGiven
  <2>. QED  BY <2>1 DEF Promised
<1>. QED  BY <1>1, <1>2

(***************************************************************************)
(* A database that is at the last version has every column the ORM mirrors *)
(* (whatever a step skipped for what it saw, and whoever ran it beside).   *)
(***************************************************************************)
THEOREM SchemaIsEnough == MigSpec => []SchemaSuffices
<1>1. MigInv => SchemaSuffices
  BY PromisedSuffices DEF MigInv, SchemaInv, SchemaSuffices
<1>. QED  BY <1>1, MigInvariant, PTL

-----------------------------------------------------------------------------
(* With DDL in the transaction the last schema is the final one.           *)

Old == {"name", "payload", "run_state", "schedule", "locked_at"}

\* The columns that are gone when step v is at its nth statement.
Gone(c, v, n) ==
  \/ c \in Old /\ v > 4
  \/ c = "name" /\ v = 4 /\ n > 7
  \/ c = "payload" /\ v = 4 /\ n > 8
  \/ c = "schedule" /\ v = 4 /\ n > 15
  \/ c = "run_state" /\ v = 4 /\ n > 16
  \/ c = "locked_at" /\ v = 4 /\ n > 18
  \/ c = "cron" /\ v > 7
  \/ c = "cron" /\ v = 7 /\ n > 2

\* Those that the fourth step renames to are new to it.
Renamed(c, v, n) ==
  \/ v > 4
  \/ c = "job" /\ v = 4 /\ n > 7
  \/ c = "args" /\ v = 4 /\ n > 8

\* A process in a step that nobody has completed has seen all the columns that
\* the step is to remove, and none that it is to rename to.
TidySight(x) ==
  LET v == runner[x].version  n == runner[x].at
      cols == Visible(x).cols  seen == runner[x].columns
  IN
  v \notin Applied =>
    /\ \A c \in Old \cup {"cron"} : Gone(c, v, n) => c \notin cols
    /\ \A c \in {"job", "args"} : c \in cols => Renamed(c, v, n)
    /\ v = 4 /\ n > 3 => \A c \in Old : c \in cols => c \in seen
    /\ v = 4 => "job" \notin seen /\ "args" \notin seen
    /\ v = 7 /\ n > 1 => ("cron" \in cols => "cron" \in seen)

TidyTable ==
  /\ 4 \in Applied => \A c \in Old : c \notin committed.cols
  /\ 7 \in Applied => "cron" \notin committed.cols
  /\ 4 \notin Applied => "job" \notin committed.cols /\ "args" \notin committed.cols

TidyInv == TidyTable /\ \A x \in Runners : runner[x].up => TidySight(x)

\* Where the statements stand that add and remove these columns.
TidyKind(s, v, n) ==
  /\ s.op = "create" => s.on \in {"jobs", "runs", "tasks"}
  /\ s.op = "create" /\ s.on = "jobs" => v = 1
  /\ s.op = "rename" => v = 4 /\ n \in {7, 8}
  /\ s.op = "add" => /\ s.on \notin {"name", "payload", "run_state", "schedule",
                                     "job", "args"}
                     /\ s.on = "locked_at" => v = 3
                     /\ s.on = "cron" => v = 4
  /\ v = 4 => /\ n = 7 => s = Rename("name", "job")
              /\ n = 8 => s = Rename("payload", "args")
              /\ n = 15 => s = DropCol("schedule")
              /\ n = 16 => s = DropCol("run_state")
              /\ n = 18 => s = DropCol("locked_at")
  /\ v = 7 => /\ n = 2 => s = DropCol("cron")
              /\ s.op = "inspect" <=> n = 1
  /\ s.op = "inspect" /\ v = 4 => n = 3
  /\ s.op = "inspect" /\ v \in {4, 7} => s.on = "jobs"
  /\ v = 4 /\ s.op = "record" => n = 19
  /\ v = 7 /\ s.op = "record" => n = 3

(* It is so of every statement. *)
LEMMA TidyKinds ==
  ASSUME NEW v \in Versions, NEW n \in 1 .. Len(Migration[v])
  PROVE  TidyKind(Migration[v][n], v, n)
<1>1. CASE v = 1
  <2>1. n \in 1 .. 3  BY <1>1, Step1
  <2>. QED  BY <1>1, <2>1, Step1, Statements DEF TidyKind
<1>2. CASE v = 2
  <2>1. n \in 1 .. 2  BY <1>2, Step2
  <2>. QED  BY <1>2, <2>1, Step2, Statements DEF TidyKind
<1>3. CASE v = 3
  <2>1. n \in 1 .. 3  BY <1>3, Step3
  <2>. QED  BY <1>3, <2>1, Step3, Statements DEF TidyKind
<1>4. CASE v = 4
  <2>1. CASE n = 1  BY <1>4, <2>1, Step4, Statements DEF TidyKind
  <2>2. CASE n = 2  BY <1>4, <2>2, Step4, Statements DEF TidyKind
  <2>3. CASE n = 3  BY <1>4, <2>3, Step4, Statements DEF TidyKind
  <2>4. CASE n = 4  BY <1>4, <2>4, Step4, Statements DEF TidyKind
  <2>5. CASE n = 5  BY <1>4, <2>5, Step4, Statements DEF TidyKind
  <2>6. CASE n = 6  BY <1>4, <2>6, Step4, Statements DEF TidyKind
  <2>7. CASE n = 7  BY <1>4, <2>7, Step4, Statements DEF TidyKind
  <2>8. CASE n = 8  BY <1>4, <2>8, Step4, Statements DEF TidyKind
  <2>9. CASE n = 9  BY <1>4, <2>9, Step4, Statements DEF TidyKind
  <2>10. CASE n = 10  BY <1>4, <2>10, Step4, Statements DEF TidyKind
  <2>11. CASE n = 11  BY <1>4, <2>11, Step4, Statements DEF TidyKind
  <2>12. CASE n = 12  BY <1>4, <2>12, Step4, Statements DEF TidyKind
  <2>13. CASE n = 13  BY <1>4, <2>13, Step4, Statements DEF TidyKind
  <2>14. CASE n = 14  BY <1>4, <2>14, Step4, Statements DEF TidyKind
  <2>15. CASE n = 15  BY <1>4, <2>15, Step4, Statements DEF TidyKind
  <2>16. CASE n = 16  BY <1>4, <2>16, Step4, Statements DEF TidyKind
  <2>17. CASE n = 17  BY <1>4, <2>17, Step4, Statements DEF TidyKind
  <2>18. CASE n = 18  BY <1>4, <2>18, Step4, Statements DEF TidyKind
  <2>19. CASE n = 19  BY <1>4, <2>19, Step4, Statements DEF TidyKind
  <2>20. n \in 1 .. 19  BY <1>4, Step4
  <2>. QED  BY <2>20, <2>1, <2>2, <2>3, <2>4, <2>5, <2>6, <2>7, <2>8, <2>9, <2>10, <2>11, <2>12,
                <2>13, <2>14, <2>15, <2>16, <2>17, <2>18, <2>19
<1>5. CASE v = 5
  <2>1. n \in 1 .. 8  BY <1>5, Step5
  <2>. QED  BY <1>5, <2>1, Step5, Statements DEF TidyKind
<1>6. CASE v = 6
  <2>1. n \in 1 .. 4  BY <1>6, Step6
  <2>. QED  BY <1>6, <2>1, Step6, Statements DEF TidyKind
<1>7. CASE v = 7
  <2>1. n \in 1 .. 3  BY <1>7, Step7
  <2>. QED  BY <1>7, <2>1, Step7, Statements DEF TidyKind
<1>8. CASE v = 8
  <2>1. n \in 1 .. 3  BY <1>8, Step8
  <2>. QED  BY <1>8, <2>1, Step8, Statements DEF TidyKind
<1>9. CASE v = 9
  <2>1. n \in 1 .. 3  BY <1>9, Step9
  <2>. QED  BY <1>9, <2>1, Step9, Statements DEF TidyKind
<1>10. CASE v = 10
  <2>1. n \in 1 .. 3  BY <1>10, Step10
  <2>. QED  BY <1>10, <2>1, Step10, Statements DEF TidyKind
<1>. QED  BY AllSteps, <1>1, <1>2, <1>3, <1>4, <1>5, <1>6, <1>7, <1>8, <1>9, <1>10

(* A column that is to be gone after a statement is what that statement      *)
(* renames or drops, in a step that has inspected the columns.              *)
LEMMA GoneNext ==
  ASSUME NEW v \in Versions, NEW n \in 1 .. Len(Migration[v]), n \in Nat,
         NEW c \in Old \cup {"cron"}, Gone(c, v, n + 1), ~Gone(c, v, n)
  PROVE  LET s == Migration[v][n] IN
         /\ s.on = c
         /\ s.op = "drop" \/ (s.op = "rename" /\ s.to \in {"job", "args"})
         /\ (v = 4 /\ n > 3 /\ c \in Old) \/ (v = 7 /\ n > 1 /\ c = "cron")
<1>1. TidyKind(Migration[v][n], v, n)
  BY TidyKinds
<1>2. \/ v = 4 /\ n = 7 /\ c = "name"
      \/ v = 4 /\ n = 8 /\ c = "payload"
      \/ v = 4 /\ n = 15 /\ c = "schedule"
      \/ v = 4 /\ n = 16 /\ c = "run_state"
      \/ v = 4 /\ n = 18 /\ c = "locked_at"
      \/ v = 7 /\ n = 2 /\ c = "cron"
  BY DEF Gone
<1>. QED  BY <1>1, <1>2, Statements DEF TidyKind, Old

\* What a statement does to these columns.
TidiesOn(v, n, before, after) ==
  /\ \A c \in Old : c \in after => c \in before \/ v < 4
  /\ "cron" \in after => "cron" \in before \/ v = 4
  /\ \A c \in Old \cup {"cron"} : Gone(c, v, n + 1) => Gone(c, v, n) \/ c \notin after
  /\ \A c \in {"job", "args"} : c \in after => c \in before \/ Renamed(c, v, n + 1)

(* It is so of every statement. *)
LEMMA ColumnsTidy ==
  ASSUME NEW v \in Versions, NEW n \in 1 .. Len(Migration[v]), n \in Nat,
         NEW d \in Database, NEW s, s = Migration[v][n]
  PROVE  TidiesOn(v, n, d.cols, Effect(s, v, d).cols)
<1>. DEFINE e == Effect(s, v, d)
<1>1. TidyKind(s, v, n)
  BY TidyKinds
<1>2. \A c \in Old \cup {"cron"} : Gone(c, v, n + 1) /\ ~Gone(c, v, n) =>
        s.on = c /\ (s.op = "drop" \/ (s.op = "rename" /\ s.to \in {"job", "args"}))
  BY GoneNext
<1>3. CASE s.op = "create"
  <2>1. e.cols = IF s.on \in d.cols THEN d.cols ELSE d.cols \cup ColumnsOf(s.on)
    BY <1>3 DEF Effect, Database
  <2>2. "cron" \notin ColumnsOf(s.on) /\ "job" \notin ColumnsOf(s.on)
        /\ "args" \notin ColumnsOf(s.on)
    BY <1>1, <1>3 DEF ColumnsOf, TidyKind
  <2>3. \A c \in Old : c \in ColumnsOf(s.on) => v < 4
    BY <1>1, <1>3 DEF ColumnsOf, TidyKind, Old
  <2>. QED  BY <1>2, <1>3, <2>1, <2>2, <2>3 DEF TidiesOn
<1>4. CASE s.op = "add"
  <2>1. e.cols = d.cols \cup {s.on}
    BY <1>4 DEF Effect, Database
  <2>. QED  BY <1>1, <1>2, <1>4, <2>1 DEF TidiesOn, TidyKind, Old
<1>5. CASE s.op = "rename"
  <2>1. e.cols = (d.cols \ {s.on}) \cup {s.to}
    BY <1>5 DEF Effect, Database
  <2>2. \/ n = 7 /\ s.on = "name" /\ s.to = "job"
        \/ n = 8 /\ s.on = "payload" /\ s.to = "args"
    BY <1>1, <1>5, Statements DEF TidyKind
  <2>3. v = 4
    BY <1>1, <1>5 DEF TidyKind
  <2>. QED  BY <1>2, <2>1, <2>2, <2>3 DEF TidiesOn, Old, Renamed
<1>6. CASE s.op = "drop"
  <2>1. e.cols = d.cols \ {s.on}
    BY <1>6 DEF Effect, Database
  <2>. QED  BY <1>2, <2>1 DEF TidiesOn
<1>7. CASE s.op \notin {"create", "add", "rename", "drop"}
  <2>1. e.cols = d.cols
    BY <1>7 DEF Effect, Database
  <2>. QED  BY <1>2, <1>7, <2>1 DEF TidiesOn
<1>. QED  BY <1>3, <1>4, <1>5, <1>6, <1>7

(* A process that sees what it saw remains as it was. *)
LEMMA OthersTidy ==
  ASSUME NEW y \in Runners, TidySight(y), runner'[y] = runner[y],
         Visible(y)' = Visible(y), Applied' = Applied
  PROVE  TidySight(y)'
BY DEF TidySight

(* Up to its commit a step changes nothing that others see. *)
LEMMA ExecuteHides ==
  ASSUME TransactionalDDL, MigInv, NEW x \in Runners, Execute(x)
  PROVE  /\ committed' = committed
         /\ Visible(x) = db
         /\ Visible(x)' = Effect(Statement(x), runner[x].version, db)
         /\ \A y \in Runners : y # x => Visible(y)' = Visible(y)
<1>1. PICK s, d : s = Statement(x) /\ d = Effect(s, runner[x].version, db)
  OBVIOUS
<1>2. /\ db' = d /\ writer \in {None, x} /\ x # None
      /\ IF writer = x \/ (Opens(s) /\ (s.op \in DML \/ d # db))
         THEN writer' = x /\ committed' = committed
         ELSE committed' = d /\ writer' = writer
  BY <1>1, MigrationsAssumption DEF Execute
<1>3. Opens(s) /\ (writer = None => db = committed)
  BY DEF Opens, MigInv, LockInv
<1>4. CASE writer = x \/ s.op \in DML \/ d # db
  <2>1. writer' = x /\ committed' = committed
    BY <1>2, <1>3, <1>4
  <2>2. \A y \in Runners : y # x => writer # y /\ writer' # y
    BY <1>2, <2>1, MigrationsAssumption
  <2>. QED  BY <1>1, <1>2, <1>3, <2>1, <2>2 DEF Visible
<1>5. CASE ~(writer = x \/ s.op \in DML \/ d # db)
  <2>1. writer' = writer /\ committed' = d /\ d = db /\ writer = None /\ db = committed
    BY <1>2, <1>3, <1>5
  <2>. QED  BY <1>1, <1>2, <2>1, MigrationsAssumption DEF Visible
<1>. QED  BY <1>4, <1>5

(* A process that is at the first statement of the next step. *)
LEMMA StartsTidy ==
  ASSUME NEW v \in 1 .. 10, NEW cols, NEW applied,
         \A u \in 1 .. 10 : u < v => u \in applied,
         \A w \in applied : w < v,
         4 \in applied => \A c \in Old : c \notin cols,
         7 \in applied => "cron" \notin cols,
         4 \notin applied => "job" \notin cols /\ "args" \notin cols,
         v \notin applied
  PROVE  /\ \A c \in Old \cup {"cron"} : Gone(c, v, 1) => c \notin cols
         /\ \A c \in {"job", "args"} : c \in cols => Renamed(c, v, 1)
<1>1. 4 \in applied => v > 4
  OBVIOUS
<1>2. v > 4 => 4 \in applied
  OBVIOUS
<1>3. v > 7 => 7 \in applied
  OBVIOUS
<1>. QED  BY <1>1, <1>2, <1>3 DEF Gone, Renamed, Old

(* It holds at first: nothing has been renamed, and no step promises more. *)
LEMMA InitTidy ==
  ASSUME MigInit
  PROVE  TidyInv
<1>1. PICK cols \in {{}, ColumnsOf("jobs"), ColumnsOf("jobs") \cup {"locked_at"}},
           applied \in {{}, 1 .. 3} : db.cols = cols /\ db.applied = applied
  BY DEF MigInit, InitialDatabase
<1>2. 4 \notin applied /\ 7 \notin applied /\ "job" \notin cols /\ "args" \notin cols
  BY DEF ColumnsOf
<1>3. committed = db /\ \A x \in Runners : ~runner[x].up
  BY DEF MigInit, Down
<1>. QED  BY <1>1, <1>2, <1>3 DEF TidyInv, TidyTable, Applied

(* It holds of a process that begins. *)
LEMMA BeginTidy ==
  ASSUME MigInv, TidyInv, NEW x \in Runners, Begin(x)
  PROVE  TidyInv'
<1>1. PICK k \in 0 .. 10 : Applied = 1 .. k
  BY DEF MigInv, OrderInv
<1>2. Current(committed) = k
  BY <1>1, CurrentIs DEF Applied
<1>3. /\ runner' = [runner EXCEPT ![x] = [Down EXCEPT !.up = TRUE, !.version = k + 1]]
      /\ db' = db /\ committed' = committed /\ writer' = writer
      /\ ~runner[x].up /\ k < 10
  BY <1>2, AllSteps DEF Begin
<1>4. /\ runner'[x].version = k + 1 /\ runner'[x].at = 1
      /\ runner'[x].columns = {}
      /\ \A y \in Runners : y # x => runner'[y] = runner[y]
  BY <1>3 DEF MigInv, MigTypes, Down
<1>5. Applied' = Applied /\ \A y \in Runners : Visible(y)' = Visible(y)
  BY <1>3 DEF Applied, Visible
<1>6. TidyTable'
  BY <1>3, <1>5 DEF TidyInv, TidyTable
<1>7. TidySight(x)'
  <2>1. writer # x
    BY <1>3, MigrationsAssumption DEF MigInv, LockInv
  <2>2. Visible(x)' = committed
    BY <1>3, <2>1 DEF Visible
  <2>3. /\ k + 1 \in 1 .. 10
        /\ \A u \in Applied : u < k + 1
        /\ \A u \in 1 .. 10 : u < k + 1 => u \in Applied
    BY <1>1, <1>3
  <2>4. /\ \A c \in Old \cup {"cron"} : Gone(c, k + 1, 1) => c \notin committed.cols
        /\ \A c \in {"job", "args"} : c \in committed.cols => Renamed(c, k + 1, 1)
    BY <2>3, StartsTidy DEF TidyInv, TidyTable
  <2>. QED  BY <1>4, <2>2, <2>4 DEF TidySight
<1>8. ASSUME NEW y \in Runners, runner'[y].up
      PROVE  TidySight(y)'
  <2>1. CASE y = x
    BY <1>7, <2>1
  <2>2. CASE y # x
    BY <1>4, <1>5, <1>8, <2>2, OthersTidy DEF TidyInv
  <2>. QED  BY <2>1, <2>2
<1>. QED  BY <1>6, <1>8 DEF TidyInv

(* One process passes a statement, and its columns become cols. *)
LEMMA PassTidy ==
  ASSUME MigInv, TidyInv, NEW x \in Runners, runner[x].up,
         NEW row \in [up : BOOLEAN, version : Nat, at : Nat, columns : SUBSET Columns],
         row.version = runner[x].version, row.at = runner[x].at + 1,
         runner' = [runner EXCEPT ![x] = row],
         committed' = committed,
         \A y \in Runners : y # x => Visible(y)' = Visible(y),
         TidySight(x)'
  PROVE  TidyInv'
<1>1. \A y \in Runners : y # x => runner'[y] = runner[y]
  BY DEF MigInv, MigTypes
<1>2. Applied' = Applied /\ TidyTable'
  BY DEF Applied, TidyInv, TidyTable
<1>3. ASSUME NEW y \in Runners, runner'[y].up, y # x
      PROVE  TidySight(y)'
  BY <1>1, <1>2, <1>3, OthersTidy DEF TidyInv
<1>. QED  BY <1>2, <1>3 DEF TidyInv

(* It holds of a process that inspects the columns. *)
LEMMA LookTidy ==
  ASSUME MigInv, TidyInv, NEW x \in Runners, Look(x)
  PROVE  TidyInv'
<1>1. PICK v, n, cols : v = runner[x].version /\ n = runner[x].at /\ cols = Visible(x).cols
  OBVIOUS
<1>2. /\ v \in Versions /\ v \in 1 .. 10 /\ n \in Nat /\ n \in 1 .. Len(Migration[v])
      /\ runner[x].up /\ Migration[v][n].op = "inspect"
      /\ TidyKind(Migration[v][n], v, n)
  BY <1>1, AtStatement, TidyKinds DEF Look, MigInv
<1>3. runner[x] \in [up : BOOLEAN, version : Nat, at : Nat, columns : SUBSET Columns]
  BY DEF MigInv, MigTypes
<1>4. PICK seen : seen = runner[x].columns \cup ColumnsIn(Statement(x).on, cols)
  OBVIOUS
<1>a. seen \subseteq Columns
  <2>1. cols \subseteq Columns
    BY <1>1, AtDatabase DEF Database, Columns
  <2>. QED  BY <1>3, <1>4, <2>1 DEF ColumnsIn
<1>b. v \in {4, 7} => \A c \in Old \cup {"cron", "job", "args"} :
        /\ c \in cols => c \in seen
        /\ c \in seen => c \in cols \/ c \in runner[x].columns
  <2>1. v \in {4, 7} => Statement(x).on = "jobs"
    BY <1>1, <1>2, AtStatement DEF TidyKind, MigInv
  <2>. QED  BY <1>4, <2>1 DEF ColumnsIn, Old, RunColumns, TaskColumns
<1>5. PICK row : row = [runner[x] EXCEPT !.at = n + 1, !.columns = seen]
  OBVIOUS
<1>6. row.version = v /\ row.at = n + 1 /\ row.columns = seen
  BY <1>1, <1>3, <1>5
<1>7. row \in [up : BOOLEAN, version : Nat, at : Nat, columns : SUBSET Columns]
  <2>1. n + 1 \in Nat
    BY <1>2
  <2>. QED  BY <1>3, <1>5, <1>a, <2>1
<1>8. runner' = [runner EXCEPT ![x] = row] /\ runner'[x] = row
      /\ db' = db /\ committed' = committed /\ writer' = writer
  BY <1>1, <1>4, <1>5 DEF Look, MigInv, MigTypes
<1>9. Applied' = Applied /\ \A y \in Runners : Visible(y)' = Visible(y)
  BY <1>8 DEF Applied, Visible
<1>10. TidySight(x)'
  <2>1. TidySight(x)
    BY <1>2 DEF TidyInv
  <2>2. \A c \in Old \cup {"cron"} : Gone(c, v, n + 1) => Gone(c, v, n)
    BY <1>2, GoneNext
  <2>3. v = 4 => n = 3
    BY <1>2 DEF TidyKind
  <2>4. \A c \in {"job", "args"} : Renamed(c, v, n) => Renamed(c, v, n + 1)
    BY <1>2 DEF Renamed
  <2>5. v \notin Applied /\ v = 4 => "job" \notin cols /\ "args" \notin cols
    BY <1>1, <2>1, <2>3 DEF TidySight, Renamed
  <2>6. v \notin Applied /\ v = 4 => /\ \A c \in Old : c \in cols => c \in seen
                                    /\ "job" \notin seen /\ "args" \notin seen
    BY <1>1, <1>b, <2>1, <2>5 DEF TidySight
  <2>7. v = 7 => ("cron" \in cols => "cron" \in seen)
    BY <1>b
  <2>. QED  BY <1>1, <1>6, <1>8, <1>9, <2>1, <2>2, <2>4, <2>6, <2>7 DEF TidySight
<1>. QED  BY <1>1, <1>2, <1>6, <1>7, <1>8, <1>9, <1>10, PassTidy

(* It holds of a process that skips: what it has not seen is not there. *)
LEMMA SkipTidy ==
  ASSUME MigInv, TidyInv, NEW x \in Runners, Skip(x)
  PROVE  TidyInv'
<1>1. PICK v, n, cols, seen : v = runner[x].version /\ n = runner[x].at
                              /\ cols = Visible(x).cols /\ seen = runner[x].columns
  OBVIOUS
<1>2. PICK s : s = Statement(x)
  OBVIOUS
<1>3. /\ v \in Versions /\ v \in 1 .. 10 /\ n \in Nat /\ n \in 1 .. Len(Migration[v])
      /\ runner[x].up /\ s = Migration[v][n]
  BY <1>1, <1>2, AtStatement DEF Skip, MigInv
<1>4. \/ s.op = "rename" /\ ~(s.on \in seen /\ s.to \notin seen)
      \/ s.op = "add" /\ s.on \in seen
      \/ s.op \in {"drop", "split", "backfill", "collapse"} /\ s.on \notin seen
  BY <1>1, <1>2 DEF Skip, Skips
<1>5. runner[x] \in [up : BOOLEAN, version : Nat, at : Nat, columns : SUBSET Columns]
  BY DEF MigInv, MigTypes
<1>6. PICK row : row = [runner[x] EXCEPT !.at = n + 1]
  OBVIOUS
<1>7. row.version = v /\ row.at = n + 1 /\ row.columns = seen
  BY <1>1, <1>5, <1>6
<1>8. row \in [up : BOOLEAN, version : Nat, at : Nat, columns : SUBSET Columns]
  <2>1. n + 1 \in Nat
    BY <1>3
  <2>. QED  BY <1>5, <1>6, <2>1
<1>9. runner' = [runner EXCEPT ![x] = row] /\ runner'[x] = row
      /\ db' = db /\ committed' = committed /\ writer' = writer
  BY <1>1, <1>6 DEF Skip, Advance, MigInv, MigTypes
<1>10. Applied' = Applied /\ \A y \in Runners : Visible(y)' = Visible(y)
  BY <1>9 DEF Applied, Visible
<1>11. TidySight(x)'
  <2>1. TidySight(x)
    BY <1>3 DEF TidyInv
  <2>2. ASSUME v \notin Applied, NEW c \in Old \cup {"cron"}, Gone(c, v, n + 1)
        PROVE  c \notin cols
    <3>1. CASE Gone(c, v, n)
      BY <1>1, <2>1, <2>2, <3>1 DEF TidySight
    <3>2. CASE ~Gone(c, v, n)
      <4>1. /\ s.on = c
            /\ s.op = "drop" \/ (s.op = "rename" /\ s.to \in {"job", "args"})
            /\ (v = 4 /\ n > 3 /\ c \in Old) \/ (v = 7 /\ n > 1 /\ c = "cron")
        BY <1>3, <2>2, <3>2, GoneNext
      <4>2. v = 7 => s.op # "rename"
        BY <1>3, TidyKinds DEF TidyKind
      <4>3. c \notin seen
        BY <1>1, <1>4, <2>1, <2>2, <4>1, <4>2 DEF TidySight
      <4>. QED  BY <1>1, <2>1, <2>2, <4>1, <4>3 DEF TidySight
    <3>. QED  BY <3>1, <3>2
  <2>3. \A c \in {"job", "args"} : Renamed(c, v, n) => Renamed(c, v, n + 1)
    BY <1>3 DEF Renamed
  <2>4. s.op # "inspect"
    BY <1>4
  <2>5. (v = 4 /\ n + 1 > 3 => n > 3) /\ (v = 7 /\ n + 1 > 1 => n > 1)
    <3>1. v = 4 => n # 3
      BY <1>3, <2>4, Kinds DEF KindInv
    <3>2. v = 7 => n # 1
      BY <1>3, <2>4, TidyKinds DEF TidyKind
    <3>. QED  BY <1>3, <3>1, <3>2
  <2>. QED  BY <1>1, <1>7, <1>9, <1>10, <2>1, <2>2, <2>3, <2>5 DEF TidySight
<1>. QED  BY <1>1, <1>3, <1>7, <1>8, <1>9, <1>10, <1>11, PassTidy

(* It holds of a process that executes a statement. *)
LEMMA ExecuteTidy ==
  ASSUME TransactionalDDL, MigInv, TidyInv, NEW x \in Runners, Execute(x)
  PROVE  TidyInv'
<1>1. PICK v, n, cols : v = runner[x].version /\ n = runner[x].at /\ cols = db.cols
  OBVIOUS
<1>2. PICK s, after : s = Statement(x) /\ after = Effect(s, v, db).cols
  OBVIOUS
<1>3. /\ v \in Versions /\ v \in 1 .. 10 /\ n \in Nat /\ n \in 1 .. Len(Migration[v])
      /\ runner[x].up /\ s = Migration[v][n] /\ s.op # "inspect"
  BY <1>1, <1>2, AtStatement DEF Execute, MigInv
<1>4. /\ committed' = committed
      /\ Visible(x).cols = cols /\ Visible(x)'.cols = after
      /\ \A y \in Runners : y # x => Visible(y)' = Visible(y)
  BY <1>1, <1>2, ExecuteHides
<1>5. TidiesOn(v, n, cols, after)
  BY <1>1, <1>2, <1>3, ColumnsTidy DEF MigInv, MigTypes
<1>6. runner[x] \in [up : BOOLEAN, version : Nat, at : Nat, columns : SUBSET Columns]
  BY DEF MigInv, MigTypes
<1>7. PICK row : row = [runner[x] EXCEPT !.at = n + 1]
  OBVIOUS
<1>8. row.version = v /\ row.at = n + 1 /\ row.columns = runner[x].columns
  BY <1>1, <1>6, <1>7
<1>9. row \in [up : BOOLEAN, version : Nat, at : Nat, columns : SUBSET Columns]
  <2>1. n + 1 \in Nat
    BY <1>3
  <2>. QED  BY <1>6, <1>7, <2>1
<1>10. runner' = [runner EXCEPT ![x] = row] /\ runner'[x] = row
  BY <1>1, <1>7 DEF Execute, Advance, MigInv, MigTypes
<1>11. Applied' = Applied
  BY <1>4 DEF Applied
<1>12. TidySight(x)'
  <2>1. TidySight(x)
    BY <1>3 DEF TidyInv
  <2>2. ASSUME v \notin Applied, NEW c \in Old \cup {"cron"}, Gone(c, v, n + 1)
        PROVE  c \notin after
    <3>1. CASE Gone(c, v, n)
      <4>1. c \notin cols
        BY <1>1, <1>4, <2>1, <2>2, <3>1 DEF TidySight
      <4>2. IF c = "cron" THEN v # 4 ELSE ~(v < 4)
        BY <1>3, <3>1 DEF Gone, Old
      <4>. QED  BY <1>5, <4>1, <4>2 DEF TidiesOn
    <3>2. CASE ~Gone(c, v, n)
      BY <1>5, <2>2, <3>2 DEF TidiesOn
    <3>. QED  BY <3>1, <3>2
  <2>3. ASSUME v \notin Applied, NEW c \in {"job", "args"}, c \in after
        PROVE  Renamed(c, v, n + 1)
    <3>1. c \in cols => Renamed(c, v, n)
      BY <1>1, <1>4, <2>1, <2>3 DEF TidySight
    <3>2. Renamed(c, v, n) => Renamed(c, v, n + 1)
      BY <1>3 DEF Renamed
    <3>. QED  BY <1>5, <2>3, <3>1, <3>2 DEF TidiesOn
  <2>4. (v = 4 /\ n + 1 > 3 => n > 3) /\ (v = 7 /\ n + 1 > 1 => n > 1)
    <3>1. v = 4 => n # 3
      BY <1>3, Kinds DEF KindInv
    <3>2. v = 7 => n # 1
      BY <1>3, TidyKinds DEF TidyKind
    <3>. QED  BY <1>3, <3>1, <3>2
  <2>5. /\ v = 4 => \A c \in Old : c \in after => c \in cols
        /\ v = 7 => ("cron" \in after => "cron" \in cols)
    BY <1>5 DEF TidiesOn
  <2>. QED  BY <1>1, <1>4, <1>8, <1>10, <1>11, <2>1, <2>2, <2>3, <2>4, <2>5
            DEF TidySight
<1>. QED  BY <1>1, <1>3, <1>4, <1>8, <1>9, <1>10, <1>12, PassTidy

(* It holds of what is committed: only a step nobody has recorded can be. *)
LEMMA CommitTidy ==
  ASSUME MigInv, TidyInv, NEW x \in Runners, Commit(x)
  PROVE  TidyInv'
<1>1. PICK v, n : v = runner[x].version /\ n = runner[x].at
  OBVIOUS
<1>2. /\ runner[x].up /\ Statement(x).op = "record" /\ writer \in {None, x}
      /\ x # None
  BY MigrationsAssumption DEF Commit
<1>3. /\ v \in Versions /\ v \in 1 .. 10 /\ n \in Nat
      /\ n \in 1 .. Len(Migration[v]) /\ Statement(x) = Migration[v][n]
  BY <1>1, <1>2, AtStatement DEF MigInv
<1>4. (v = 4 => n = 19) /\ (v = 7 => n = 3)
  BY <1>2, <1>3, TidyKinds DEF TidyKind
<1>5. PICK d : d = Effect(Record, v, db)
  OBVIOUS
<1>6. /\ committed' = d /\ db' = d /\ writer' = None /\ v \notin Applied
      /\ runner' = [runner EXCEPT ![x] =
           IF v = 10 THEN Down ELSE [Down EXCEPT !.up = TRUE, !.version = v + 1]]
  BY <1>1, <1>5, Statements, AllSteps DEF Commit, Fails, MigInv, LockInv, Applied
<1>7. d.cols = db.cols /\ Applied' = Applied \cup {v}
  <2>1. db \in Database /\ db.applied = Applied
    BY DEF MigInv, MigTypes, LockInv, Applied
  <2>2. d.cols = db.cols
    BY <1>5, <2>1, Statements DEF Effect, Database
  <2>. QED  BY <1>3, <1>5, <1>6, <2>1, <2>2, Statements, Untouched DEF Applied
<1>8. Visible(x) = db /\ \A y \in Runners : Visible(y)' = d
  BY <1>2, <1>6, MigrationsAssumption DEF Visible, MigInv, LockInv
<1>9. \A u \in 1 .. 10 : u < v => u \in Applied
  BY <1>1, <1>2 DEF MigInv, OrderInv
<1>10. PICK k \in 0 .. 10 : Applied = 1 .. k
  BY DEF MigInv, OrderInv
<1>11. \A w \in Applied : w < v
  <2>1. v > k
    BY <1>3, <1>6, <1>10
  <2>. QED  BY <1>3, <1>10, <2>1
<1>12. /\ 4 \in Applied' => \A c \in Old : c \notin d.cols
       /\ 7 \in Applied' => "cron" \notin d.cols
       /\ 4 \notin Applied' => "job" \notin d.cols /\ "args" \notin d.cols
  <2>1. /\ \A c \in Old \cup {"cron"} : Gone(c, v, n) => c \notin d.cols
        /\ \A c \in {"job", "args"} : c \in d.cols => Renamed(c, v, n)
    BY <1>1, <1>2, <1>6, <1>7, <1>8 DEF TidyInv, TidySight
  <2>2. 4 \in Applied' => v >= 4
    BY <1>7, <1>11, <1>3
  <2>3. 7 \in Applied' => v >= 7
    BY <1>7, <1>11, <1>3
  <2>4. 4 \notin Applied' => v < 4
    BY <1>3, <1>7, <1>9
  <2>5. v >= 4 => \A c \in Old : Gone(c, v, n)
    BY <1>3, <1>4 DEF Gone, Old
  <2>6. v >= 7 => Gone("cron", v, n)
    BY <1>3, <1>4 DEF Gone
  <2>7. v < 4 => \A c \in {"job", "args"} : ~Renamed(c, v, n)
    BY <1>3 DEF Renamed
  <2>. QED  BY <2>1, <2>2, <2>3, <2>4, <2>5, <2>6, <2>7
<1>13. TidyTable'
  BY <1>6, <1>12 DEF TidyTable
<1>14. /\ v = 10 => ~runner'[x].up
       /\ v # 10 => /\ runner'[x].version = v + 1 /\ runner'[x].at = 1
                    /\ runner'[x].columns = {}
       /\ \A y \in Runners : y # x => runner'[y] = runner[y]
  BY <1>6 DEF MigInv, MigTypes, Down
<1>15. ASSUME NEW y \in Runners, runner'[y].up
       PROVE  TidySight(y)'
  <2>1. CASE y = x
    <3>1. v + 1 \in 1 .. 10 /\ v + 1 \notin Applied'
      BY <1>3, <1>7, <1>11, <1>14, <1>15, <2>1
    <3>2. \A w \in Applied' : w < v + 1
      BY <1>3, <1>7, <1>10, <1>11
    <3>3. \A u \in 1 .. 10 : u < v + 1 => u \in Applied'
      BY <1>3, <1>7, <1>9
    <3>4. /\ \A c \in Old \cup {"cron"} : Gone(c, v + 1, 1) => c \notin d.cols
          /\ \A c \in {"job", "args"} : c \in d.cols => Renamed(c, v + 1, 1)
      BY <1>12, <3>1, <3>2, <3>3, StartsTidy
    <3>. QED  BY <1>8, <1>14, <1>15, <2>1, <3>4 DEF TidySight
  <2>2. CASE y # x
    <3>1. PICK w : w = runner[y].version
      OBVIOUS
    <3>2. runner[y].up /\ runner'[y].version = w /\ w \in 1 .. 10
      BY <1>14, <1>15, <2>2, <3>1, AtStatement DEF MigInv
    <3>3. w <= v
      <4>1. ASSUME v < w  PROVE v \in Applied
        BY <1>3, <3>1, <3>2, <4>1 DEF MigInv, OrderInv
      <4>. QED  BY <1>3, <1>6, <3>2, <4>1
    <3>4. w \in Applied'
      BY <1>3, <1>7, <1>9, <3>2, <3>3
    <3>. QED  BY <3>2, <3>4 DEF TidySight
  <2>. QED  BY <2>1, <2>2
<1>. QED  BY <1>13, <1>15 DEF TidyInv

(* It holds of what a process leaves that raises or dies. *)
LEMMA EndsTidy ==
  ASSUME MigInv, TidyInv, NEW x \in Runners, Ends(x)
  PROVE  TidyInv'
<1>1. /\ runner' = [runner EXCEPT ![x] = Down] /\ committed' = committed
      /\ writer = x => db' = committed /\ writer' = None
      /\ writer # x => db' = db /\ writer' = writer
  BY DEF Ends
<1>2. ~runner'[x].up /\ \A y \in Runners : y # x => runner'[y] = runner[y]
  BY <1>1 DEF MigInv, MigTypes, Down
<1>3. /\ Applied' = Applied /\ TidyTable'
      /\ \A y \in Runners : y # x => Visible(y)' = Visible(y)
  BY <1>1, MigrationsAssumption DEF Applied, Visible, TidyInv, TidyTable
<1>4. ASSUME NEW y \in Runners, runner'[y].up
      PROVE  TidySight(y)'
  BY <1>2, <1>3, <1>4, OthersTidy DEF TidyInv
<1>. QED  BY <1>3, <1>4 DEF TidyInv

(***************************************************************************)
(* With transactional DDL (PostgreSQL) a database at the last version has  *)
(* exactly the final schema, for any number of processes and crashes:      *)
(* nothing that was dropped comes back.  On SQLite it may, for a process   *)
(* that inspected the columns early adds them back outside a transaction.  *)
(***************************************************************************)
THEOREM SchemaIsTidy == TransactionalDDL => (MigSpec => []SchemaIsFinal)
<1>1. SUFFICES ASSUME TransactionalDDL PROVE MigSpec => []SchemaIsFinal
  OBVIOUS
<1>2. MigInit => TidyInv
  BY InitTidy
<1>3. MigInv /\ TidyInv /\ [MigNext]_migVars => TidyInv'
  <2>. SUFFICES ASSUME MigInv, TidyInv, [MigNext]_migVars
                PROVE  TidyInv'
    OBVIOUS
  <2>1. ASSUME NEW x \in Runners, MigStep(x) \/ Crash(x)
        PROVE  TidyInv'
    <3>1. CASE Begin(x)
      BY <3>1, BeginTidy
    <3>2. CASE Look(x)
      BY <3>2, LookTidy
    <3>3. CASE Skip(x)
      BY <3>3, SkipTidy
    <3>4. CASE Execute(x)
      BY <1>1, <3>4, ExecuteTidy
    <3>5. CASE Commit(x)
      BY <3>5, CommitTidy
    <3>6. CASE Raise(x) \/ Crash(x)
      <4>1. Ends(x)
        BY <3>6 DEF Raise, Crash
      <4>. QED  BY <4>1, EndsTidy
    <3>. QED  BY <2>1, <3>1, <3>2, <3>3, <3>4, <3>5, <3>6 DEF MigStep
  <2>2. CASE UNCHANGED migVars
    <3>1. /\ runner' = runner /\ Applied' = Applied
          /\ \A y \in Runners : Visible(y)' = Visible(y)
      BY <2>2 DEF migVars, Applied, Visible
    <3>2. TidyTable'
      BY <2>2 DEF migVars, TidyInv, TidyTable, Applied
    <3>. QED  BY <3>1, <3>2, OthersTidy DEF TidyInv
  <2>. QED  BY <2>1, <2>2 DEF MigNext
<1>4. MigInv /\ TidyInv => SchemaIsFinal
  <2>. SUFFICES ASSUME MigInv, TidyInv, committed.applied = Versions
                PROVE  committed.cols = Final
    BY DEF SchemaIsFinal
  <2>1. Final \subseteq committed.cols
    BY PromisedSuffices DEF MigInv, SchemaInv
  <2>2. committed.cols \subseteq Columns
    BY DEF MigInv, MigTypes, Database, Columns
  <2>3. \A c \in Old \cup {"cron"} : c \notin committed.cols
    BY AllSteps DEF TidyInv, TidyTable, Applied
  <2>4. Columns \subseteq Final \cup Old \cup {"cron"}
    BY ColumnsAre, FinalIs DEF Old
  <2>. QED  BY <2>1, <2>2, <2>3, <2>4
<1>. QED  BY <1>2, <1>3, <1>4, MigInvariant, PTL DEF MigSpec
=============================================================================
