------------------------------- MODULE BeatProofs -------------------------------
(***************************************************************************)
(* Proofs about the beat, for any number of jobs, beats, workers and rows: *)
(* type correctness, what the sweep of abandoned runs spares, whom it      *)
(* re-arms, and one run in flight per job where beats and workers are      *)
(* prompt; crashes are unbounded.                                          *)
(***************************************************************************)
EXTENDS Beat, TLAPS

\* Type correctness takes more: whoever is at work has a job, as every row has.
RowsOK ==
  /\ run \in [RunIds -> RunRow]
  /\ \A r \in RunIds : run[r].status # "none" => run[r].job \in Jobs

SlotsOK ==
  /\ slot \in [Slots -> SlotState]
  /\ \A s \in Slots : slot[s].pc # "idle" => slot[s].job \in Jobs

BeatsOK ==
  /\ beat \in [Beats -> BeatState]
  /\ \A b \in Beats : beat[b].pc = "create" => beat[b].job \in Jobs

Typed ==
  /\ job \in [Jobs -> JobRow]
  /\ RowsOK /\ SlotsOK /\ BeatsOK
  /\ lastClaim \in [Beats -> BOOLEAN]
  /\ crashes \in 0 .. MaxCrashes

\* A slot holds the run it works on, alone, and a run that is held is running
\* or was cancelled.
HolderInv ==
  /\ \A s \in Slots : Working(s) <=> slot[s].run # 0
  /\ \A s \in Slots : Working(s) =>
       /\ run[slot[s].run].status \in {"running", "cancelled"}
       /\ run[slot[s].run].job = slot[s].job
  /\ \A s, t \in Slots : Working(s) /\ Working(t) /\ slot[s].run = slot[t].run => s = t

\* Time does not pass beyond Grace for a job that is being fired or run.
AllPrompt == Prompt = {"beats", "runs"}

PromptInv == \A j \in Jobs : BeingFired(j) \/ BeingRun(j) => job[j].idle <= Grace

\* The worker that ended a run of the job has yet to re-arm it.
Finishing(s, j) == slot[s].pc \notin {"idle", "work"} /\ slot[s].job = j

\* Beat b is about to fire the job.
Firing(b, j) == beat[b].pc = "create" /\ beat[b].job = j

\* An active job is armed, about to be fired, in flight or about to be re-armed,
\* never two of these; a run ages no faster than its job, and the sweep selects
\* runs of cancelled jobs only.
Turn(j) ==
  /\ \A r, q \in OnRow(j) : r = q
  /\ BeingFired(j) => ~InFlight(j)
  /\ \A b, c \in Beats : Firing(b, j) /\ Firing(c, j) => b = c
  /\ job[j].status = "active" =>
       /\ job[j].next # None => ~BeingFired(j) /\ ~BeingRun(j)
       /\ \A s \in Slots : Finishing(s, j) =>
            /\ ~BeingFired(j) /\ ~InFlight(j)
            /\ \A t \in Slots : Finishing(t, j) => s = t
       /\ \A r \in OnRow(j) : run[r].age <= job[j].idle
  /\ job[j].status = "absent" => ~BeingFired(j) /\ ~BeingRun(j)
  /\ \A r \in RunIds : run[r].status = "cancelled" /\ run[r].job = j =>
                       job[j].status = "cancelled"
  /\ \A b \in Beats : j \in beat[b].of => job[j].status = "cancelled"

NeverRetries == \A s \in Slots : slot[s].pc \notin {"increment", "retry"}

OneTurnInv == NeverRetries /\ \A j \in Jobs : Turn(j)

-----------------------------------------------------------------------------
(* Type correctness.                                                        *)

Numbers == MaxRuns \in Nat /\ Grace \in Nat /\ Retries \in Nat /\ Late \in Nat
           /\ MaxCrashes \in Nat /\ Batch \in Nat \ {0}

LEMMA BoundsAreNumbers == Numbers
BY BeatAssumption DEF Numbers

LEMMA NoRunTyped == NoRun \in RunRow
BY BoundsAreNumbers DEF Numbers, NoRun, RunRow, Old

\* The row InsertRun writes, and that it is a new one.
LEMMA Inserted ==
  ASSUME RowsOK, NEW j \in Jobs, NEW delay \in {0, 1}, InsertRun(j, delay)
  PROVE  \E r \in RunIds, row \in RunRow :
           /\ run[r] = NoRun
           /\ run' = [run EXCEPT ![r] = row]
           /\ row.status = "ready" /\ row.job = j /\ row.age = 0 /\ row.wait = -delay
<1>1. PICK r \in RunIds :
        /\ run[r] = NoRun
        /\ run' = [run EXCEPT ![r] = [NoRun EXCEPT !.status = "ready", !.job = j,
                                                  !.wait = -delay]]
  BY DEF InsertRun
<1>2. -delay \in -1 .. Old
  BY BoundsAreNumbers DEF Numbers, Old
<1>3. \A x \in RunRow, w \in -1 .. Old :
        /\ [x EXCEPT !.status = "ready", !.job = j, !.wait = w] \in RunRow
        /\ [x EXCEPT !.status = "ready", !.job = j, !.wait = w].status = "ready"
        /\ [x EXCEPT !.status = "ready", !.job = j, !.wait = w].job = j
        /\ [x EXCEPT !.status = "ready", !.job = j, !.wait = w].age = x.age
        /\ [x EXCEPT !.status = "ready", !.job = j, !.wait = w].wait = w
  BY DEF RunRow
<1>4. NoRun.age = 0
  BY DEF NoRun
<1>5. PICK row \in RunRow :
        /\ row = [NoRun EXCEPT !.status = "ready", !.job = j, !.wait = -delay]
        /\ row.status = "ready" /\ row.job = j /\ row.age = 0 /\ row.wait = -delay
  BY <1>2, <1>3, <1>4, NoRunTyped
<1>. QED BY <1>1, <1>5

LEMMA InsertTyped ==
  ASSUME RowsOK, NEW j \in Jobs, NEW delay \in {0, 1}, InsertRun(j, delay)
  PROVE  RowsOK'
BY Inserted DEF RowsOK

LEMMA EndTyped ==
  ASSUME RowsOK, NEW s, EndRun(s)
  PROVE  RowsOK'
<1>1. \A r \in RunIds : run'[r] = run[r] \/ run'[r] = NoRun
  BY DEF EndRun, RowsOK
<1>2. run' = [r \in RunIds |-> run'[r]]
  BY DEF EndRun, RowsOK
<1>3. \A r \in RunIds : run'[r] \in RunRow
  BY <1>1, NoRunTyped DEF RowsOK
<1>4. run' \in [RunIds -> RunRow]
  BY <1>2, <1>3
<1>5. \A r \in RunIds : run'[r].status # "none" => run'[r].job \in Jobs
  BY <1>1 DEF RowsOK, NoRun
<1>. QED BY <1>4, <1>5 DEF RowsOK

LEMMA ArmTyped ==
  ASSUME job \in [Jobs -> JobRow], NEW j, NEW next \in NextRun, Arm(j, next)
  PROVE  job' \in [Jobs -> JobRow]
<1>1. CASE j \in Jobs
  <2>1. job' = [job EXCEPT ![j] = [job[j] EXCEPT !.next = next, !.idle = 0]]
    BY <1>1 DEF Arm
  <2>2. 0 \in 0 .. Old
    BY BoundsAreNumbers DEF Numbers, Old
  <2>3. [job[j] EXCEPT !.next = next, !.idle = 0] \in JobRow
    BY <1>1, <2>2 DEF JobRow
  <2>. QED BY <2>1, <2>3
<1>2. CASE j \notin Jobs
  BY <1>2 DEF Arm
<1>. QED BY <1>1, <1>2

LEMMA ContinueTyped ==
  ASSUME SlotsOK, NEW s \in Slots, slot[s].job \in Jobs,
         NEW label \in {"reset", "increment", "retry", "rearm", "rearmNow"},
         Continue(s, label)
  PROVE  SlotsOK'
BY DEF Continue, SlotsOK, SlotState

LEMMA IdleSlotTyped ==
  ASSUME SlotsOK, NEW s \in Slots, slot' = [slot EXCEPT ![s] = IdleSlot]
  PROVE  SlotsOK'
BY DEF SlotsOK, SlotState, IdleSlot

LEMMA IdleBeatOK == IdleBeat \in BeatState /\ IdleBeat.pc = "idle"
BY DEF BeatState, IdleBeat, NextRun

LEMMA IdleBeatTyped ==
  ASSUME BeatsOK, NEW b \in Beats, beat' = [beat EXCEPT ![b] = IdleBeat]
  PROVE  BeatsOK'
BY IdleBeatOK DEF BeatsOK

LEMMA InitTyped == Init => Typed
<1>1. [status |-> "absent", source |-> "scheduled", next |-> None, idle |-> 0,
       attempts |-> 0] \in JobRow
  BY BoundsAreNumbers DEF JobRow, NextRun, Old, Numbers
<1>2. IdleSlot \in SlotState
  BY DEF IdleSlot, SlotState
<1>. QED BY <1>1, <1>2, NoRunTyped, IdleBeatOK, BoundsAreNumbers
         DEF Init, Typed, RowsOK, SlotsOK, BeatsOK, NoRun, IdleSlot, Numbers

LEMMA ClientTyped ==
  ASSUME Typed, NEW j \in Jobs, Schedule(j) \/ Enqueue(j) \/ CancelJob(j)
  PROVE  Typed'
<1>a. job \in [Jobs -> JobRow] /\ RowsOK /\ BeatsOK /\ SlotsOK
  BY DEF Typed
<1>b. UNCHANGED <<beat, slot, lastClaim, crashes>>
  BY DEF Schedule, Enqueue, CancelJob
<1>1. job' \in [Jobs -> JobRow]
  <2>1. ASSUME NEW next \in NextRun, NEW source \in {"scheduled", "on_demand"}
        PROVE  [status |-> "active", source |-> source, next |-> next,
                idle |-> 0, attempts |-> 0] \in JobRow
    BY BoundsAreNumbers DEF JobRow, Old, Numbers
  <2>2. NextRuntimes \subseteq NextRun /\ None \in NextRun
    BY BeatAssumption DEF NextRun
  <2>3. CASE Schedule(j) \/ Enqueue(j)
    BY <1>a, <2>1, <2>2, <2>3 DEF Schedule, Enqueue
  <2>4. CASE CancelJob(j)
    <3>1. job' = [job EXCEPT ![j] = [job[j] EXCEPT !.status = "cancelled", !.idle = 0]]
      BY <1>a, <2>4 DEF CancelJob
    <3>2. 0 \in 0 .. Old
      BY BoundsAreNumbers DEF Numbers, Old
    <3>3. [job[j] EXCEPT !.status = "cancelled", !.idle = 0] \in JobRow
      BY <1>a, <3>2 DEF JobRow
    <3>. QED BY <1>a, <3>1, <3>3
  <2>. QED BY <2>3, <2>4
<1>2. RowsOK'
  <2>1. CASE Schedule(j)
    BY <1>a, <2>1 DEF Schedule, RowsOK
  <2>2. CASE Enqueue(j)
    BY <1>a, <2>2, InsertTyped DEF Enqueue
  <2>3. CASE CancelJob(j)
    <3>1. \A r \in RunIds : run[r] \in RunRow
      BY <1>a DEF RowsOK
    <3>2. \A r \in RunIds : [run[r] EXCEPT !.status = "cancelled"] \in RunRow
      BY <3>1 DEF RunRow
    <3>. QED BY <1>a, <2>3, <3>1, <3>2 DEF CancelJob, RowsOK, RunRow
  <2>. QED BY <2>1, <2>2, <2>3
<1>. QED BY <1>a, <1>b, <1>1, <1>2 DEF Typed, BeatsOK, SlotsOK

LEMMA ZeroTyped == 0 \in 0 .. Old /\ 0 \in NextRun
<1>1. 0 \in 0 .. Old
  BY BoundsAreNumbers DEF Numbers, Old
<1>2. 0 \in NextRun
  BY DEF NextRun
<1>. QED BY <1>1, <1>2

LEMMA RevivedTyped ==
  ASSUME job \in [Jobs -> JobRow], NEW jobs,
         job' = [j \in Jobs |-> IF j \in jobs THEN [job[j] EXCEPT !.next = 0, !.idle = 0]
                                ELSE job[j]]
  PROVE  job' \in [Jobs -> JobRow]
<1>1. \A j \in Jobs : [job[j] EXCEPT !.next = 0, !.idle = 0] \in JobRow
  BY ZeroTyped DEF JobRow
<1>. QED BY <1>1

LEMMA ProceedTyped ==
  ASSUME BeatsOK, NEW b \in Beats, NEW todo \in SUBSET Jobs, Proceed(b, todo)
  PROVE  BeatsOK'
<1>1. CASE todo = {}
  BY <1>1, IdleBeatTyped DEF Proceed, BeatsOK
<1>2. CASE todo # {}
  <2>1. [beat[b] EXCEPT !.pc = "jobs", !.todo = todo, !.job = None] \in BeatState
    BY DEF BeatsOK, BeatState
  <2>2. [beat[b] EXCEPT !.pc = "jobs", !.todo = todo, !.job = None].pc = "jobs"
    BY DEF BeatsOK, BeatState
  <2>. QED BY <1>2, <2>1, <2>2 DEF Proceed, BeatsOK
<1>. QED BY <1>1, <1>2

LEMMA SweepTyped ==
  ASSUME Typed, NEW b \in Beats,
         BeginSweep(b) \/ SelectStale(b) \/ FailStale(b) \/ RearmOrphans(b)
  PROVE  Typed'
<1>a. job \in [Jobs -> JobRow] /\ RowsOK /\ BeatsOK /\ SlotsOK
  BY DEF Typed
<1>b. UNCHANGED <<slot, lastClaim, crashes>>
  BY DEF BeginSweep, SelectStale, FailStale, RearmOrphans
<1>c. beat[b] \in BeatState
  BY <1>a DEF BeatsOK
<1>1. CASE BeginSweep(b)
  <2>1. beat' = [beat EXCEPT ![b] = [beat[b] EXCEPT !.pc = "select", !.spared = Queued(b)]]
    BY <1>1, <1>a DEF BeginSweep, BeatsOK
  <2>2. [beat[b] EXCEPT !.pc = "select", !.spared = Queued(b)] \in BeatState
        /\ [beat[b] EXCEPT !.pc = "select", !.spared = Queued(b)].pc = "select"
    BY <1>c DEF BeatState, Queued
  <2>3. BeatsOK'
    BY <1>a, <2>1, <2>2 DEF BeatsOK
  <2>. QED BY <1>a, <1>b, <1>1, <2>3 DEF Typed, BeginSweep, RowsOK, SlotsOK
<1>2. CASE SelectStale(b)
  <2>1. PICK stale \in SUBSET {r \in RunIds : Stale(b, r)} :
          beat' = [beat EXCEPT ![b].pc = IF stale = {} THEN "orphans" ELSE "fail",
                               ![b].stale = stale,
                               ![b].of = {run[r].job : r \in stale}]
    BY <1>2 DEF SelectStale
  <2>2. PICK of : of = {run[r].job : r \in stale}
    OBVIOUS
  <2>3. of \in SUBSET Jobs
    BY <1>a, <2>2 DEF RowsOK, Stale
  <2>4. PICK pc \in {"orphans", "fail"} :
          beat' = [beat EXCEPT ![b] = [beat[b] EXCEPT !.pc = pc, !.stale = stale, !.of = of]]
    BY <1>a, <2>1, <2>2 DEF BeatsOK
  <2>5. [beat[b] EXCEPT !.pc = pc, !.stale = stale, !.of = of] \in BeatState
        /\ [beat[b] EXCEPT !.pc = pc, !.stale = stale, !.of = of].pc = pc
    BY <1>c, <2>3 DEF BeatState
  <2>6. BeatsOK'
    BY <1>a, <2>4, <2>5 DEF BeatsOK
  <2>. QED BY <1>a, <1>b, <1>2, <2>6 DEF Typed, SelectStale, RowsOK, SlotsOK
<1>3. CASE FailStale(b)
  <2>1. PICK rows : SweepUpdates(b, rows)
    BY <1>3 DEF FailStale
  <2>a. PICK pc \in {"orphans", "select"} :
          beat' = [beat EXCEPT ![b].pc = pc, ![b].stale = {}, ![b].of = {}]
    BY <2>1, Zenon DEF SweepUpdates
  <2>2. job' \in [Jobs -> JobRow]
    BY <1>a, <1>3, RevivedTyped DEF FailStale, SweepUpdates
  <2>3. RowsOK'
    <3>1. \A r \in RunIds : run'[r] = NoRun \/ run'[r] = run[r]
      BY <2>1 DEF SweepUpdates
    <3>2. run' \in [RunIds -> RunRow]
      BY <1>a, <2>1, NoRunTyped DEF RowsOK, SweepUpdates
    <3>. QED BY <1>a, <3>1, <3>2 DEF RowsOK, NoRun
  <2>4. beat' = [beat EXCEPT ![b] = [beat[b] EXCEPT !.pc = pc, !.stale = {}, !.of = {}]]
    BY <1>a, <2>a DEF BeatsOK
  <2>5. [beat[b] EXCEPT !.pc = pc, !.stale = {}, !.of = {}] \in BeatState
        /\ [beat[b] EXCEPT !.pc = pc, !.stale = {}, !.of = {}].pc = pc
    BY <1>c DEF BeatState
  <2>6. BeatsOK'
    BY <1>a, <2>4, <2>5 DEF BeatsOK
  <2>. QED BY <1>a, <1>b, <2>2, <2>3, <2>6 DEF Typed, SlotsOK
<1>4. CASE RearmOrphans(b)
  <2>1. job' = [j \in Jobs |-> IF j \in {i \in Jobs : Orphaned(i)}
                               THEN [job[j] EXCEPT !.next = 0, !.idle = 0] ELSE job[j]]
    BY <1>4 DEF RearmOrphans
  <2>2. job' \in [Jobs -> JobRow]
    BY <1>a, <2>1, RevivedTyped
  <2>3. beat' = [beat EXCEPT ![b] = [beat[b] EXCEPT !.pc = "list", !.spared = {}]]
    BY <1>a, <1>4 DEF BeatsOK, RearmOrphans
  <2>4. [beat[b] EXCEPT !.pc = "list", !.spared = {}] \in BeatState
        /\ [beat[b] EXCEPT !.pc = "list", !.spared = {}].pc = "list"
    BY <1>c DEF BeatState
  <2>5. BeatsOK'
    BY <1>a, <2>3, <2>4 DEF BeatsOK
  <2>. QED BY <1>a, <1>b, <1>4, <2>2, <2>5 DEF Typed, RearmOrphans, RowsOK, SlotsOK
<1>. QED BY <1>1, <1>2, <1>3, <1>4

LEMMA TickTyped ==
  ASSUME Typed, NEW b \in Beats,
         ListScheduled(b) \/ (\E j \in Jobs : ExamineJob(b, j)) \/ FireJob(b)
  PROVE  Typed'
<1>a. job \in [Jobs -> JobRow] /\ RowsOK /\ BeatsOK /\ SlotsOK
  BY DEF Typed
<1>b. UNCHANGED <<slot, lastClaim, crashes>>
  BY DEF ListScheduled, ExamineJob, FireJob
<1>c. beat[b] \in BeatState
  BY <1>a DEF BeatsOK
<1>1. CASE ListScheduled(b)
  <2>1. PICK active \in SUBSET Jobs, seen \in [Jobs -> NextRun] :
          beat' = [beat EXCEPT ![b] =
                     IF active = {} THEN IdleBeat
                     ELSE [@ EXCEPT !.pc = "jobs", !.todo = active, !.seen = seen]]
    <3>1. PICK active \in SUBSET Jobs :
            active = {j \in Jobs : job[j].source = "scheduled" /\ job[j].status = "active"}
      OBVIOUS
    <3>2. PICK seen : seen = [j \in Jobs |-> IF j \in active THEN job[j].next ELSE None]
      OBVIOUS
    <3>3. seen \in [Jobs -> NextRun]
      BY <1>a, <3>2 DEF JobRow, NextRun
    <3>. QED BY <1>1, <3>1, <3>2, <3>3 DEF ListScheduled
  <2>2. BeatsOK'
    <3>1. CASE active = {}
      BY <1>a, <2>1, <3>1, IdleBeatTyped DEF BeatsOK
    <3>2. CASE active # {}
      <4>1. [beat[b] EXCEPT !.pc = "jobs", !.todo = active, !.seen = seen] \in BeatState
            /\ [beat[b] EXCEPT !.pc = "jobs", !.todo = active, !.seen = seen].pc = "jobs"
        BY <1>c DEF BeatState
      <4>. QED BY <1>a, <2>1, <3>2, <4>1 DEF BeatsOK
    <3>. QED BY <3>1, <3>2
  <2>. QED BY <1>a, <1>b, <1>1, <2>2 DEF Typed, ListScheduled, RowsOK, SlotsOK
<1>2. ASSUME NEW j \in Jobs, ExamineJob(b, j)
      PROVE  Typed'
  <2>1. beat[b].todo \ {j} \in SUBSET Jobs
    BY <1>c DEF BeatState
  <2>2. \/ Proceed(b, beat[b].todo \ {j})
        \/ beat' = [beat EXCEPT ![b].pc = "create", ![b].job = j, ![b].todo = @ \ {j}]
    BY <1>2 DEF ExamineJob
  <2>3. ASSUME beat' = [beat EXCEPT ![b].pc = "create", ![b].job = j, ![b].todo = @ \ {j}]
        PROVE  BeatsOK'
    <3>1. beat' = [beat EXCEPT ![b] = [beat[b] EXCEPT !.pc = "create", !.job = j,
                                                      !.todo = beat[b].todo \ {j}]]
      BY <1>a, <2>3 DEF BeatsOK
    <3>2. [beat[b] EXCEPT !.pc = "create", !.job = j, !.todo = beat[b].todo \ {j}]
            \in BeatState
          /\ [beat[b] EXCEPT !.pc = "create", !.job = j, !.todo = beat[b].todo \ {j}].job = j
      BY <1>c, <2>1 DEF BeatState
    <3>. QED BY <1>a, <3>1, <3>2 DEF BeatsOK
  <2>4. BeatsOK'
    BY <1>a, <2>1, <2>2, <2>3, ProceedTyped
  <2>5. job' \in [Jobs -> JobRow]
    <3>1. None \in NextRun
      BY DEF NextRun
    <3>. QED BY <1>a, <1>2, <3>1, ArmTyped DEF ExamineJob
  <2>. QED BY <1>a, <1>b, <1>2, <2>4, <2>5 DEF Typed, ExamineJob, RowsOK, SlotsOK
<1>3. CASE FireJob(b)
  <2>1. beat[b].job \in Jobs /\ beat[b].todo \in SUBSET Jobs
    BY <1>a, <1>c, <1>3 DEF BeatsOK, FireJob, BeatState
  <2>2. RowsOK' /\ BeatsOK'
    BY <1>a, <1>3, <2>1, InsertTyped, ProceedTyped DEF FireJob
  <2>. QED BY <1>a, <1>b, <1>3, <2>2 DEF Typed, FireJob, SlotsOK
<1>. QED BY <1>1, <1>2, <1>3

LEMMA ClaimTyped ==
  ASSUME Typed, NEW s \in Slots, ClaimStep(s)
  PROVE  Typed'
<1>a. job \in [Jobs -> JobRow] /\ RowsOK /\ BeatsOK /\ SlotsOK
  BY DEF Typed
<1>1. PICK r \in RunIds : ClaimRun(s, r)
  BY DEF ClaimStep
<1>2. PICK known \in SUBSET Beats :
        /\ run' = [q \in RunIds |->
                     LET row == IF run[q] = NoRun THEN NoRun
                                ELSE [run[q] EXCEPT !.passed = @ \cup known]
                     IN  IF q = r THEN [row EXCEPT !.status = "running"] ELSE row]
        /\ lastClaim' = [b \in Beats |-> lastClaim[b] \/ b \in known]
  BY <1>1 DEF ClaimRun
<1>3. run[r].status # "none" /\ run[r].job \in Jobs
  BY <1>a, <1>1 DEF ClaimRun, RowsOK
<1>4. \A q \in RunIds : run[q] \in RunRow
  BY <1>a DEF RowsOK
<1>5. RowsOK'
  <2>1. \A x \in RunRow : /\ [x EXCEPT !.passed = @ \cup known] \in RunRow
                          /\ [x EXCEPT !.passed = @ \cup known].job = x.job
                          /\ [x EXCEPT !.passed = @ \cup known].status = x.status
    BY DEF RunRow
  <2>2. \A x \in RunRow : /\ [x EXCEPT !.status = "running"] \in RunRow
                          /\ [x EXCEPT !.status = "running"].job = x.job
    BY DEF RunRow
  <2>3. \A q \in RunIds : \E row \in RunRow :
          /\ row.job = run[q].job /\ row.status = run[q].status
          /\ run'[q] = IF q = r THEN [row EXCEPT !.status = "running"] ELSE row
    <3>1. TAKE q \in RunIds
    <3>2. run'[q] = LET row == IF run[q] = NoRun THEN NoRun
                               ELSE [run[q] EXCEPT !.passed = @ \cup known]
                    IN  IF q = r THEN [row EXCEPT !.status = "running"] ELSE row
      BY <1>2
    <3>3. CASE run[q] = NoRun
      BY <3>2, <3>3, NoRunTyped
    <3>4. CASE run[q] # NoRun
      BY <3>2, <3>4, <1>4, <2>1
    <3>. QED BY <3>3, <3>4
  <2>4. \A q \in RunIds : run'[q] \in RunRow /\ run'[q].job = run[q].job
                          /\ (q # r => run'[q].status = run[q].status)
    BY <2>2, <2>3
  <2>5. run' \in [RunIds -> RunRow]
    BY <1>2, <2>4
  <2>. QED BY <1>a, <1>3, <2>4, <2>5 DEF RowsOK
<1>6. lastClaim' \in [Beats -> BOOLEAN]
  BY <1>2
<1>7. SlotsOK'
  BY <1>a, <1>1, <1>3 DEF ClaimRun, SlotsOK, SlotState
<1>. QED BY <1>a, <1>1, <1>5, <1>6, <1>7 DEF ClaimRun, Typed, BeatsOK

\* What the steps of a slot do to the job it works for.
LEMMA AttemptsTyped ==
  ASSUME job \in [Jobs -> JobRow], NEW j \in Jobs, NEW n \in 0 .. (Retries + 1),
         job' = [job EXCEPT ![j].attempts = n, ![j].idle = 0]
  PROVE  job' \in [Jobs -> JobRow]
<1>1. job' = [job EXCEPT ![j] = [job[j] EXCEPT !.attempts = n, !.idle = 0]]
  OBVIOUS
<1>2. [job[j] EXCEPT !.attempts = n, !.idle = 0] \in JobRow
  BY ZeroTyped DEF JobRow
<1>. QED BY <1>1, <1>2

LEMMA SlotTyped ==
  ASSUME Typed, NEW s \in Slots, SlotStep(s)
  PROVE  Typed'
<1>a. job \in [Jobs -> JobRow] /\ RowsOK /\ BeatsOK /\ SlotsOK
  BY DEF Typed
<1>b. UNCHANGED <<beat, lastClaim, crashes>>
  BY DEF SlotStep, Succeeds, Fails, RetryTask, Aborts, Unresolved, StopsCancelled,
         ResetAttempts, IncrementAttempts, RetryRun, Reschedule, Pruned, RescheduleOnError
<1>c. slot[s].job \in Jobs
  BY <1>a DEF SlotStep, Succeeds, Fails, RetryTask, Aborts, Unresolved, StopsCancelled,
              ResetAttempts, IncrementAttempts, RetryRun, Reschedule, Pruned,
              RescheduleOnError, Working, SlotsOK
<1>1. job' \in [Jobs -> JobRow]
  <2>1. CASE ResetAttempts(s)
    <3>1. 0 \in 0 .. (Retries + 1)
      BY BoundsAreNumbers DEF Numbers
    <3>. QED BY <1>a, <1>c, <2>1, <3>1, AttemptsTyped DEF ResetAttempts
  <2>2. CASE IncrementAttempts(s)
    <3>1. job[slot[s].job].attempts \in 0 .. (Retries + 1)
      BY <1>a, <1>c DEF JobRow
    <3>2. PICK n \in 0 .. (Retries + 1) :
            n = IF job[slot[s].job].attempts <= Retries THEN job[slot[s].job].attempts + 1
                ELSE job[slot[s].job].attempts
      BY <3>1, BoundsAreNumbers DEF Numbers
    <3>3. job' = [job EXCEPT ![slot[s].job].attempts = n, ![slot[s].job].idle = 0]
      BY <1>a, <1>c, <2>2, <3>2 DEF IncrementAttempts
    <3>. QED BY <1>a, <1>c, <3>3, AttemptsTyped
  <2>3. CASE Reschedule(s)
    <3>1. NextRuntimes \subseteq NextRun
      BY BeatAssumption DEF NextRun
    <3>. QED BY <1>a, <1>c, <2>3, <3>1, ArmTyped DEF Reschedule
  <2>4. CASE RescheduleOnError(s)
    BY <1>a, <1>c, <2>4, ZeroTyped, ArmTyped DEF RescheduleOnError
  <2>5. CASE UNCHANGED job
    BY <1>a, <2>5
  <2>. QED BY <2>1, <2>2, <2>3, <2>4, <2>5
           DEF SlotStep, Succeeds, Fails, RetryTask, Aborts, Unresolved, StopsCancelled,
               RetryRun, Pruned
<1>2. RowsOK'
  <2>1. CASE EndRun(s)
    BY <1>a, <2>1, EndTyped
  <2>2. CASE UNCHANGED run
    BY <1>a, <2>2 DEF RowsOK
  <2>3. CASE RetryRun(s)
    BY <1>a, <1>c, <2>3, InsertTyped DEF RetryRun
  <2>4. CASE RetryTask(s)
    <3>1. \A r \in RunIds : run'[r] = run[r]
                              \/ run'[r] = [run[r] EXCEPT !.status = "ready", !.wait = -1]
      BY <1>a, <2>4 DEF RetryTask, RowsOK
    <3>2. \A r \in RunIds : run'[r] = run[r] \/ run[r].status = "running"
      BY <1>a, <2>4 DEF RetryTask, RowsOK
    <3>3. -1 \in -1 .. Old
      BY BoundsAreNumbers DEF Numbers, Old
    <3>4. \A x \in RunRow : /\ [x EXCEPT !.status = "ready", !.wait = -1] \in RunRow
                            /\ [x EXCEPT !.status = "ready", !.wait = -1].job = x.job
      BY <3>3 DEF RunRow
    <3>5. \A r \in RunIds : run'[r] \in RunRow /\ run'[r].job = run[r].job
      BY <1>a, <3>1, <3>4 DEF RowsOK
    <3>6. run' \in [RunIds -> RunRow]
      BY <1>a, <2>4, <3>5 DEF RetryTask, RowsOK
    <3>. QED BY <1>a, <3>2, <3>5, <3>6 DEF RowsOK
  <2>. QED BY <2>1, <2>2, <2>3, <2>4
           DEF SlotStep, Succeeds, Fails, Aborts, Unresolved, StopsCancelled,
               ResetAttempts, IncrementAttempts, Reschedule, Pruned, RescheduleOnError
<1>3. SlotsOK'
  <2>1. ASSUME NEW label \in {"reset", "increment", "retry", "rearm", "rearmNow"},
               Continue(s, label)
        PROVE  SlotsOK'
    BY <1>a, <1>c, <2>1, ContinueTyped
  <2>2. CASE slot' = [slot EXCEPT ![s] = IdleSlot]
    BY <1>a, <2>2, IdleSlotTyped
  <2>. QED BY <2>1, <2>2
           DEF SlotStep, Succeeds, Fails, RetryTask, Aborts, Unresolved, StopsCancelled,
               ResetAttempts, IncrementAttempts, RetryRun, Reschedule, Pruned,
               RescheduleOnError
<1>. QED BY <1>b, <1>1, <1>2, <1>3, <1>a DEF Typed, BeatsOK

LEMMA CrashTyped ==
  ASSUME Typed, \/ \E b \in Beats : TickRaises(b) \/ BeatCrashes(b)
                \/ \E s \in Slots : WorkerCrashes(s)
  PROVE  Typed'
<1>a. job \in [Jobs -> JobRow] /\ RowsOK /\ BeatsOK /\ SlotsOK
      /\ lastClaim \in [Beats -> BOOLEAN]
  BY DEF Typed
<1>b. UNCHANGED job
  BY DEF TickRaises, BeatCrashes, WorkerCrashes
<1>1. crashes' \in 0 .. MaxCrashes
  <2>1. crashes < MaxCrashes /\ crashes' = crashes + 1 /\ crashes \in 0 .. MaxCrashes
    BY DEF TickRaises, BeatCrashes, WorkerCrashes, Typed
  <2>. QED BY <2>1, BoundsAreNumbers DEF Numbers
<1>2. ASSUME NEW b \in Beats, TickRaises(b)
      PROVE  Typed'
  BY <1>a, <1>b, <1>1, <1>2, IdleBeatTyped DEF TickRaises, Typed, RowsOK, SlotsOK
<1>3. ASSUME NEW b \in Beats, BeatCrashes(b)
      PROVE  Typed'
  <2>1. BeatsOK' /\ lastClaim' \in [Beats -> BOOLEAN]
    BY <1>a, <1>3, IdleBeatTyped DEF BeatCrashes
  <2>2. \A x \in RunRow : /\ [x EXCEPT !.passed = @ \ {b}] \in RunRow
                          /\ [x EXCEPT !.passed = @ \ {b}].job = x.job
                          /\ [x EXCEPT !.passed = @ \ {b}].status = x.status
    BY DEF RunRow
  <2>3. RowsOK'
    BY <1>a, <1>3, <2>2 DEF BeatCrashes, RowsOK
  <2>. QED BY <1>a, <1>b, <1>1, <1>3, <2>1, <2>3 DEF BeatCrashes, Typed, SlotsOK
<1>4. ASSUME NEW s \in Slots, WorkerCrashes(s)
      PROVE  Typed'
  BY <1>a, <1>b, <1>1, <1>4, IdleSlotTyped DEF WorkerCrashes, Typed, RowsOK, BeatsOK
<1>. QED BY <1>2, <1>3, <1>4

LEMMA AgesTyped ==
  /\ \A age \in 0 .. Old : Older(age, Old) \in 0 .. Old
  /\ \A wait \in -1 .. Old : Older(wait, Old) \in -1 .. Old
  /\ \A next \in NextRun : LaterNext(next) \in NextRun
<1>1. \A age \in 0 .. Old : Older(age, Old) \in 0 .. Old
  BY BoundsAreNumbers DEF Older, Old, Numbers
<1>2. \A wait \in -1 .. Old : Older(wait, Old) \in -1 .. Old
  BY BoundsAreNumbers DEF Older, Old, Numbers
<1>3. \A next \in Int : Older(next, Late) \in Int
  BY BoundsAreNumbers DEF Older, Numbers
<1>. QED BY <1>1, <1>2, <1>3 DEF LaterNext, NextRun

LEMMA ClockTyped ==
  ASSUME Typed, Clock
  PROVE  Typed'
<1>a. job \in [Jobs -> JobRow] /\ RowsOK /\ BeatsOK /\ SlotsOK
  BY DEF Typed
<1>1. job' \in [Jobs -> JobRow]
  <2>1. \A x \in JobRow :
          [x EXCEPT !.next = LaterNext(x.next), !.idle = Older(x.idle, Old)] \in JobRow
    BY AgesTyped DEF JobRow
  <2>2. \A j \in Jobs : job'[j] \in JobRow
    BY <1>a, <2>1 DEF Clock
  <2>. QED BY <2>2 DEF Clock
<1>2. RowsOK'
  <2>1. \A x \in RunRow :
          /\ [x EXCEPT !.age = Older(x.age, Old), !.wait = Older(x.wait, Old)] \in RunRow
          /\ [x EXCEPT !.age = Older(x.age, Old), !.wait = Older(x.wait, Old)].job = x.job
          /\ [x EXCEPT !.age = Older(x.age, Old), !.wait = Older(x.wait, Old)].status
               = x.status
    BY AgesTyped DEF RunRow
  <2>2. \A r \in RunIds : run'[r] \in RunRow /\ run'[r].job = run[r].job
                            /\ run'[r].status = run[r].status
    BY <1>a, <2>1 DEF Clock, RowsOK
  <2>. QED BY <1>a, <2>2 DEF Clock, RowsOK
<1>3. BeatsOK'
  <2>1. \A b \in Beats : beat[b].seen \in [Jobs -> NextRun] /\ beat[b] \in BeatState
    BY <1>a DEF BeatsOK, BeatState
  <2>2. \A b \in Beats : [j \in Jobs |-> LaterNext(beat[b].seen[j])] \in [Jobs -> NextRun]
    BY <2>1, AgesTyped
  <2>3. \A b \in Beats :
          beat'[b] = [beat[b] EXCEPT !.seen = [j \in Jobs |-> LaterNext(beat[b].seen[j])]]
    <3>1. beat' = [b \in Beats |-> [beat[b] EXCEPT
                     !.seen = [j \in Jobs |-> LaterNext(beat[b].seen[j])]]]
      BY Zenon DEF Clock
    <3>. QED BY <3>1, Zenon
  <2>4. \A x \in BeatState, seen \in [Jobs -> NextRun] :
          /\ [x EXCEPT !.seen = seen] \in BeatState
          /\ [x EXCEPT !.seen = seen].pc = x.pc /\ [x EXCEPT !.seen = seen].job = x.job
    BY DEF BeatState
  <2>5. \A b \in Beats : beat'[b] \in BeatState /\ beat'[b].pc = beat[b].pc
                           /\ beat'[b].job = beat[b].job
    <3>1. TAKE b \in Beats
    <3>2. PICK seen \in [Jobs -> NextRun] : beat'[b] = [beat[b] EXCEPT !.seen = seen]
      BY <2>2, <2>3, Zenon
    <3>. QED BY <2>1, <2>4, <3>2
  <2>. QED BY <1>a, <2>5 DEF Clock, BeatsOK
<1>. QED BY <1>a, <1>1, <1>2, <1>3 DEF Clock, Typed, SlotsOK

LEMMA StepTyped ==
  ASSUME Typed, [Next]_vars
  PROVE  Typed'
<1>1. CASE UNCHANGED vars
  BY <1>1 DEF vars, Typed, RowsOK, SlotsOK, BeatsOK
<1>2. CASE Next
  BY <1>2, ClientTyped, SweepTyped, TickTyped, ClaimTyped, SlotTyped, CrashTyped, ClockTyped
     DEF Next, BeatStep
<1>. QED BY <1>1, <1>2

LEMMA TypedInvariant == Spec => []Typed
BY InitTyped, StepTyped, PTL DEF Spec

\* Type correctness: the bounds of the model are bounds, whatever next_runtime
\* answers, and a run that is claimed or created belongs to a job.
THEOREM BeatTypeCorrect == Spec => []TypeOK
<1>1. Typed => TypeOK
  BY DEF Typed, TypeOK, RowsOK, SlotsOK, BeatsOK
<1>. QED BY <1>1, TypedInvariant, PTL

-----------------------------------------------------------------------------
(* Holders: what the sweep spares.                                          *)

\* No slot takes a run, and the runs of those that go on are not ended.
LEMMA HolderKept ==
  ASSUME HolderInv,
         \A t \in Slots : slot'[t] = slot[t] \/ (slot'[t].pc # "work" /\ slot'[t].run = 0),
         \A t \in Slots : Working(t) /\ slot'[t] = slot[t] =>
           /\ run'[slot[t].run].status \in {"running", "cancelled"}
           /\ run'[slot[t].run].job = run[slot[t].run].job
  PROVE  HolderInv'
<1>1. \A t \in Slots : Working(t)' => Working(t) /\ slot'[t] = slot[t]
  BY DEF Working
<1>2. \A t \in Slots : Working(t)' <=> slot'[t].run # 0
  BY DEF Working, HolderInv
<1>3. \A t \in Slots : Working(t)' =>
        /\ run'[slot'[t].run].status \in {"running", "cancelled"}
        /\ run'[slot'[t].run].job = slot'[t].job
  BY <1>1 DEF HolderInv
<1>4. \A s, t \in Slots : Working(s)' /\ Working(t)' /\ slot'[s].run = slot'[t].run => s = t
  BY <1>1 DEF HolderInv
<1>. QED BY <1>2, <1>3, <1>4 DEF HolderInv

\* The run of a working slot is a row.
LEMMA HeldIsARow ==
  ASSUME SlotsOK, HolderInv, NEW t \in Slots, Working(t)
  PROVE  slot[t].run \in RunIds
BY DEF SlotsOK, SlotState, HolderInv

LEMMA HolderInsert ==
  ASSUME RowsOK, SlotsOK, HolderInv, UNCHANGED slot, NEW j \in Jobs, NEW delay \in {0, 1},
         InsertRun(j, delay)
  PROVE  HolderInv'
<1>1. \A r \in RunIds : run'[r] = run[r] \/ run[r] = NoRun
  BY Inserted DEF RowsOK
<1>2. NoRun.status = "none"
  BY DEF NoRun
<1>. QED BY <1>1, <1>2, HeldIsARow, HolderKept DEF HolderInv

LEMMA HolderBeat ==
  ASSUME Typed, HolderInv, NEW b \in Beats, BeatStep(b)
  PROVE  HolderInv'
<1>a. RowsOK /\ BeatsOK /\ SlotsOK
  BY DEF Typed
<1>1. CASE UNCHANGED <<run, slot>>
  BY <1>1 DEF HolderInv, Working
<1>2. CASE FailStale(b)
  <2>1. \A r \in RunIds : run'[r] = run[r] \/ run[r].status = "ready"
    BY <1>2 DEF FailStale, SweepUpdates
  <2>2. UNCHANGED slot
    BY <1>2 DEF FailStale
  <2>. QED BY <1>a, <2>1, <2>2, HeldIsARow, HolderKept DEF HolderInv
<1>3. CASE FireJob(b)
  <2>1. beat[b].job \in Jobs
    BY <1>a, <1>3 DEF BeatsOK, FireJob
  <2>. QED BY <1>a, <1>3, <2>1, HolderInsert DEF FireJob
<1>. QED BY <1>1, <1>2, <1>3
         DEF BeatStep, BeginSweep, SelectStale, RearmOrphans, ListScheduled, ExamineJob

\* claim() changes the status of one row, and that to running.
LEMMA ClaimedRows ==
  ASSUME Typed, NEW s \in Slots, NEW r \in RunIds, ClaimRun(s, r)
  PROVE  \A q \in RunIds : /\ run'[q].job = run[q].job /\ run'[q].age = run[q].age
                          /\ run'[q].status = IF q = r THEN "running" ELSE run[q].status
<1>a. RowsOK
  BY DEF Typed
<1>1. \A x \in RunRow, known \in SUBSET Beats :
        /\ [x EXCEPT !.passed = @ \cup known] \in RunRow
        /\ [x EXCEPT !.passed = @ \cup known].job = x.job
        /\ [x EXCEPT !.passed = @ \cup known].age = x.age
        /\ [x EXCEPT !.passed = @ \cup known].status = x.status
  BY DEF RunRow
<1>2. \A x \in RunRow : /\ [x EXCEPT !.status = "running"].status = "running"
                        /\ [x EXCEPT !.status = "running"].job = x.job
                        /\ [x EXCEPT !.status = "running"].age = x.age
  BY DEF RunRow
<1>3. PICK known \in SUBSET Beats :
        run' = [q \in RunIds |->
                  LET row == IF run[q] = NoRun THEN NoRun
                             ELSE [run[q] EXCEPT !.passed = @ \cup known]
                  IN  IF q = r THEN [row EXCEPT !.status = "running"] ELSE row]
  BY DEF ClaimRun
<1>4. TAKE q \in RunIds
<1>5. PICK row \in RunRow : /\ row.job = run[q].job /\ row.status = run[q].status
                            /\ row.age = run[q].age
                            /\ run'[q] = IF q = r THEN [row EXCEPT !.status = "running"]
                                         ELSE row
  <2>1. run'[q] = LET row == IF run[q] = NoRun THEN NoRun
                             ELSE [run[q] EXCEPT !.passed = @ \cup known]
                  IN  IF q = r THEN [row EXCEPT !.status = "running"] ELSE row
    BY <1>3
  <2>2. CASE run[q] = NoRun
    BY <2>1, <2>2, NoRunTyped
  <2>3. CASE run[q] # NoRun
    BY <1>a, <2>1, <2>3, <1>1 DEF RowsOK
  <2>. QED BY <2>2, <2>3
<1>. QED BY <1>2, <1>5

\* Time changes ages only.
LEMMA TimeChangesAges ==
  ASSUME Typed, Clock
  PROVE  /\ \A r \in RunIds : run'[r].job = run[r].job /\ run'[r].status = run[r].status
         /\ \A b \in Beats : /\ beat'[b].pc = beat[b].pc /\ beat'[b].job = beat[b].job
                             /\ beat'[b].of = beat[b].of
<1>1. \A x \in RunRow :
        /\ [x EXCEPT !.age = Older(x.age, Old), !.wait = Older(x.wait, Old)].job = x.job
        /\ [x EXCEPT !.age = Older(x.age, Old), !.wait = Older(x.wait, Old)].status = x.status
  BY DEF RunRow
<1>2. \A x \in BeatState : \A seen :
        /\ [x EXCEPT !.seen = seen].pc = x.pc /\ [x EXCEPT !.seen = seen].job = x.job
        /\ [x EXCEPT !.seen = seen].of = x.of
  BY DEF BeatState
<1>3. \A b \in Beats : \E seen : beat'[b] = [beat[b] EXCEPT !.seen = seen]
  BY Zenon DEF Clock
<1>4. \A r \in RunIds : run'[r].job = run[r].job /\ run'[r].status = run[r].status
  BY <1>1 DEF Clock, Typed, RowsOK
<1>5. \A b \in Beats : /\ beat'[b].pc = beat[b].pc /\ beat'[b].job = beat[b].job
                      /\ beat'[b].of = beat[b].of
  <2>1. TAKE b \in Beats
  <2>2. PICK seen : beat'[b] = [beat[b] EXCEPT !.seen = seen]
    BY <1>3
  <2>3. beat[b] \in BeatState
    BY DEF Typed, BeatsOK
  <2>. QED BY <1>2, <2>2, <2>3
<1>. QED BY <1>4, <1>5

LEMMA HolderClaim ==
  ASSUME Typed, HolderInv, NEW s \in Slots, ClaimStep(s)
  PROVE  HolderInv'
<1>a. RowsOK /\ SlotsOK
  BY DEF Typed
<1>1. PICK r \in RunIds : ClaimRun(s, r)
  BY DEF ClaimStep
<1>2. slot' = [slot EXCEPT ![s] = [pc |-> "work", run |-> r, job |-> run[r].job]]
  BY <1>1 DEF ClaimRun
<1>3. \A t \in Slots : slot[t].run # r
  BY <1>a, <1>1, HeldIsARow DEF ClaimRun, Held, HolderInv, RunIds
<1>4. \A q \in RunIds : run'[q].job = run[q].job
                        /\ run'[q].status = IF q = r THEN "running" ELSE run[q].status
  BY <1>1, ClaimedRows
<1>5. r # 0
  BY DEF RunIds
<1>6. slot'[s].pc = "work" /\ slot'[s].run = r /\ slot'[s].job = run[r].job
      /\ \A t \in Slots \ {s} : slot'[t] = slot[t]
  BY <1>a, <1>2 DEF SlotsOK
<1>7. \A t \in Slots : Working(t)' <=> slot'[t].run # 0
  BY <1>5, <1>6 DEF HolderInv, Working
<1>8. \A t \in Slots : Working(t)' =>
        /\ run'[slot'[t].run].status \in {"running", "cancelled"}
        /\ run'[slot'[t].run].job = slot'[t].job
  <2>1. TAKE t \in Slots
  <2>2. CASE t = s
    BY <1>4, <1>6, <2>2
  <2>3. CASE t # s
    BY <1>a, <1>3, <1>4, <1>6, <2>3, HeldIsARow DEF HolderInv, Working
  <2>. QED BY <2>2, <2>3
<1>9. \A t, u \in Slots : Working(t)' /\ Working(u)' /\ slot'[t].run = slot'[u].run => t = u
  BY <1>3, <1>6 DEF HolderInv, Working
<1>. QED BY <1>7, <1>8, <1>9 DEF HolderInv

LEMMA HolderSlot ==
  ASSUME Typed, HolderInv, NEW s \in Slots, SlotStep(s)
  PROVE  HolderInv'
<1>a. RowsOK /\ SlotsOK
  BY DEF Typed
<1>1. IdleSlot.pc # "work" /\ IdleSlot.run = 0
  BY DEF IdleSlot
<1>2. \A t \in Slots : \/ t # s /\ slot'[t] = slot[t]
                       \/ slot'[t].pc # "work" /\ slot'[t].run = 0
  BY <1>a, <1>1 DEF SlotStep, Succeeds, Fails, RetryTask, Aborts, Unresolved, StopsCancelled,
         ResetAttempts, IncrementAttempts, RetryRun, Reschedule, Pruned, RescheduleOnError,
         Continue, SlotsOK
<1>3. \A r \in RunIds : \/ run'[r] = run[r]
                        \/ Working(s) /\ r = slot[s].run
                        \/ run[r] = NoRun
  <2>1. CASE RetryRun(s)
    BY <1>a, <2>1, Inserted DEF RetryRun, SlotsOK, RowsOK
  <2>. QED BY <1>a, <2>1
           DEF SlotStep, Succeeds, Fails, RetryTask, Aborts, Unresolved, StopsCancelled,
               ResetAttempts, IncrementAttempts, Reschedule, Pruned, RescheduleOnError,
               EndRun, RowsOK
<1>4. NoRun.status = "none"
  BY DEF NoRun
<1>5. \A t \in Slots : Working(t) /\ t # s =>
        /\ run'[slot[t].run].status \in {"running", "cancelled"}
        /\ run'[slot[t].run].job = run[slot[t].run].job
  BY <1>a, <1>3, <1>4, HeldIsARow DEF HolderInv
<1>6. \A t \in Slots : Working(t) /\ slot'[t] = slot[t] => t # s
  BY <1>2 DEF Working
<1>. QED BY <1>2, <1>5, <1>6, HolderKept

LEMMA HolderStep ==
  ASSUME Typed, HolderInv, [Next]_vars
  PROVE  HolderInv'
<1>a. RowsOK /\ SlotsOK
  BY DEF Typed
<1>1. CASE UNCHANGED <<run, slot>>
  BY <1>1 DEF HolderInv, Working
<1>2. ASSUME NEW j \in Jobs, Enqueue(j)
      PROVE  HolderInv'
  BY <1>a, <1>2, HolderInsert DEF Enqueue
<1>3. ASSUME NEW j \in Jobs, CancelJob(j)
      PROVE  HolderInv'
  <2>1. \A r \in RunIds : \/ run'[r] = run[r]
                          \/ run'[r] = [run[r] EXCEPT !.status = "cancelled"]
    BY <1>3 DEF CancelJob
  <2>2. \A r \in RunIds : run'[r].job = run[r].job
                            /\ run'[r].status \in {run[r].status, "cancelled"}
    BY <1>a, <2>1 DEF RowsOK, RunRow
  <2>3. UNCHANGED slot
    BY <1>3 DEF CancelJob
  <2>. QED BY <1>a, <2>2, <2>3, HeldIsARow, HolderKept DEF HolderInv
<1>4. ASSUME NEW b \in Beats, BeatCrashes(b)
      PROVE  HolderInv'
  <2>1. \A r \in RunIds : run'[r].job = run[r].job /\ run'[r].status = run[r].status
    BY <1>a, <1>4 DEF BeatCrashes, RowsOK, RunRow
  <2>2. UNCHANGED slot
    BY <1>4 DEF BeatCrashes
  <2>. QED BY <1>a, <2>1, <2>2, HeldIsARow, HolderKept DEF HolderInv
<1>5. ASSUME NEW s \in Slots, WorkerCrashes(s)
      PROVE  HolderInv'
  <2>1. UNCHANGED run /\ \A t \in Slots : slot'[t] = slot[t] \/ slot'[t] = IdleSlot
    BY <1>a, <1>5 DEF WorkerCrashes, SlotsOK
  <2>. QED BY <1>a, <2>1, HolderKept DEF HolderInv, IdleSlot
<1>6. CASE Clock
  <2>1. \A r \in RunIds : run'[r].job = run[r].job /\ run'[r].status = run[r].status
    BY <1>6, TimeChangesAges
  <2>2. UNCHANGED slot
    BY <1>6 DEF Clock
  <2>. QED BY <1>a, <2>1, <2>2, HeldIsARow, HolderKept DEF HolderInv
<1>. QED BY <1>1, <1>2, <1>3, <1>4, <1>5, <1>6, HolderBeat, HolderClaim, HolderSlot
         DEF Next, vars, Schedule, TickRaises

LEMMA HolderInit == Init => HolderInv
BY DEF Init, HolderInv, Working, IdleSlot

LEMMA HolderInvariant == Spec => [](Typed /\ HolderInv)
BY InitTyped, StepTyped, HolderInit, HolderStep, PTL DEF Spec

\* Only a beat itself takes its pc from one label to another, except to "idle".
LEMMA OwnStep ==
  ASSUME Typed, [Next]_vars, NEW b \in Beats, beat'[b].pc \notin {"idle", beat[b].pc}
  PROVE  BeatStep(b)
<1>a. beat \in [Beats -> BeatState]
  BY DEF Typed, BeatsOK
<1>1. ASSUME NEW c \in Beats, BeatStep(c), c # b
      PROVE  beat'[b] = beat[b]
  BY <1>a, <1>1 DEF BeatStep, BeginSweep, SelectStale, FailStale, SweepUpdates, RearmOrphans,
     ListScheduled, ExamineJob, FireJob, Proceed
<1>2. ASSUME NEW c \in Beats, TickRaises(c) \/ BeatCrashes(c)
      PROVE  beat'[b] = beat[b] \/ beat'[b].pc = "idle"
  BY <1>a, <1>2 DEF TickRaises, BeatCrashes, IdleBeat
<1>3. CASE Clock
  BY <1>3, TimeChangesAges
<1>4. CASE UNCHANGED beat
  BY <1>4
<1>5. ASSUME NEW j \in Jobs, Schedule(j) \/ Enqueue(j) \/ CancelJob(j)
      PROVE  UNCHANGED beat
  BY <1>5 DEF Schedule, Enqueue, CancelJob
<1>6. ASSUME NEW s \in Slots, ClaimStep(s) \/ SlotStep(s) \/ WorkerCrashes(s)
      PROVE  UNCHANGED beat
  BY <1>6 DEF ClaimStep, ClaimRun, WorkerCrashes, SlotStep, Succeeds, Fails, RetryTask, Aborts,
     Unresolved, StopsCancelled, ResetAttempts, IncrementAttempts, RetryRun, Reschedule,
     Pruned, RescheduleOnError
<1>. QED BY <1>1, <1>2, <1>3, <1>4, <1>5, <1>6 DEF Next, vars

\* The sweep fails a run only if it is ready and no worker has claimed it, even
\* one that a worker claimed after the sweep had selected it.
THEOREM SweepIsSparing == Spec => SweepSparesClaimed
<1>1. Typed /\ HolderInv /\ [Next]_vars =>
        \A b \in Beats, r \in RunIds :
          SweepFails(b, r) => run[r].status = "ready" /\ ~Held(r)
  <2> SUFFICES ASSUME Typed, HolderInv, [Next]_vars, NEW b \in Beats, NEW r \in RunIds,
                      SweepFails(b, r)
               PROVE  run[r].status = "ready" /\ ~Held(r)
    OBVIOUS
  <2>1. FailStale(b)
    BY OwnStep DEF SweepFails, BeatStep, BeginSweep, SelectStale, RearmOrphans, ListScheduled,
       ExamineJob, FireJob
  <2>2. run[r].status = "ready"
    BY <2>1 DEF FailStale, SweepUpdates, SweepFails
  <2>3. \A s \in Slots : slot[s].run # r
    BY <2>2 DEF HolderInv, RunIds
  <2>. QED BY <2>2, <2>3 DEF Held
<1>2. Typed /\ HolderInv /\ [Next]_vars =>
        [\A b \in Beats, r \in RunIds :
           SweepFails(b, r) => run[r].status = "ready" /\ ~Held(r)]_vars
  BY <1>1
<1>. QED BY <1>2, HolderInvariant, PTL DEF Spec, SweepSparesClaimed

-----------------------------------------------------------------------------
(* Promptness: whom the sweep re-arms.                                      *)

\* The rows of jobs that an action writes.
LEMMA ArmRows ==
  ASSUME job \in [Jobs -> JobRow], NEW i \in Jobs, NEW next, Arm(i, next)
  PROVE  /\ \A j \in Jobs \ {i} : job'[j] = job[j]
         /\ job'[i].status = job[i].status /\ job'[i].next = next /\ job'[i].idle = 0
<1>1. job' = [job EXCEPT ![i] = [job[i] EXCEPT !.next = next, !.idle = 0]]
  BY DEF Arm
<1>2. job[i] \in JobRow
  OBVIOUS
<1>3. /\ [job[i] EXCEPT !.next = next, !.idle = 0].status = job[i].status
      /\ [job[i] EXCEPT !.next = next, !.idle = 0].next = next
      /\ [job[i] EXCEPT !.next = next, !.idle = 0].idle = 0
  BY <1>2 DEF JobRow
<1>. QED BY <1>1, <1>3

LEMMA AttemptRows ==
  ASSUME job \in [Jobs -> JobRow], NEW i \in Jobs, NEW n,
         job' = [job EXCEPT ![i].attempts = n, ![i].idle = 0]
  PROVE  /\ \A j \in Jobs \ {i} : job'[j] = job[j]
         /\ job'[i].status = job[i].status /\ job'[i].next = job[i].next
         /\ job'[i].idle = 0
<1>1. job' = [job EXCEPT ![i] = [job[i] EXCEPT !.attempts = n, !.idle = 0]]
  OBVIOUS
<1>2. job[i] \in JobRow
  OBVIOUS
<1>3. /\ [job[i] EXCEPT !.attempts = n, !.idle = 0].status = job[i].status
      /\ [job[i] EXCEPT !.attempts = n, !.idle = 0].next = job[i].next
      /\ [job[i] EXCEPT !.attempts = n, !.idle = 0].idle = 0
  BY <1>2 DEF JobRow
<1>. QED BY <1>1, <1>3

LEMMA ReviveRows ==
  ASSUME job \in [Jobs -> JobRow], NEW jobs,
         job' = [j \in Jobs |-> IF j \in jobs THEN [job[j] EXCEPT !.next = 0, !.idle = 0]
                                ELSE job[j]]
  PROVE  \A j \in Jobs :
           \/ j \notin jobs /\ job'[j] = job[j]
           \/ j \in jobs /\ job'[j].status = job[j].status /\ job'[j].idle = 0
<1>1. \A x \in JobRow : /\ [x EXCEPT !.next = 0, !.idle = 0].status = x.status
                        /\ [x EXCEPT !.next = 0, !.idle = 0].idle = 0
  BY DEF JobRow
<1>. QED BY <1>1

LEMMA CancelRows ==
  ASSUME Typed, NEW i \in Jobs, CancelJob(i)
  PROVE  /\ \A j \in Jobs \ {i} : job'[j] = job[j]
         /\ job'[i].status = "cancelled" /\ job'[i].idle = 0
         /\ \A r \in RunIds :
              /\ run'[r].job = run[r].job /\ run'[r].age = run[r].age
              /\ run'[r].status =
                   IF run[r].job = i /\ run[r].status \in {"ready", "running"}
                   THEN "cancelled" ELSE run[r].status
<1>a. job \in [Jobs -> JobRow] /\ RowsOK
  BY DEF Typed
<1>1. job' = [job EXCEPT ![i] = [job[i] EXCEPT !.status = "cancelled", !.idle = 0]]
  BY <1>a DEF CancelJob
<1>2. job[i] \in JobRow
  BY <1>a
<1>3. /\ [job[i] EXCEPT !.status = "cancelled", !.idle = 0].status = "cancelled"
      /\ [job[i] EXCEPT !.status = "cancelled", !.idle = 0].idle = 0
  BY <1>2 DEF JobRow
<1>4. \A x \in RunRow : /\ [x EXCEPT !.status = "cancelled"].job = x.job
                        /\ [x EXCEPT !.status = "cancelled"].age = x.age
                        /\ [x EXCEPT !.status = "cancelled"].status = "cancelled"
  BY DEF RunRow
<1>5. \A r \in RunIds : run[r] \in RunRow
  BY <1>a DEF RowsOK
<1>. QED BY <1>a, <1>1, <1>3, <1>4, <1>5 DEF CancelJob

\* Whoever but the clock writes the row of a job sets its updated_at.
LEMMA RowsAreTouched ==
  ASSUME Typed, Next, ~Clock, NEW j \in Jobs
  PROVE  job'[j] = job[j] \/ job'[j].idle = 0
<1>a. job \in [Jobs -> JobRow] /\ SlotsOK
  BY DEF Typed
<1>1. ASSUME NEW i \in Jobs, Schedule(i) \/ Enqueue(i) \/ CancelJob(i)
      PROVE  job'[j] = job[j] \/ job'[j].idle = 0
  <2>1. CASE Schedule(i) \/ Enqueue(i)
    BY <1>a, <2>1 DEF Schedule, Enqueue
  <2>. QED BY <1>1, <2>1, CancelRows
<1>2. ASSUME NEW b \in Beats, BeatStep(b) \/ TickRaises(b) \/ BeatCrashes(b)
      PROVE  job'[j] = job[j] \/ job'[j].idle = 0
  <2>1. CASE FailStale(b) \/ RearmOrphans(b)
    <3>1. \E jobs : job' = [i \in Jobs |-> IF i \in jobs
                                           THEN [job[i] EXCEPT !.next = 0, !.idle = 0]
                                           ELSE job[i]]
      <4>1. CASE FailStale(b)
        BY <4>1 DEF FailStale, SweepUpdates
      <4>2. CASE RearmOrphans(b)
        <5>1. job' = [i \in Jobs |-> IF i \in {k \in Jobs : Orphaned(k)}
                                     THEN [job[i] EXCEPT !.next = 0, !.idle = 0]
                                     ELSE job[i]]
          BY <4>2 DEF RearmOrphans
        <5>. QED BY <5>1
      <4>. QED BY <2>1, <4>1, <4>2
    <3>. QED BY <1>a, <3>1, ReviveRows
  <2>2. CASE \E i \in Jobs : ExamineJob(b, i)
    BY <1>a, <2>2, ArmRows DEF ExamineJob
  <2>. QED BY <1>2, <2>1, <2>2
           DEF BeatStep, BeginSweep, SelectStale, ListScheduled, FireJob, TickRaises,
               BeatCrashes
<1>3. ASSUME NEW s \in Slots, ClaimStep(s) \/ SlotStep(s) \/ WorkerCrashes(s)
      PROVE  job'[j] = job[j] \/ job'[j].idle = 0
  <2>1. CASE ResetAttempts(s)
    BY <1>a, <2>1, AttemptRows DEF ResetAttempts, SlotsOK
  <2>2. CASE IncrementAttempts(s)
    <3>1. slot[s].job \in Jobs
      BY <1>a, <2>2 DEF IncrementAttempts, SlotsOK
    <3>2. PICK n : n = IF job[slot[s].job].attempts <= Retries
                       THEN job[slot[s].job].attempts + 1 ELSE job[slot[s].job].attempts
      OBVIOUS
    <3>3. job' = [job EXCEPT ![slot[s].job].attempts = n, ![slot[s].job].idle = 0]
      BY <1>a, <2>2, <3>1, <3>2 DEF IncrementAttempts
    <3>. QED BY <1>a, <3>1, <3>3, AttemptRows
  <2>3. CASE Reschedule(s) \/ RescheduleOnError(s)
    BY <1>a, <2>3, ArmRows DEF Reschedule, RescheduleOnError, SlotsOK
  <2>. QED BY <1>3, <2>1, <2>2, <2>3
           DEF ClaimStep, ClaimRun, WorkerCrashes, SlotStep, Succeeds, Fails, RetryTask,
               Aborts, Unresolved, StopsCancelled, RetryRun, Pruned
<1>. QED BY <1>1, <1>2, <1>3 DEF Next

Busy(j) == BeingFired(j) \/ BeingRun(j)

\* The labels inside reconcile_abandoned.
LEMMA SweepPc ==
  ASSUME Typed, NEW b \in Beats,
         BeginSweep(b) \/ SelectStale(b) \/ FailStale(b) \/ RearmOrphans(b)
  PROVE  beat'[b].pc \in {"select", "fail", "orphans", "list"}
<1>1. beat \in [Beats -> BeatState]
  BY DEF Typed, BeatsOK
<1>2. beat[b] \in BeatState
  BY <1>1
<1>3. CASE BeginSweep(b)
  BY <1>1, <1>2, <1>3 DEF BeginSweep, BeatState
<1>4. CASE SelectStale(b)
  <2>1. PICK stale, of, pc :
          /\ pc \in {"fail", "orphans"}
          /\ beat' = [beat EXCEPT ![b].pc = pc, ![b].stale = stale, ![b].of = of]
    BY <1>4 DEF SelectStale
  <2>. QED BY <1>1, <1>2, <2>1 DEF BeatState
<1>5. CASE FailStale(b)
  <2>1. PICK rows : SweepUpdates(b, rows)
    BY <1>5 DEF FailStale
  <2>2. PICK pc \in {"orphans", "select"} :
          beat' = [beat EXCEPT ![b].pc = pc, ![b].stale = {}, ![b].of = {}]
    BY <2>1, Zenon DEF SweepUpdates
  <2>. QED BY <1>1, <1>2, <2>2 DEF BeatState
<1>6. CASE RearmOrphans(b)
  BY <1>1, <1>2, <1>6 DEF RearmOrphans, BeatState
<1>. QED BY <1>3, <1>4, <1>5, <1>6

\* The labels of the loop.
LEMMA ProceedPc ==
  ASSUME BeatsOK, NEW b \in Beats, NEW todo, Proceed(b, todo)
  PROVE  beat'[b].pc \in {"idle", "jobs"}
<1>1. beat[b] \in BeatState /\ IdleBeat.pc = "idle"
  BY IdleBeatOK DEF BeatsOK
<1>2. [beat[b] EXCEPT !.pc = "jobs", !.todo = todo, !.job = None].pc = "jobs"
  BY <1>1 DEF BeatState
<1>3. beat'[b] = IF todo = {} THEN IdleBeat
                 ELSE [beat[b] EXCEPT !.pc = "jobs", !.todo = todo, !.job = None]
  BY DEF Proceed, BeatsOK
<1>. QED BY <1>1, <1>2, <1>3

LEMMA ListPc ==
  ASSUME BeatsOK, NEW b \in Beats, ListScheduled(b)
  PROVE  beat'[b].pc \in {"idle", "jobs"}
<1>1. beat[b] \in BeatState /\ IdleBeat.pc = "idle"
  BY IdleBeatOK DEF BeatsOK
<1>2. \A todo, seen : [beat[b] EXCEPT !.pc = "jobs", !.todo = todo, !.seen = seen].pc = "jobs"
  BY <1>1 DEF BeatState
<1>3. PICK todo, seen :
        beat' = [beat EXCEPT ![b] =
                   IF todo = {} THEN IdleBeat
                   ELSE [@ EXCEPT !.pc = "jobs", !.todo = todo, !.seen = seen]]
  BY Zenon DEF ListScheduled
<1>4. beat'[b] = IF todo = {} THEN IdleBeat
                 ELSE [beat[b] EXCEPT !.pc = "jobs", !.todo = todo, !.seen = seen]
  BY <1>3 DEF BeatsOK
<1>. QED BY <1>1, <1>2, <1>4

\* Busyness passes on: a job that is not busy is made so by an action that sets
\* its updated_at.
LEMMA BusyPassesOn ==
  ASSUME Typed, HolderInv, Next, ~Clock, NEW j \in Jobs
  PROVE  Busy(j)' => Busy(j) \/ job'[j].idle = 0
<1>a. job \in [Jobs -> JobRow] /\ RowsOK /\ SlotsOK /\ BeatsOK
  BY DEF Typed
<1>1. ASSUME NEW i \in Jobs, Schedule(i) \/ CancelJob(i)
      PROVE  Busy(j)' => Busy(j) \/ job'[j].idle = 0
  <2>2. UNCHANGED <<slot, beat>>
    BY <1>1 DEF Schedule, CancelJob
  <2>3. \A r \in RunIds : run'[r].job = run[r].job
                            /\ run'[r].status \in {run[r].status, "cancelled"}
    <3>1. CASE Schedule(i)
      BY <3>1 DEF Schedule
    <3>2. CASE CancelJob(i)
      BY <3>2, CancelRows
    <3>. QED BY <1>1, <3>1, <3>2
  <2>. QED BY <2>2, <2>3 DEF Busy, BeingFired, BeingRun, InFlight
<1>2. ASSUME NEW i \in Jobs, Enqueue(i)
      PROVE  Busy(j)' => Busy(j) \/ job'[j].idle = 0
  <2>1. job'[j].idle = IF j = i THEN 0 ELSE job[j].idle
    BY <1>a, <1>2 DEF Enqueue
  <2>2. PICK delay \in {0, 1} : InsertRun(i, delay)
    BY <1>2 DEF Enqueue
  <2>3. \A r \in RunIds : run'[r] = run[r] \/ run'[r].job = i
    BY <1>a, <2>2, Inserted DEF RowsOK
  <2>4. UNCHANGED <<slot, beat>>
    BY <1>2 DEF Enqueue
  <2>5. j # i => (Busy(j)' => Busy(j))
    BY <2>3, <2>4 DEF Busy, BeingFired, BeingRun, InFlight
  <2>. QED BY <2>1, <2>5
<1>3. ASSUME NEW b \in Beats, BeatStep(b)
      PROVE  Busy(j)' => Busy(j) \/ job'[j].idle = 0
  <2>2. UNCHANGED slot
    BY <1>3 DEF BeatStep, BeginSweep, SelectStale, FailStale, RearmOrphans,
       ListScheduled, ExamineJob, FireJob
  <2>3. \A r \in RunIds : run'[r] = run[r] \/ run'[r] = NoRun
                          \/ (beat[b].pc = "create" /\ run'[r].job = beat[b].job)
    <3>1. CASE FireJob(b)
      <4>1. beat[b].job \in Jobs
        BY <1>a, <3>1 DEF BeatsOK, FireJob
      <4>. QED BY <1>a, <3>1, <4>1, Inserted DEF FireJob, RowsOK
    <3>2. CASE FailStale(b)
      BY <3>2 DEF FailStale, SweepUpdates
    <3>. QED BY <1>3, <3>1, <3>2 DEF BeatStep, BeginSweep, SelectStale, RearmOrphans,
             ListScheduled, ExamineJob
  <2>4. BeingRun(j)' => Busy(j)
    BY <2>2, <2>3 DEF Busy, BeingFired, BeingRun, InFlight, NoRun
  <2>5. BeingFired(j)' => BeingFired(j) \/ job'[j].idle = 0
    <3>1. \A c \in Beats : c # b => beat'[c] = beat[c]
      BY <1>a, <1>3 DEF BeatsOK, BeatStep, BeginSweep, SelectStale, FailStale, SweepUpdates,
         RearmOrphans, ListScheduled, ExamineJob, FireJob, Proceed
    <3>2. beat'[b].pc = "create" /\ beat'[b].job = j => job'[j].idle = 0
      <4>1. CASE \E i \in Jobs : ExamineJob(b, i)
        <5>1. PICK i \in Jobs : ExamineJob(b, i)
          BY <4>1
        <5>2. CASE Proceed(b, beat[b].todo \ {i})
          BY <1>a, <5>2, ProceedPc
        <5>3. CASE ~Proceed(b, beat[b].todo \ {i})
          <6>1. Arm(i, None)
                /\ beat' = [beat EXCEPT ![b].pc = "create", ![b].job = i, ![b].todo = @ \ {i}]
            BY <5>1, <5>3 DEF ExamineJob
          <6>2. beat'[b].job = i
            BY <1>a, <6>1 DEF BeatsOK, BeatState
          <6>3. job'[i].idle = 0
            BY <1>a, <6>1, ArmRows
          <6>. QED BY <6>2, <6>3
        <5>. QED BY <5>2, <5>3
      <4>2. CASE ~ \E i \in Jobs : ExamineJob(b, i)
        <5>2. beat'[b].pc # "create"
          BY <1>a, <1>3, <4>2, SweepPc, ProceedPc, ListPc DEF BeatStep, FireJob
        <5>. QED BY <5>2
      <4>. QED BY <4>1, <4>2
    <3>. QED BY <3>1, <3>2 DEF BeingFired
  <2>. QED BY <2>4, <2>5 DEF Busy
<1>4. ASSUME NEW s \in Slots, ClaimStep(s) \/ SlotStep(s) \/ WorkerCrashes(s)
      PROVE  Busy(j)' => Busy(j) \/ job'[j].idle = 0
  <2>2. UNCHANGED beat
    BY <1>4 DEF ClaimStep, ClaimRun, WorkerCrashes, SlotStep, Succeeds, Fails, RetryTask, Aborts,
       Unresolved, StopsCancelled, ResetAttempts, IncrementAttempts, RetryRun, Reschedule,
       Pruned, RescheduleOnError
  <2>3. BeingRun(j)' => BeingRun(j)
    <3>1. CASE ClaimStep(s)
      <4>1. PICK r \in RunIds : ClaimRun(s, r)
        BY <3>1 DEF ClaimStep
      <4>2. \A q \in RunIds : run'[q].job = run[q].job
                              /\ run'[q].status = IF q = r THEN "running" ELSE run[q].status
        BY <4>1, ClaimedRows
      <4>3. \A t \in Slots : slot'[t] = slot[t] \/ slot'[t].job = run[r].job
        BY <1>a, <4>1 DEF ClaimRun, SlotsOK
      <4>4. run[r].status \in {"ready", "running"}
        BY <4>1 DEF ClaimRun
      <4>. QED BY <4>2, <4>3, <4>4 DEF BeingRun, InFlight
    <3>2. CASE SlotStep(s) \/ WorkerCrashes(s)
      <4>1. \A t \in Slots : \/ slot'[t] = slot[t]
                             \/ slot'[t].pc = "idle"
                             \/ slot[t].pc # "idle" /\ slot'[t].job = slot[t].job
        BY <1>a, <3>2 DEF WorkerCrashes, SlotStep, Succeeds, Fails, RetryTask, Aborts,
           Unresolved, StopsCancelled, ResetAttempts, IncrementAttempts, RetryRun, Reschedule,
           Pruned, RescheduleOnError, Working, Continue, IdleSlot, SlotsOK
      <4>2. \A r \in RunIds : \/ run'[r] = run[r] \/ run'[r] = NoRun
                              \/ run'[r].job = run[r].job /\ run[r].status = "running"
                              \/ slot[s].pc # "idle" /\ run'[r].job = slot[s].job
        <5>1. CASE RetryRun(s)
          BY <1>a, <5>1, Inserted DEF RetryRun, SlotsOK, RowsOK
        <5>2. CASE RetryTask(s)
          <6>1. \A x \in RunRow : [x EXCEPT !.status = "ready", !.wait = -1].job = x.job
            BY DEF RunRow
          <6>. QED BY <1>a, <5>2, <6>1 DEF RetryTask, RowsOK
        <5>. QED BY <1>a, <3>2, <5>1, <5>2
             DEF WorkerCrashes, SlotStep, Succeeds, Fails, Aborts, Unresolved, StopsCancelled,
                 ResetAttempts, IncrementAttempts, Reschedule, Pruned, RescheduleOnError,
                 EndRun, RowsOK
      <4>. QED BY <4>1, <4>2 DEF BeingRun, InFlight, NoRun
    <3>. QED BY <1>4, <3>1, <3>2
  <2>. QED BY <2>2, <2>3 DEF Busy, BeingFired
<1>5. ASSUME NEW b \in Beats, TickRaises(b) \/ BeatCrashes(b)
      PROVE  Busy(j)' => Busy(j) \/ job'[j].idle = 0
  <2>1. UNCHANGED <<job, slot>>
    BY <1>5 DEF TickRaises, BeatCrashes
  <2>2. \A x \in RunRow : /\ [x EXCEPT !.passed = @ \ {b}].job = x.job
                          /\ [x EXCEPT !.passed = @ \ {b}].status = x.status
    BY DEF RunRow
  <2>3. \A r \in RunIds : run'[r].job = run[r].job /\ run'[r].status = run[r].status
    BY <1>a, <1>5, <2>2 DEF TickRaises, BeatCrashes, RowsOK
  <2>4. \A c \in Beats : beat'[c] = beat[c] \/ beat'[c].pc = "idle"
    BY <1>a, <1>5 DEF TickRaises, BeatCrashes, BeatsOK, IdleBeat
  <2>. QED BY <2>1, <2>3, <2>4 DEF Busy, BeingFired, BeingRun, InFlight
<1>. QED BY <1>1, <1>2, <1>3, <1>4, <1>5 DEF Next

LEMMA TimeAgesJobs ==
  ASSUME Typed, Clock, NEW j \in Jobs
  PROVE  /\ job'[j].status = job[j].status
         /\ job'[j].next = job[j].next \/ job'[j].next = LaterNext(job[j].next)
         /\ job'[j] = job[j] \/ job'[j].idle = Older(job[j].idle, Old)
<1>1. job[j] \in JobRow
  BY DEF Typed
<1>2. \A next, idle : /\ [job[j] EXCEPT !.next = next, !.idle = idle].status = job[j].status
                     /\ [job[j] EXCEPT !.next = next, !.idle = idle].next = next
                     /\ [job[j] EXCEPT !.next = next, !.idle = idle].idle = idle
  BY <1>1 DEF JobRow
<1>3. job'[j] = IF job[j].status = "absent" THEN job[j]
                ELSE [job[j] EXCEPT !.next = LaterNext(job[j].next),
                                    !.idle = Older(job[j].idle, Old)]
  BY DEF Clock
<1>. QED BY <1>2, <1>3

LEMMA PromptStep ==
  ASSUME AllPrompt, Typed, HolderInv, PromptInv, [Next]_vars
  PROVE  PromptInv'
<1>a. job \in [Jobs -> JobRow] /\ RowsOK /\ SlotsOK /\ BeatsOK
  BY DEF Typed
<1>b. \A j \in Jobs : job[j].idle \in 0 .. Old
  BY <1>a DEF JobRow
<1>1. CASE UNCHANGED vars
  BY <1>1 DEF vars, PromptInv, BeingFired, BeingRun, InFlight
<1>2. CASE Next /\ ~Clock
  <2>1. \A j \in Jobs : Busy(j)' => Busy(j) \/ job'[j].idle = 0
    BY <1>2, BusyPassesOn
  <2>2. \A j \in Jobs : job'[j].idle = job[j].idle \/ job'[j].idle = 0
    BY <1>2, RowsAreTouched
  <2>3. \A j \in Jobs : Busy(j) => job[j].idle <= Grace
    BY DEF PromptInv, Busy
  <2>4. \A j \in Jobs : Busy(j)' => job'[j].idle <= Grace
    BY <1>b, <2>1, <2>2, <2>3, BoundsAreNumbers DEF Numbers
  <2>. QED BY <2>4 DEF PromptInv, Busy
<1>3. CASE Clock
  <2>1. \A j \in Jobs : Busy(j)' => Busy(j)
    <3>1. UNCHANGED slot
      BY <1>3 DEF Clock
    <3>. QED BY <1>3, <3>1, TimeChangesAges DEF Busy, BeingFired, BeingRun, InFlight
  <2>2. \A j \in Jobs : Busy(j) => job[j].idle < Grace
    BY <1>3 DEF Clock, AllPrompt, Busy
  <2>3. \A j \in Jobs : job'[j].idle \in {job[j].idle, Older(job[j].idle, Old)}
    BY <1>3, TimeAgesJobs
  <2>4. \A j \in Jobs : Busy(j)' => job'[j].idle <= Grace
    BY <1>b, <2>1, <2>2, <2>3, BoundsAreNumbers DEF Numbers, Older, Old
  <2>. QED BY <2>4 DEF PromptInv, Busy
<1>. QED BY <1>1, <1>2, <1>3

LEMMA PromptInvariant == AllPrompt => (Spec => [](Typed /\ HolderInv /\ PromptInv))
<1> SUFFICES ASSUME AllPrompt PROVE Spec => [](Typed /\ HolderInv /\ PromptInv)
  OBVIOUS
<1>1. ASSUME Init PROVE PromptInv
  <2>1. IdleBeat.pc = "idle" /\ IdleSlot.pc = "idle" /\ NoRun.status = "none"
    BY IdleBeatOK DEF IdleSlot, NoRun
  <2>2. /\ \A b \in Beats : beat[b].pc = "idle"
        /\ \A s \in Slots : slot[s].pc = "idle"
        /\ \A r \in RunIds : run[r].status = "none"
    BY <1>1, <2>1 DEF Init
  <2>. QED BY <2>2 DEF PromptInv, BeingFired, BeingRun, InFlight
<1>2. Init => Typed /\ HolderInv /\ PromptInv
  BY <1>1, InitTyped, HolderInit
<1>3. Typed /\ HolderInv /\ PromptInv /\ [Next]_vars => (Typed /\ HolderInv /\ PromptInv)'
  BY StepTyped, HolderStep, PromptStep
<1>. QED BY <1>2, <1>3, PTL DEF Spec

\* The sweep re-arms only orphans: where beats and workers are done with a job
\* within the grace period of its last update, no worker is about to re-arm it
\* and no beat about to fire it.
THEOREM OnlyOrphansAreRearmed == AllPrompt => (Spec => RearmsOnlyOrphans)
<1> SUFFICES ASSUME AllPrompt PROVE Spec => RearmsOnlyOrphans
  OBVIOUS
<1>1. Typed /\ PromptInv /\ [Next]_vars =>
        \A b \in Beats, j \in Jobs :
          /\ beat[b].pc = "orphans" /\ beat'[b].pc = "list"
          /\ job[j].next = None /\ job'[j].next # None
          => ~BeingFired(j) /\ ~BeingRun(j)
  <2> SUFFICES ASSUME Typed, PromptInv, [Next]_vars, NEW b \in Beats, NEW j \in Jobs,
                      beat[b].pc = "orphans", beat'[b].pc = "list",
                      job[j].next = None, job'[j].next # None
               PROVE  ~BeingFired(j) /\ ~BeingRun(j)
    OBVIOUS
  <2>1. RearmOrphans(b)
    BY OwnStep DEF BeatStep, BeginSweep, SelectStale, FailStale, ListScheduled,
       ExamineJob, FireJob
  <2>2. Orphaned(j)
    BY <2>1 DEF RearmOrphans
  <2>3. job[j].idle \in 0 .. Old
    BY DEF Typed, JobRow
  <2>. QED BY <2>2, <2>3, BoundsAreNumbers DEF Orphaned, PromptInv, Numbers, Old
<1>2. Typed /\ PromptInv /\ [Next]_vars =>
        [\A b \in Beats, j \in Jobs :
          /\ beat[b].pc = "orphans" /\ beat'[b].pc = "list"
          /\ job[j].next = None /\ job'[j].next # None
          => ~BeingFired(j) /\ ~BeingRun(j)]_vars
  BY <1>1
<1>. QED BY <1>2, PromptInvariant, PTL DEF Spec, RearmsOnlyOrphans

-----------------------------------------------------------------------------
(* One turn at a time.                                                      *)

\* A step that gives job j nothing new.
Quiet(j) ==
  /\ \A b \in Beats : beat'[b].pc = "create" /\ beat'[b].job = j =>
       beat[b].pc = "create" /\ beat[b].job = j
  /\ \A b \in Beats : j \in beat'[b].of => j \in beat[b].of
  /\ \A r \in RunIds : run'[r].job = j /\ run'[r].status \in {"ready", "running"} =>
       /\ run[r].job = j /\ run[r].status \in {"ready", "running"}
       /\ run'[r].age = run[r].age
  /\ \A r \in RunIds : run'[r].job = j /\ run'[r].status = "cancelled" =>
       run[r].job = j /\ run[r].status = "cancelled"
  /\ \A s \in Slots : Finishing(s, j)' => Finishing(s, j)
  /\ BeingRun(j)' => BeingRun(j)
  /\ job'[j] = job[j]

LEMMA QuietTurn ==
  ASSUME NEW j \in Jobs, Turn(j), Quiet(j)
  PROVE  Turn(j)'
<1>1. BeingFired(j)' => BeingFired(j)
  BY DEF Quiet, BeingFired
<1>2. InFlight(j)' => InFlight(j)
  BY DEF Quiet, InFlight
<1>3. \A r \in OnRow(j)' : r \in OnRow(j) /\ run'[r].age = run[r].age
  BY DEF Quiet, OnRow
<1>. QED BY <1>1, <1>2, <1>3 DEF Firing, Quiet, Turn

\* What is not firing, in flight or finishing is not at work for an active job.
LEMMA WorkIsInFlight ==
  ASSUME Typed, HolderInv, NEW j \in Jobs, Turn(j), job[j].status = "active"
  PROVE  /\ \A s \in Slots : Working(s) /\ slot[s].job = j =>
              run[slot[s].run].status = "running" /\ slot[s].run \in OnRow(j)
         /\ BeingRun(j) => InFlight(j) \/ \E s \in Slots : Finishing(s, j)
<1>1. ASSUME NEW s \in Slots, Working(s), slot[s].job = j
      PROVE  run[slot[s].run].status = "running" /\ slot[s].run \in OnRow(j)
  <2>1. slot[s].run \in RunIds
    BY <1>1, HeldIsARow DEF Typed
  <2>2. run[slot[s].run].job = j /\ run[slot[s].run].status \in {"running", "cancelled"}
    BY <1>1 DEF HolderInv
  <2>. QED BY <2>1, <2>2 DEF Turn, OnRow
<1>2. BeingRun(j) => InFlight(j) \/ \E s \in Slots : Finishing(s, j)
  BY <1>1 DEF BeingRun, Working, Finishing, OnRow, InFlight
<1>. QED BY <1>1, <1>2

LEMMA InFlightHasARow ==
  ASSUME NEW j
  PROVE  InFlight(j) <=> OnRow(j) # {}
BY DEF InFlight, OnRow

-----------------------------------------------------------------------------

LEMMA TurnSchedule ==
  ASSUME Typed, OneTurnInv, NEW k \in Jobs, Schedule(k)
  PROVE  OneTurnInv'
<1>a. job \in [Jobs -> JobRow]
  BY DEF Typed
<1>1. UNCHANGED <<run, beat, slot>>
  BY DEF Schedule
<1>2. \A j \in Jobs \ {k} : job'[j] = job[j]
  BY <1>a DEF Schedule
<1>3. job[k].status = "absent" /\ job'[k].status = "active"
  BY <1>a DEF Schedule
<1>4. ASSUME NEW j \in Jobs, j # k
      PROVE  Turn(j)'
  <2>1. Quiet(j)
    BY <1>1, <1>2, <1>4 DEF Quiet, Finishing, BeingRun, InFlight
  <2>. QED BY <2>1, QuietTurn DEF OneTurnInv
<1>5. Turn(k)'
  <2>1. Turn(k)
    BY DEF OneTurnInv
  <2>2. ~BeingFired(k) /\ ~BeingRun(k)
    BY <2>1, <1>3 DEF Turn
  <2>3. ~BeingFired(k)' /\ ~BeingRun(k)'
    BY <1>1, <2>2 DEF BeingFired, BeingRun, InFlight
  <2>4. OnRow(k)' = {} /\ \A s \in Slots : ~Finishing(s, k)'
    BY <2>3 DEF OnRow, BeingRun, InFlight, Finishing
  <2>5. /\ \A r \in RunIds : ~(run'[r].status = "cancelled" /\ run'[r].job = k)
        /\ \A b \in Beats : k \notin beat'[b].of
    BY <1>1, <1>3, <2>1 DEF Turn
  <2>. QED BY <1>3, <2>3, <2>4, <2>5 DEF Firing, Turn, BeingFired
<1>6. NeverRetries'
  BY <1>1 DEF OneTurnInv, NeverRetries
<1>. QED BY <1>4, <1>5, <1>6 DEF OneTurnInv

\* InsertRun for job k: one more row of k, the others as they were.
LEMMA InsertedRow ==
  ASSUME RowsOK, NEW k \in Jobs, NEW delay \in {0, 1}, InsertRun(k, delay)
  PROVE  \E r \in RunIds :
           /\ run[r].status = "none"
           /\ run'[r].status = "ready" /\ run'[r].job = k /\ run'[r].age = 0
           /\ \A q \in RunIds \ {r} : run'[q] = run[q]
<1>1. PICK r \in RunIds, row \in RunRow :
        /\ run[r] = NoRun
        /\ run' = [run EXCEPT ![r] = row]
        /\ row.status = "ready" /\ row.job = k /\ row.age = 0 /\ row.wait = -delay
  BY Inserted
<1>. QED BY <1>1 DEF RowsOK, NoRun

LEMMA TurnEnqueue ==
  ASSUME Typed, OneTurnInv, NEW k \in Jobs, Enqueue(k)
  PROVE  OneTurnInv'
<1>a. job \in [Jobs -> JobRow] /\ RowsOK
  BY DEF Typed
<1>1. UNCHANGED <<beat, slot>>
  BY DEF Enqueue
<1>2. \A j \in Jobs \ {k} : job'[j] = job[j]
  BY <1>a DEF Enqueue
<1>3. job[k].status = "absent" /\ job'[k].status = "active" /\ job'[k].idle = 0
      /\ job'[k].next = None
  BY <1>a DEF Enqueue
<1>4. PICK r \in RunIds :
           /\ run[r].status = "none"
           /\ run'[r].status = "ready" /\ run'[r].job = k /\ run'[r].age = 0
           /\ \A q \in RunIds \ {r} : run'[q] = run[q]
  BY <1>a, InsertedRow DEF Enqueue
<1>5. ASSUME NEW j \in Jobs, j # k
      PROVE  Turn(j)'
  <2>1. Quiet(j)
    BY <1>1, <1>2, <1>4, <1>5 DEF Quiet, Finishing, BeingRun, InFlight
  <2>. QED BY <2>1, QuietTurn DEF OneTurnInv
<1>6. Turn(k)'
  <2>1. Turn(k)
    BY DEF OneTurnInv
  <2>2. ~BeingFired(k) /\ ~BeingRun(k)
    BY <2>1, <1>3 DEF Turn
  <2>3. ~BeingFired(k)' /\ \A s \in Slots : ~Finishing(s, k)'
    BY <1>1, <2>2 DEF BeingFired, BeingRun, Finishing
  <2>4. \A q \in OnRow(k)' : q = r
    BY <1>4, <2>2 DEF OnRow, BeingRun, InFlight
  <2>5. /\ \A q \in RunIds : ~(run'[q].status = "cancelled" /\ run'[q].job = k)
        /\ \A b \in Beats : k \notin beat'[b].of
    BY <1>1, <1>3, <1>4, <2>1 DEF Turn
  <2>. QED BY <1>3, <1>4, <2>3, <2>4, <2>5 DEF Firing, Turn, BeingFired
<1>7. NeverRetries'
  BY <1>1 DEF OneTurnInv, NeverRetries
<1>. QED BY <1>5, <1>6, <1>7 DEF OneTurnInv

LEMMA TurnCancel ==
  ASSUME Typed, OneTurnInv, NEW k \in Jobs, CancelJob(k)
  PROVE  OneTurnInv'
<1>1. UNCHANGED <<beat, slot>>
  BY DEF CancelJob
<1>2. ASSUME NEW j \in Jobs, j # k
      PROVE  Turn(j)'
  <2>1. Quiet(j)
    BY <1>1, <1>2, CancelRows DEF Quiet, Finishing, BeingRun, InFlight
  <2>. QED BY <2>1, QuietTurn DEF OneTurnInv
<1>3. Turn(k)'
  <2>1. Turn(k)
    BY DEF OneTurnInv
  <2>2. job'[k].status = "cancelled"
    BY CancelRows
  <2>3. ~InFlight(k)' /\ OnRow(k)' = {}
    BY CancelRows DEF InFlight, OnRow
  <2>. QED BY <1>1, <2>1, <2>2, <2>3 DEF Firing, Turn
<1>4. NeverRetries'
  BY <1>1 DEF OneTurnInv, NeverRetries
<1>. QED BY <1>2, <1>3, <1>4 DEF OneTurnInv

-----------------------------------------------------------------------------

LEMMA OthersBeat ==
  ASSUME BeatsOK, NEW b \in Beats, BeatStep(b)
  PROVE  \A c \in Beats \ {b} : beat'[c] = beat[c]
BY DEF BeatsOK, BeatStep, BeginSweep, SelectStale, FailStale, SweepUpdates, RearmOrphans,
   ListScheduled, ExamineJob, FireJob, Proceed

LEMMA ProceedOf ==
  ASSUME BeatsOK, NEW b \in Beats, NEW todo, Proceed(b, todo)
  PROVE  beat'[b].of \subseteq beat[b].of
<1>1. beat[b] \in BeatState /\ IdleBeat.of = {}
  BY DEF BeatsOK, IdleBeat
<1>2. [beat[b] EXCEPT !.pc = "jobs", !.todo = todo, !.job = None].of = beat[b].of
  BY <1>1 DEF BeatState
<1>3. beat'[b] = IF todo = {} THEN IdleBeat
                 ELSE [beat[b] EXCEPT !.pc = "jobs", !.todo = todo, !.job = None]
  BY DEF Proceed, BeatsOK
<1>. QED BY <1>1, <1>2, <1>3

\* Only the selection of stale runs adds to the jobs of a sweep.
LEMMA OfShrinks ==
  ASSUME BeatsOK, NEW b \in Beats, BeatStep(b), ~SelectStale(b)
  PROVE  beat'[b].of \subseteq beat[b].of
<1>1. beat[b] \in BeatState /\ IdleBeat.of = {}
  BY DEF BeatsOK, IdleBeat
<1>2. CASE BeginSweep(b)
  BY <1>1, <1>2 DEF BeginSweep, BeatsOK, BeatState
<1>3. CASE FailStale(b)
  <2>1. PICK rows : SweepUpdates(b, rows)
    BY <1>3 DEF FailStale
  <2>2. PICK pc : beat' = [beat EXCEPT ![b].pc = pc, ![b].stale = {}, ![b].of = {}]
    BY <2>1, Zenon DEF SweepUpdates
  <2>. QED BY <1>1, <2>2 DEF BeatsOK, BeatState
<1>4. CASE RearmOrphans(b)
  BY <1>1, <1>4 DEF RearmOrphans, BeatsOK, BeatState
<1>5. CASE ListScheduled(b)
  <2>1. \A todo, seen : [beat[b] EXCEPT !.pc = "jobs", !.todo = todo, !.seen = seen].of
                          = beat[b].of
    BY <1>1 DEF BeatState
  <2>2. PICK todo, seen :
          beat' = [beat EXCEPT ![b] =
                     IF todo = {} THEN IdleBeat
                     ELSE [@ EXCEPT !.pc = "jobs", !.todo = todo, !.seen = seen]]
    BY <1>5, Zenon DEF ListScheduled
  <2>3. beat'[b] = IF todo = {} THEN IdleBeat
                   ELSE [beat[b] EXCEPT !.pc = "jobs", !.todo = todo, !.seen = seen]
    BY <2>2 DEF BeatsOK
  <2>. QED BY <1>1, <2>1, <2>3
<1>6. ASSUME NEW i \in Jobs, ExamineJob(b, i)
      PROVE  beat'[b].of \subseteq beat[b].of
  <2>1. CASE Proceed(b, beat[b].todo \ {i})
    BY <2>1, ProceedOf
  <2>2. CASE ~Proceed(b, beat[b].todo \ {i})
    <3>1. beat' = [beat EXCEPT ![b].pc = "create", ![b].job = i, ![b].todo = @ \ {i}]
      BY <1>6, <2>2 DEF ExamineJob
    <3>. QED BY <1>1, <3>1 DEF BeatsOK, BeatState
  <2>. QED BY <2>1, <2>2
<1>7. CASE FireJob(b)
  BY <1>7, ProceedOf DEF FireJob
<1>. QED BY <1>2, <1>3, <1>4, <1>5, <1>6, <1>7 DEF BeatStep

\* Only a claimed job brings a beat to create_run.
LEMMA CreatesClaimed ==
  ASSUME BeatsOK, Typed, NEW b \in Beats, BeatStep(b), ~ \E i \in Jobs : ExamineJob(b, i)
  PROVE  beat'[b].pc # "create"
BY SweepPc, ProceedPc, ListPc DEF BeatStep, FireJob

LEMMA TurnSweep ==
  ASSUME AllPrompt, Typed, PromptInv, OneTurnInv, NEW b \in Beats,
         BeginSweep(b) \/ SelectStale(b) \/ FailStale(b) \/ RearmOrphans(b) \/ ListScheduled(b)
  PROVE  OneTurnInv'
<1>a. job \in [Jobs -> JobRow] /\ RowsOK /\ BeatsOK /\ BeatStep(b)
  BY DEF Typed, BeatStep
<1>b. UNCHANGED slot
  BY DEF BeginSweep, SelectStale, FailStale, RearmOrphans, ListScheduled
<1>c. NeverRetries'
  BY <1>b DEF OneTurnInv, NeverRetries
<1>d. /\ \A c \in Beats \ {b} : beat'[c] = beat[c]
      /\ beat'[b].pc # "create"
  BY <1>a, OthersBeat, SweepPc, ListPc
<1>1. \A r \in RunIds : run'[r] = run[r] \/ run'[r].status = "none"
  <2>1. CASE FailStale(b)
    BY <2>1 DEF FailStale, SweepUpdates, NoRun
  <2>2. CASE UNCHANGED run
    BY <2>2
  <2>. QED BY <2>1, <2>2 DEF BeginSweep, SelectStale, RearmOrphans, ListScheduled
<1>2. \A j \in Jobs : job'[j] = job[j] /\ (\A c \in Beats : j \in beat'[c].of => j \in beat[c].of)
                      => Turn(j)'
  <2>1. ASSUME NEW j \in Jobs, job'[j] = job[j],
               \A c \in Beats : j \in beat'[c].of => j \in beat[c].of
        PROVE  Turn(j)'
    <3>1. Quiet(j)
      BY <1>b, <1>d, <1>1, <2>1 DEF Quiet, Finishing, BeingRun, InFlight
    <3>. QED BY <3>1, QuietTurn DEF OneTurnInv
  <2>. QED BY <2>1
<1>3. CASE SelectStale(b)
  <2>1. UNCHANGED <<job, run>>
    BY <1>3 DEF SelectStale
  <2>2. ASSUME NEW j \in Jobs, j \in beat'[b].of
        PROVE  job[j].status = "cancelled"
    <3>1. PICK stale \in SUBSET {r \in RunIds : Stale(b, r)} : \E pc :
            beat' = [beat EXCEPT ![b].pc = pc, ![b].stale = stale,
                                 ![b].of = {run[r].job : r \in stale}]
      BY <1>3 DEF SelectStale
    <3>2. beat'[b].of = {run[r].job : r \in stale}
      BY <1>a, <3>1 DEF BeatsOK, BeatState
    <3>3. PICK r \in RunIds : Stale(b, r) /\ run[r].job = j
      BY <2>2, <3>2
    <3>4. r \in OnRow(j) /\ BeingRun(j)
      BY <3>3 DEF Stale, OnRow, BeingRun, InFlight
    <3>5. Turn(j)
      BY DEF OneTurnInv
    <3>6. job[j].status # "absent"
      BY <3>4, <3>5 DEF Turn
    <3>7. job[j].status # "active"
      <4>1. job[j].idle <= Grace
        BY <3>4 DEF PromptInv
      <4>2. run[r].age > Grace
        BY <3>3 DEF Stale
      <4>3. job[j].idle \in Int /\ run[r].age \in Int /\ Grace \in Int
        BY <1>a, BoundsAreNumbers DEF JobRow, RowsOK, RunRow, Numbers
      <4>4. ~(run[r].age <= job[j].idle)
        BY <4>1, <4>2, <4>3
      <4>. QED BY <3>4, <3>5, <4>4 DEF Turn
    <3>. QED BY <1>a, <3>6, <3>7 DEF JobRow
  <2>3. ASSUME NEW j \in Jobs PROVE Turn(j)'
    <3>1. Turn(j)
      BY DEF OneTurnInv
    <3>2. \A c \in Beats : j \in beat'[c].of => job'[j].status = "cancelled"
      BY <1>d, <2>1, <2>2, <3>1 DEF Turn
    <3>3. BeingFired(j)' => BeingFired(j)
      BY <1>d DEF BeingFired
    <3>. QED BY <1>b, <1>d, <2>1, <3>1, <3>2, <3>3
             DEF Firing, Turn, BeingRun, InFlight, OnRow, Finishing
  <2>. QED BY <1>c, <2>3 DEF OneTurnInv
<1>4. CASE ~SelectStale(b)
  <2>1. \A j \in Jobs, c \in Beats : j \in beat'[c].of => j \in beat[c].of
    BY <1>a, <1>d, <1>4, OfShrinks
  <2>2. CASE FailStale(b)
    <3>1. \A j \in beat[b].of : job[j].status = "cancelled" \/ j \notin Jobs
      BY DEF OneTurnInv, Turn
    <3>2. Revived(b) = {} \/ Revived(b) \cap Jobs = {}
      BY <3>1 DEF Revived
    <3>3. \A j \in Jobs : job'[j] = job[j]
      BY <2>2, <3>2 DEF FailStale, SweepUpdates
    <3>. QED BY <1>2, <1>c, <2>1, <3>3 DEF OneTurnInv
  <2>3. CASE RearmOrphans(b)
    <3>1. \A j \in Jobs : Orphaned(j) => job[j].status = "active" /\ ~BeingFired(j) /\ ~BeingRun(j)
      <4>1. TAKE j \in Jobs
      <4>2. job[j].idle \in Int /\ Grace \in Int
        BY <1>a, BoundsAreNumbers DEF JobRow, Numbers
      <4>. QED BY <4>2 DEF Orphaned, PromptInv
    <3>2. UNCHANGED run
      BY <2>3 DEF RearmOrphans
    <3>3. ASSUME NEW j \in Jobs, Orphaned(j)
          PROVE  Turn(j)'
      <4>1. Turn(j) /\ ~BeingFired(j) /\ ~BeingRun(j)
        BY <3>1, <3>3 DEF OneTurnInv
      <4>2. ~BeingFired(j)' /\ ~BeingRun(j)' /\ OnRow(j)' = {}
            /\ \A s \in Slots : ~Finishing(s, j)'
        BY <1>b, <1>d, <3>2, <4>1 DEF BeingFired, BeingRun, InFlight, OnRow, Finishing
      <4>3. job'[j].status = "active"
        <5>1. job'[j] = [job[j] EXCEPT !.next = 0, !.idle = 0]
          BY <2>3, <3>3 DEF RearmOrphans
        <5>. QED BY <1>a, <3>1, <3>3, <5>1 DEF JobRow
      <4>4. \A r \in RunIds : ~(run'[r].status = "cancelled" /\ run'[r].job = j)
        BY <3>1, <3>2, <3>3, <4>1 DEF Turn
      <4>5. \A c \in Beats : j \notin beat'[c].of
        BY <2>1, <3>1, <3>3, <4>1 DEF Turn
      <4>. QED BY <4>2, <4>3, <4>4, <4>5 DEF Firing, Turn, BeingFired
    <3>4. \A j \in Jobs : ~Orphaned(j) => job'[j] = job[j]
      BY <2>3 DEF RearmOrphans
    <3>. QED BY <1>2, <1>c, <2>1, <3>3, <3>4 DEF OneTurnInv
  <2>4. CASE UNCHANGED job
    BY <1>2, <1>c, <2>1, <2>4 DEF OneTurnInv
  <2>. QED BY <1>4, <2>2, <2>3, <2>4 DEF BeginSweep, ListScheduled
<1>. QED BY <1>3, <1>4

LEMMA TurnExamine ==
  ASSUME Typed, OneTurnInv, NEW b \in Beats, NEW k \in Jobs, ExamineJob(b, k)
  PROVE  OneTurnInv'
<1>a. job \in [Jobs -> JobRow] /\ BeatsOK /\ BeatStep(b)
  BY DEF Typed, BeatStep
<1>b. UNCHANGED <<run, slot>>
  BY DEF ExamineJob
<1>c. NeverRetries'
  BY <1>b DEF OneTurnInv, NeverRetries
<1>d. \A j \in Jobs, c \in Beats : j \in beat'[c].of => j \in beat[c].of
  <2>1. ~SelectStale(b)
    BY DEF ExamineJob, SelectStale
  <2>. QED BY <1>a, <2>1, OfShrinks, OthersBeat
<1>1. CASE UNCHANGED job /\ beat'[b].pc # "create"
  <2>1. ASSUME NEW j \in Jobs PROVE Turn(j)'
    <3>1. Quiet(j)
      BY <1>a, <1>b, <1>d, <1>1, OthersBeat DEF Quiet, Finishing, BeingRun, InFlight
    <3>. QED BY <3>1, QuietTurn DEF OneTurnInv
  <2>. QED BY <1>c, <2>1 DEF OneTurnInv
<1>2. CASE Claimable(k) /\ Arm(k, None) /\ (beat'[b].pc = "create" => beat'[b].job = k)
  <2>1. ASSUME NEW j \in Jobs, j # k PROVE Turn(j)'
    <3>1. Quiet(j)
      BY <1>a, <1>b, <1>d, <1>2, <2>1, OthersBeat, ArmRows
         DEF Quiet, Finishing, BeingRun, InFlight
    <3>. QED BY <3>1, QuietTurn DEF OneTurnInv
  <2>2. Turn(k)'
    <3>1. Turn(k) /\ job[k].status = "active" /\ job[k].next # None
      BY <1>2 DEF OneTurnInv, Claimable, Due
    <3>2. ~BeingFired(k) /\ ~BeingRun(k)
      BY <3>1 DEF Turn
    <3>3. ~InFlight(k)' /\ ~BeingRun(k)' /\ OnRow(k)' = {}
          /\ \A s \in Slots : ~Finishing(s, k)'
      BY <1>b, <3>2 DEF BeingRun, InFlight, OnRow, Finishing
    <3>4. job'[k].status = "active" /\ job'[k].next = None
      BY <1>a, <1>2, <3>1, ArmRows
    <3>5. \A c \in Beats : beat'[c].pc = "create" /\ beat'[c].job = k => c = b
      BY <1>a, <3>2, OthersBeat DEF BeingFired
    <3>6. \A r \in RunIds : ~(run'[r].status = "cancelled" /\ run'[r].job = k)
      BY <1>b, <3>1 DEF Turn
    <3>7. \A c \in Beats : k \notin beat'[c].of
      BY <1>d, <3>1 DEF Turn
    <3>. QED BY <3>3, <3>4, <3>5, <3>6, <3>7 DEF Firing, Turn
  <2>. QED BY <1>c, <2>1, <2>2 DEF OneTurnInv
<1>3. CASE Proceed(b, beat[b].todo \ {k})
  <2>1. beat'[b].pc # "create"
    BY <1>a, <1>3, ProceedPc
  <2>. QED BY <1>1, <1>2, <2>1 DEF ExamineJob
<1>4. CASE ~Proceed(b, beat[b].todo \ {k})
  <2>1. /\ Claimable(k) /\ Arm(k, None)
        /\ beat' = [beat EXCEPT ![b].pc = "create", ![b].job = k, ![b].todo = @ \ {k}]
    BY <1>4 DEF ExamineJob
  <2>2. beat'[b].job = k
    BY <1>a, <2>1 DEF BeatsOK, BeatState
  <2>. QED BY <1>2, <2>1, <2>2
<1>. QED BY <1>3, <1>4

LEMMA TurnFire ==
  ASSUME Typed, OneTurnInv, NEW b \in Beats, FireJob(b)
  PROVE  OneTurnInv'
<1>a. job \in [Jobs -> JobRow] /\ BeatsOK /\ RowsOK /\ BeatStep(b)
  BY DEF Typed, BeatStep
<1>b. UNCHANGED <<job, slot>>
  BY DEF FireJob
<1>c. NeverRetries'
  BY <1>b DEF OneTurnInv, NeverRetries
<1>d. \A j \in Jobs, c \in Beats : j \in beat'[c].of => j \in beat[c].of
  <2>1. ~SelectStale(b)
    BY DEF FireJob, SelectStale
  <2>. QED BY <1>a, <2>1, OfShrinks, OthersBeat
<1>e. beat'[b].pc # "create" /\ \A c \in Beats \ {b} : beat'[c] = beat[c]
  BY <1>a, OthersBeat, ProceedPc DEF FireJob
<1>1. PICK k \in Jobs : k = beat[b].job
  BY <1>a DEF FireJob, BeatsOK
<1>2. PICK r \in RunIds :
           /\ run[r].status = "none"
           /\ run'[r].status = "ready" /\ run'[r].job = k /\ run'[r].age = 0
           /\ \A q \in RunIds \ {r} : run'[q] = run[q]
  BY <1>a, <1>1, InsertedRow DEF FireJob
<1>3. ASSUME NEW j \in Jobs, j # k PROVE Turn(j)'
  <2>1. Quiet(j)
    BY <1>b, <1>d, <1>e, <1>2, <1>3 DEF Quiet, Finishing, BeingRun, InFlight
  <2>. QED BY <2>1, QuietTurn DEF OneTurnInv
<1>4. Turn(k)'
  <2>1. Turn(k) /\ BeingFired(k)
    BY <1>1 DEF OneTurnInv, FireJob, BeingFired
  <2>2. ~InFlight(k) /\ job[k].status # "absent"
        /\ (job[k].status = "active" => job[k].next = None /\ \A s \in Slots : ~Finishing(s, k))
    BY <2>1 DEF Turn
  <2>3. ~BeingFired(k)'
    BY <1>1, <1>e, <2>1 DEF Firing, BeingFired, Turn, FireJob
  <2>4. \A q \in OnRow(k)' : q = r
    BY <1>2, <2>2 DEF OnRow, InFlight
  <2>5. \A q \in OnRow(k)' : run'[q].age <= job'[k].idle
    <3>1. job[k].idle \in 0 .. Old
      BY <1>a DEF JobRow
    <3>. QED BY <1>2, <1>b, <2>4, <3>1, BoundsAreNumbers DEF Numbers, Old
  <2>6. \A s \in Slots : Finishing(s, k)' => Finishing(s, k)
    BY <1>b DEF Finishing
  <2>7. \A q \in RunIds : run'[q].status = "cancelled" /\ run'[q].job = k =>
                          job'[k].status = "cancelled"
    BY <1>b, <1>2, <2>1 DEF Turn
  <2>8. \A c \in Beats : k \in beat'[c].of => job'[k].status = "cancelled"
    BY <1>b, <1>d, <2>1 DEF Turn
  <2>. QED BY <1>b, <2>2, <2>3, <2>4, <2>5, <2>6, <2>7, <2>8 DEF Firing, Turn, BeingFired
<1>. QED BY <1>c, <1>3, <1>4 DEF OneTurnInv

-----------------------------------------------------------------------------

\* The rows that the steps of slot s leave to a job: none is new.
LEMMA RowsOfSlotStep ==
  ASSUME Typed, NEW s \in Slots, SlotStep(s), ~RetryRun(s)
  PROVE  \A r \in RunIds :
           \/ run'[r] = run[r]
           \/ run'[r].status = "none" /\ Working(s) /\ r = slot[s].run
                /\ run[r].status = "running"
           \/ /\ run[r].status = "running" /\ run'[r].status = "ready"
              /\ run'[r].job = run[r].job /\ run'[r].age = run[r].age
<1>a. RowsOK
  BY DEF Typed
<1>1. CASE RetryTask(s)
  <2>1. \A x \in RunRow : /\ [x EXCEPT !.status = "ready", !.wait = -1].status = "ready"
                          /\ [x EXCEPT !.status = "ready", !.wait = -1].job = x.job
                          /\ [x EXCEPT !.status = "ready", !.wait = -1].age = x.age
    BY DEF RunRow
  <2>. QED BY <1>a, <1>1, <2>1 DEF RetryTask, RowsOK
<1>2. CASE EndRun(s) /\ Working(s)
  BY <1>a, <1>2 DEF EndRun, RowsOK, NoRun
<1>3. CASE UNCHANGED run
  BY <1>3
<1>. QED BY <1>1, <1>2, <1>3
         DEF SlotStep, Succeeds, Fails, Aborts, Unresolved, StopsCancelled, ResetAttempts,
             IncrementAttempts, Reschedule, Pruned, RescheduleOnError

LEMMA OtherSlots ==
  ASSUME SlotsOK, NEW s \in Slots, SlotStep(s)
  PROVE  /\ \A t \in Slots \ {s} : slot'[t] = slot[t]
         /\ slot[s].pc # "idle"
         /\ \/ slot'[s].pc = "idle"
            \/ slot'[s].pc \notin {"idle", "work"} /\ slot'[s].job = slot[s].job
<1>1. slot[s].pc # "idle"
  BY DEF SlotStep, Succeeds, Fails, RetryTask, Aborts, Unresolved, StopsCancelled,
         ResetAttempts, IncrementAttempts, RetryRun, Reschedule, Pruned, RescheduleOnError,
         Working
<1>2. CASE slot' = [slot EXCEPT ![s] = IdleSlot]
  BY <1>1, <1>2 DEF SlotsOK, IdleSlot
<1>3. ASSUME NEW label \in {"reset", "increment", "retry", "rearm", "rearmNow"},
             Continue(s, label)
      PROVE  /\ \A t \in Slots \ {s} : slot'[t] = slot[t]
             /\ slot'[s].pc \notin {"idle", "work"} /\ slot'[s].job = slot[s].job
  BY <1>3 DEF Continue, SlotsOK
<1>. QED BY <1>1, <1>2, <1>3
         DEF SlotStep, Succeeds, Fails, RetryTask, Aborts, Unresolved, StopsCancelled,
             ResetAttempts, IncrementAttempts, RetryRun, Reschedule, Pruned,
             RescheduleOnError

\* The job a slot does not work for notices nothing.
LEMMA TurnOfOthers ==
  ASSUME Typed, OneTurnInv, NEW s \in Slots, SlotStep(s), ~RetryRun(s),
         NEW j \in Jobs, job'[j] = job[j],
         slot'[s].pc = "idle" \/ Finishing(s, j) \/ j # slot[s].job
  PROVE  Turn(j)'
<1>1. UNCHANGED beat
  BY DEF SlotStep, Succeeds, Fails, RetryTask, Aborts, Unresolved, StopsCancelled,
         ResetAttempts, IncrementAttempts, RetryRun, Reschedule, Pruned, RescheduleOnError
<1>2. \A t \in Slots : Finishing(t, j)' => Finishing(t, j)
  BY OtherSlots DEF Finishing, Typed
<1>3. \A t \in Slots : slot'[t].pc # "idle" /\ slot'[t].job = j =>
                       slot[t].pc # "idle" /\ slot[t].job = j
  BY OtherSlots DEF Typed
<1>4. \A r \in RunIds : run'[r].job = j /\ run'[r].status \in {"ready", "running"} =>
        /\ run[r].job = j /\ run[r].status \in {"ready", "running"}
        /\ run'[r].age = run[r].age
  BY RowsOfSlotStep
<1>5. \A r \in RunIds : run'[r].job = j /\ run'[r].status = "cancelled" =>
        run[r].job = j /\ run[r].status = "cancelled"
  BY RowsOfSlotStep
<1>6. BeingRun(j)' => BeingRun(j)
  BY <1>3, <1>4 DEF BeingRun, InFlight
<1>7. Quiet(j)
  BY <1>1, <1>2, <1>4, <1>5, <1>6 DEF Quiet
<1>. QED BY <1>7, QuietTurn DEF OneTurnInv

\* What of a turn stays as it was where no beat does anything.
LEMMA TurnOfBeats ==
  ASSUME NEW j \in Jobs, Turn(j),
         \A b \in Beats : /\ beat'[b].pc = beat[b].pc /\ beat'[b].job = beat[b].job
                         /\ beat'[b].of = beat[b].of,
         job'[j].status = job[j].status
  PROVE  /\ \A b, c \in Beats : Firing(b, j)' /\ Firing(c, j)' => b = c
         /\ \A b \in Beats : j \in beat'[b].of => job'[j].status = "cancelled"
<1>1. /\ \A b, c \in Beats : Firing(b, j) /\ Firing(c, j) => b = c
      /\ \A b \in Beats : j \in beat[b].of => job[j].status = "cancelled"
  BY Zenon DEF Turn
<1>. QED BY <1>1 DEF Firing

\* The run of job k ends and its slot goes on: one turn follows the other.
LEMMA TurnEnds ==
  ASSUME Typed, HolderInv, OneTurnInv, NEW s \in Slots, NEW k \in Jobs, k = slot[s].job,
         SlotStep(s), Working(s), EndRun(s), UNCHANGED job, ~RetryRun(s)
  PROVE  Turn(k)'
<1>a. UNCHANGED beat
  BY DEF SlotStep, Succeeds, Fails, RetryTask, Aborts, Unresolved, StopsCancelled,
         ResetAttempts, IncrementAttempts, RetryRun, Reschedule, Pruned, RescheduleOnError
<1>1. Turn(k)
  BY DEF OneTurnInv
<1>2. \A r \in RunIds : run'[r].job = k /\ run'[r].status \in {"ready", "running"} =>
        /\ run[r].job = k /\ run[r].status \in {"ready", "running"}
        /\ run'[r].age = run[r].age
  BY RowsOfSlotStep
<1>3. \A r \in RunIds : run'[r].job = k /\ run'[r].status = "cancelled" =>
        run[r].job = k /\ run[r].status = "cancelled"
  BY RowsOfSlotStep
<1>4. BeingRun(k)
  BY DEF BeingRun, Working
<1>5. job[k].status # "absent"
  BY <1>1, <1>4 DEF Turn
<1>6. (InFlight(k)' => InFlight(k)) /\ OnRow(k)' \subseteq OnRow(k)
      /\ \A r \in OnRow(k)' : run'[r].age = run[r].age
  BY <1>2 DEF InFlight, OnRow
<1>7. ASSUME job[k].status = "active"
      PROVE  /\ job[k].next = None /\ ~BeingFired(k) /\ ~InFlight(k)'
             /\ \A t \in Slots : Finishing(t, k)' => t = s
  <2>1. run[slot[s].run].status = "running" /\ slot[s].run \in OnRow(k)
    BY <1>1, <1>7, WorkIsInFlight
  <2>2. InFlight(k)
    BY <2>1 DEF OnRow, InFlight
  <2>3. run'[slot[s].run].status = "none"
    BY <2>1 DEF EndRun, Typed, RowsOK, NoRun, OnRow
  <2>4. \A r \in OnRow(k)' : r = slot[s].run
    BY <1>1, <1>6, <2>1 DEF Turn
  <2>5. ~InFlight(k)'
    BY <2>3, <2>4 DEF OnRow, InFlight
  <2>6. \A t \in Slots : ~Finishing(t, k)
    BY <1>1, <1>7, <2>2 DEF Turn
  <2>7. \A t \in Slots : Finishing(t, k)' => t = s
    BY <2>6, OtherSlots DEF Finishing, Typed
  <2>. QED BY <1>1, <1>4, <1>7, <2>2, <2>5, <2>7 DEF Turn
<1>8. (BeingFired(k)' => BeingFired(k))
      /\ \A r, q \in OnRow(k)' : r = q
  BY <1>a, <1>1, <1>6 DEF BeingFired, Turn
<1>10. \A r \in RunIds : run'[r].status = "cancelled" /\ run'[r].job = k =>
                         job'[k].status = "cancelled"
  BY <1>1, <1>3 DEF Turn
<1>11. job'[k] = job[k]
  OBVIOUS
<1>12. /\ BeingFired(k)' => ~InFlight(k)'
       /\ \A b, c \in Beats : Firing(b, k)' /\ Firing(c, k)' => b = c
       /\ \A b \in Beats : k \in beat'[b].of => job'[k].status = "cancelled"
  <2>1. BeingFired(k) => ~InFlight(k)
    BY <1>1 DEF Turn
  <2>. QED BY <1>a, <1>1, <1>6, <1>8, <1>11, <2>1, TurnOfBeats
<1>13. job'[k].status = "active" =>
       /\ job'[k].next # None => ~BeingFired(k)' /\ ~BeingRun(k)'
       /\ \A t \in Slots : Finishing(t, k)' =>
            /\ ~BeingFired(k)' /\ ~InFlight(k)'
            /\ \A u \in Slots : Finishing(u, k)' => t = u
       /\ \A r \in OnRow(k)' : run'[r].age <= job'[k].idle
  BY <1>7, <1>8, <1>11, InFlightHasARow DEF InFlight, OnRow
<1>. QED BY <1>5, <1>8, <1>10, <1>11, <1>12, <1>13 DEF Turn, BeingFired

\* What follows the end of a run writes the row of its job.
LEMMA TurnFollows ==
  ASSUME Typed, HolderInv, OneTurnInv, NEW s \in Slots, NEW k \in Jobs, k = slot[s].job,
         SlotStep(s), ~Working(s), UNCHANGED run,
         job'[k].status = job[k].status,
         job'[k].next # None => job[k].next # None \/ slot'[s].pc = "idle"
  PROVE  Turn(k)'
<1>a. UNCHANGED beat
  BY DEF SlotStep, Succeeds, Fails, RetryTask, Aborts, Unresolved, StopsCancelled,
         ResetAttempts, IncrementAttempts, RetryRun, Reschedule, Pruned, RescheduleOnError
<1>b. /\ \A t \in Slots \ {s} : slot'[t] = slot[t]
      /\ slot[s].pc # "idle"
      /\ \/ slot'[s].pc = "idle"
         \/ slot'[s].pc \notin {"idle", "work"} /\ slot'[s].job = slot[s].job
  BY OtherSlots DEF Typed
<1>1. Turn(k) /\ Finishing(s, k) /\ BeingRun(k)
  BY <1>b DEF OneTurnInv, Finishing, Working, BeingRun
<1>2. job[k].status # "absent"
  BY <1>1 DEF Turn
<1>3. /\ InFlight(k)' <=> InFlight(k)
      /\ BeingFired(k)' <=> BeingFired(k)
      /\ OnRow(k)' = OnRow(k)
      /\ \A t \in Slots : Finishing(t, k)' => Finishing(t, k)
  BY <1>a, <1>b, <1>1 DEF InFlight, BeingFired, OnRow, Finishing
<1>4. ASSUME job[k].status = "active"
      PROVE  /\ ~BeingFired(k) /\ ~InFlight(k) /\ OnRow(k) = {}
             /\ \A t \in Slots : Finishing(t, k) => t = s
             /\ job[k].next = None
             /\ slot'[s].pc = "idle" => ~BeingRun(k)'
  <2>1. ~BeingFired(k) /\ ~InFlight(k) /\ \A t \in Slots : Finishing(t, k) => t = s
    BY <1>1, <1>4 DEF Turn
  <2>2. job[k].next = None
    BY <1>1, <1>4 DEF Turn
  <2>3. \A t \in Slots : ~(Working(t) /\ slot[t].job = k)
    BY <1>1, <1>4, <2>1, WorkIsInFlight DEF OnRow, InFlight
  <2>4. slot'[s].pc = "idle" => ~BeingRun(k)'
    BY <1>b, <1>3, <2>1, <2>3 DEF BeingRun, InFlight, Finishing, Working
  <2>. QED BY <2>1, <2>2, <2>4 DEF OnRow, InFlight
<1>5. job'[k].status = "active" =>
       /\ job'[k].next # None => ~BeingFired(k)' /\ ~BeingRun(k)'
       /\ \A t \in Slots : Finishing(t, k)' =>
            /\ ~BeingFired(k)' /\ ~InFlight(k)'
            /\ \A u \in Slots : Finishing(u, k)' => t = u
       /\ \A r \in OnRow(k)' : run'[r].age <= job'[k].idle
  BY <1>3, <1>4
<1>6. /\ BeingFired(k)' => ~InFlight(k)'
      /\ \A r, q \in OnRow(k)' : r = q
      /\ \A b, c \in Beats : Firing(b, k)' /\ Firing(c, k)' => b = c
      /\ \A b \in Beats : k \in beat'[b].of => job'[k].status = "cancelled"
      /\ \A r \in RunIds : run'[r].status = "cancelled" /\ run'[r].job = k =>
                           job'[k].status = "cancelled"
  <2>1. BeingFired(k)' => ~InFlight(k)'
    BY <1>1, <1>3 DEF Turn
  <2>2. \A r, q \in OnRow(k)' : r = q
    BY <1>1, <1>3 DEF Turn
  <2>3. \A r \in RunIds : run[r].status = "cancelled" /\ run[r].job = k =>
                          job[k].status = "cancelled"
    BY <1>1 DEF Turn
  <2>. QED BY <1>a, <1>1, <2>1, <2>2, <2>3, TurnOfBeats
<1>. QED BY <1>2, <1>5, <1>6 DEF Turn, BeingFired

LEMMA TurnSlot ==
  ASSUME Retries = 0, Typed, HolderInv, OneTurnInv, NEW s \in Slots, SlotStep(s)
  PROVE  OneTurnInv'
<1>a. job \in [Jobs -> JobRow] /\ SlotsOK
  BY DEF Typed
<1>b. slot[s].pc \notin {"increment", "retry"}
  BY DEF OneTurnInv, NeverRetries
<1>c. ~RetryRun(s) /\ ~IncrementAttempts(s)
  BY <1>b DEF RetryRun, IncrementAttempts
<1>d. PICK k \in Jobs : k = slot[s].job
  BY <1>a, OtherSlots DEF SlotsOK
<1>e. slot'[s].pc \notin {"increment", "retry"}
  BY <1>a, <1>c DEF SlotStep, Succeeds, Fails, RetryTask, Aborts, Unresolved, StopsCancelled,
     ResetAttempts, Reschedule, Pruned, RescheduleOnError, Continue, IdleSlot, SlotsOK
<1>f. NeverRetries'
  BY <1>a, <1>e, OtherSlots DEF OneTurnInv, NeverRetries
<1>1. CASE Succeeds(s) \/ Fails(s) \/ (Aborts(s) /\ Working(s))
  <2>1. Working(s) /\ EndRun(s) /\ UNCHANGED job
    BY <1>1 DEF Succeeds, Fails, Aborts
  <2>2. Turn(k)'
    BY <1>c, <1>d, <2>1, TurnEnds
  <2>3. \A j \in Jobs \ {k} : Turn(j)'
    BY <1>c, <1>d, <2>1, TurnOfOthers
  <2>. QED BY <1>f, <2>2, <2>3 DEF OneTurnInv
<1>2. CASE RetryTask(s) \/ Unresolved(s) \/ StopsCancelled(s) \/ Pruned(s)
  <2>1. UNCHANGED job /\ slot'[s].pc = "idle"
    BY <1>a, <1>2 DEF RetryTask, Unresolved, StopsCancelled, Pruned, IdleSlot, SlotsOK
  <2>2. \A j \in Jobs : Turn(j)'
    BY <1>c, <2>1, TurnOfOthers
  <2>. QED BY <1>f, <2>2 DEF OneTurnInv
<1>3. CASE ResetAttempts(s) \/ Reschedule(s) \/ RescheduleOnError(s)
           \/ (Aborts(s) /\ ~Working(s))
  <2>1. ~Working(s) /\ UNCHANGED run
    BY <1>3 DEF ResetAttempts, Reschedule, RescheduleOnError, Aborts, Working
  <2>2. /\ job'[k].status = job[k].status
        /\ job'[k].next # None => job[k].next # None \/ slot'[s].pc = "idle"
        /\ \A j \in Jobs \ {k} : job'[j] = job[j]
    <3>1. CASE ResetAttempts(s)
      BY <1>a, <1>d, <3>1, AttemptRows DEF ResetAttempts
    <3>2. CASE Reschedule(s) \/ RescheduleOnError(s)
      <4>1. slot'[s].pc = "idle"
        BY <1>a, <3>2 DEF Reschedule, RescheduleOnError, IdleSlot, SlotsOK
      <4>. QED BY <1>a, <1>d, <3>2, <4>1, ArmRows DEF Reschedule, RescheduleOnError
    <3>3. CASE Aborts(s)
      BY <3>3 DEF Aborts
    <3>. QED BY <1>3, <3>1, <3>2, <3>3
  <2>3. Turn(k)'
    BY <1>d, <2>1, <2>2, TurnFollows
  <2>4. \A j \in Jobs \ {k} : Turn(j)'
    BY <1>c, <1>d, <2>2, TurnOfOthers
  <2>. QED BY <1>f, <2>3, <2>4 DEF OneTurnInv
<1>. QED BY <1>c, <1>1, <1>2, <1>3 DEF SlotStep

LEMMA TurnClaim ==
  ASSUME Typed, OneTurnInv, NEW s \in Slots, ClaimStep(s)
  PROVE  OneTurnInv'
<1>a. RowsOK /\ SlotsOK
  BY DEF Typed
<1>1. PICK r \in RunIds : ClaimRun(s, r)
  BY DEF ClaimStep
<1>2. UNCHANGED <<job, beat>>
  BY <1>1 DEF ClaimRun
<1>3. \A q \in RunIds : /\ run'[q].job = run[q].job /\ run'[q].age = run[q].age
                        /\ run'[q].status = IF q = r THEN "running" ELSE run[q].status
  BY <1>1, ClaimedRows
<1>4. run[r].status \in {"ready", "running"} /\ slot[s].pc = "idle"
  BY <1>1 DEF ClaimRun
<1>5. /\ \A t \in Slots \ {s} : slot'[t] = slot[t]
      /\ slot'[s].pc = "work" /\ slot'[s].job = run[r].job
  BY <1>a, <1>1 DEF ClaimRun, SlotsOK
<1>6. ASSUME NEW j \in Jobs PROVE Turn(j)'
  <2>1. \A t \in Slots : Finishing(t, j)' => Finishing(t, j)
    BY <1>5 DEF Finishing
  <2>2. BeingRun(j)' => BeingRun(j)
    BY <1>3, <1>4, <1>5 DEF BeingRun, InFlight
  <2>3. Quiet(j)
    BY <1>2, <1>3, <1>4, <2>1, <2>2 DEF Quiet
  <2>. QED BY <2>3, QuietTurn DEF OneTurnInv
<1>7. NeverRetries'
  BY <1>5 DEF OneTurnInv, NeverRetries
<1>. QED BY <1>6, <1>7 DEF OneTurnInv

LEMMA TurnCrash ==
  ASSUME Typed, OneTurnInv, \/ \E b \in Beats : TickRaises(b) \/ BeatCrashes(b)
                            \/ \E s \in Slots : WorkerCrashes(s)
  PROVE  OneTurnInv'
<1>a. RowsOK /\ SlotsOK /\ BeatsOK
  BY DEF Typed
<1>1. UNCHANGED job
  BY DEF TickRaises, BeatCrashes, WorkerCrashes
<1>2. \A b \in Beats : beat'[b] = beat[b] \/ beat'[b] = IdleBeat
  BY <1>a DEF TickRaises, BeatCrashes, WorkerCrashes, BeatsOK
<1>3. \A s \in Slots : slot'[s] = slot[s] \/ slot'[s] = IdleSlot
  BY <1>a DEF TickRaises, BeatCrashes, WorkerCrashes, SlotsOK
<1>4. \A r \in RunIds : /\ run'[r].job = run[r].job /\ run'[r].age = run[r].age
                        /\ run'[r].status = run[r].status
  <2>1. \A x \in RunRow : \A b : /\ [x EXCEPT !.passed = @ \ {b}].job = x.job
                                 /\ [x EXCEPT !.passed = @ \ {b}].age = x.age
                                 /\ [x EXCEPT !.passed = @ \ {b}].status = x.status
    BY DEF RunRow
  <2>2. \A r \in RunIds : run'[r] = run[r] \/ \E b : run'[r] = [run[r] EXCEPT !.passed = @ \ {b}]
    BY DEF TickRaises, BeatCrashes, WorkerCrashes
  <2>3. ASSUME NEW r \in RunIds, NEW b, run'[r] = [run[r] EXCEPT !.passed = @ \ {b}]
        PROVE  /\ run'[r].job = run[r].job /\ run'[r].age = run[r].age
               /\ run'[r].status = run[r].status
    BY <1>a, <2>1, <2>3 DEF RowsOK
  <2>. QED BY <2>2, <2>3
<1>5. IdleBeat.pc = "idle" /\ IdleBeat.of = {} /\ IdleSlot.pc = "idle"
  BY DEF IdleBeat, IdleSlot
<1>6. ASSUME NEW j \in Jobs PROVE Turn(j)'
  <2>1. Quiet(j)
    BY <1>1, <1>2, <1>3, <1>4, <1>5 DEF Quiet, Finishing, BeingRun, InFlight
  <2>. QED BY <2>1, QuietTurn DEF OneTurnInv
<1>7. NeverRetries'
  BY <1>3, <1>5 DEF OneTurnInv, NeverRetries
<1>. QED BY <1>6, <1>7 DEF OneTurnInv

LEMMA TurnClock ==
  ASSUME Typed, OneTurnInv, Clock
  PROVE  OneTurnInv'
<1>a. job \in [Jobs -> JobRow] /\ RowsOK
  BY DEF Typed
<1>1. UNCHANGED slot
  BY DEF Clock
<1>2. \A r \in RunIds : run'[r].age = run[r].age \/ run'[r].age = Older(run[r].age, Old)
  <2>1. \A x \in RunRow : \A age, wait : [x EXCEPT !.age = age, !.wait = wait].age = age
    BY DEF RunRow
  <2>2. \A r \in RunIds :
          run'[r] = run[r] \/ \E wait : run'[r] = [run[r] EXCEPT !.age = Older(run[r].age, Old),
                                                                !.wait = wait]
    BY Zenon DEF Clock
  <2>3. ASSUME NEW r \in RunIds, NEW wait,
               run'[r] = [run[r] EXCEPT !.age = Older(run[r].age, Old), !.wait = wait]
        PROVE  run'[r].age = Older(run[r].age, Old)
    BY <1>a, <2>1, <2>3 DEF RowsOK
  <2>. QED BY <2>2, <2>3
<1>3. ASSUME NEW j \in Jobs PROVE Turn(j)'
  <2>1. Turn(j)
    BY DEF OneTurnInv
  <2>2. job'[j].status = job[j].status /\ (job'[j].next # None => job[j].next # None)
    BY TimeAgesJobs DEF LaterNext
  <2>3. job[j].status = "active" => job'[j].idle = Older(job[j].idle, Old)
    <3>1. \A next, idle : [job[j] EXCEPT !.next = next, !.idle = idle].idle = idle
      BY <1>a DEF JobRow
    <3>2. job[j].status # "absent" =>
            job'[j] = [job[j] EXCEPT !.next = LaterNext(job[j].next),
                                     !.idle = Older(job[j].idle, Old)]
      BY DEF Clock
    <3>. QED BY <3>1, <3>2
  <2>4. /\ BeingFired(j)' <=> BeingFired(j)
        /\ BeingRun(j)' <=> BeingRun(j)
        /\ InFlight(j)' <=> InFlight(j)
        /\ OnRow(j)' = OnRow(j)
        /\ \A s \in Slots : Finishing(s, j)' <=> Finishing(s, j)
    BY <1>1, TimeChangesAges DEF BeingFired, BeingRun, InFlight, OnRow, Finishing
  <2>5. ASSUME job[j].status = "active", NEW r \in OnRow(j)
        PROVE  run'[r].age <= job'[j].idle
    <3>1. run[r].age \in 0 .. Old /\ job[j].idle \in 0 .. Old
      BY <1>a DEF JobRow, RowsOK, RunRow, OnRow
    <3>2. run[r].age <= job[j].idle
      BY <2>1, <2>5 DEF Turn
    <3>3. run'[r].age = run[r].age \/ run'[r].age = Older(run[r].age, Old)
      BY <1>2 DEF OnRow
    <3>. QED BY <2>3, <2>5, <3>1, <3>2, <3>3, BoundsAreNumbers DEF Older, Numbers, Old
  <2>6. job'[j].status = "active" =>
         /\ job'[j].next # None => ~BeingFired(j)' /\ ~BeingRun(j)'
         /\ \A t \in Slots : Finishing(t, j)' =>
              /\ ~BeingFired(j)' /\ ~InFlight(j)'
              /\ \A u \in Slots : Finishing(u, j)' => t = u
         /\ \A r \in OnRow(j)' : run'[r].age <= job'[j].idle
    BY <2>1, <2>2, <2>4, <2>5 DEF Turn
  <2>7. /\ \A b, c \in Beats : Firing(b, j)' /\ Firing(c, j)' => b = c
        /\ \A b \in Beats : j \in beat'[b].of => job'[j].status = "cancelled"
        /\ \A r \in RunIds : run'[r].status = "cancelled" /\ run'[r].job = j =>
                             job'[j].status = "cancelled"
    <3>1. \A r \in RunIds : run[r].status = "cancelled" /\ run[r].job = j =>
                            job[j].status = "cancelled"
      BY <2>1 DEF Turn
    <3>. QED BY <2>1, <2>2, <3>1, TimeChangesAges, TurnOfBeats
  <2>. QED BY <2>1, <2>2, <2>4, <2>6, <2>7 DEF Turn, BeingFired
<1>4. NeverRetries'
  BY <1>1 DEF OneTurnInv, NeverRetries
<1>. QED BY <1>3, <1>4 DEF OneTurnInv

LEMMA TurnStep ==
  ASSUME AllPrompt, Retries = 0, Typed, HolderInv, PromptInv, OneTurnInv, [Next]_vars
  PROVE  OneTurnInv'
<1>1. CASE UNCHANGED vars
  <2>1. ASSUME NEW j \in Jobs PROVE Turn(j)'
    <3>1. Quiet(j)
      BY <1>1 DEF vars, Quiet, Finishing, BeingRun, InFlight
    <3>. QED BY <3>1, QuietTurn DEF OneTurnInv
  <2>. QED BY <1>1, <2>1 DEF OneTurnInv, NeverRetries, vars
<1>. QED BY <1>1, TurnSchedule, TurnEnqueue, TurnCancel, TurnSweep, TurnExamine, TurnFire,
         TurnSlot, TurnClaim, TurnCrash, TurnClock DEF Next, BeatStep

\* A maintained job has at most one run in flight, whatever crashes: where the
\* job is not retried and beats and workers are done with it within the grace
\* period (configurations RetryDoubleFire and ReplicasDoubleFire show that it fails
\* otherwise), the claim of a beat excludes every other way to a run.
THEOREM OneFireAtATime == AllPrompt /\ Retries = 0 => (Spec => []SerialRuns)
<1> SUFFICES ASSUME AllPrompt, Retries = 0 PROVE Spec => []SerialRuns
  OBVIOUS
<1>1. ASSUME Init PROVE OneTurnInv
  <2>1. IdleBeat.pc = "idle" /\ IdleBeat.of = {} /\ IdleSlot.pc = "idle"
        /\ NoRun.status = "none"
    BY DEF IdleBeat, IdleSlot, NoRun
  <2>2. /\ \A b \in Beats : beat[b].pc = "idle" /\ beat[b].of = {}
        /\ \A s \in Slots : slot[s].pc = "idle"
        /\ \A r \in RunIds : run[r].status = "none"
        /\ \A j \in Jobs : job[j].status = "absent"
    BY <1>1, <2>1 DEF Init
  <2>. QED BY <2>2 DEF Firing, OneTurnInv, NeverRetries, Turn, BeingFired, BeingRun, InFlight, OnRow
<1>2. Init => Typed /\ HolderInv /\ PromptInv /\ OneTurnInv
  <2>1. ASSUME Init PROVE PromptInv
    BY <1>1, <2>1 DEF OneTurnInv, Turn, PromptInv, Init
  <2>. QED BY <1>1, <2>1, InitTyped, HolderInit
<1>3. Typed /\ HolderInv /\ PromptInv /\ OneTurnInv /\ [Next]_vars
        => (Typed /\ HolderInv /\ PromptInv /\ OneTurnInv)'
  BY StepTyped, HolderStep, PromptStep, TurnStep
<1>4. OneTurnInv => SerialRuns
  BY DEF OneTurnInv, Turn, SerialRuns
<1>. QED BY <1>2, <1>3, <1>4, PTL DEF Spec
=============================================================================
