----------------------------- MODULE Registration -----------------------------
(***************************************************************************)
(* enqueue() and schedule() of SQLAlchemyBackend, called by several        *)
(* processes at a time, over the columns of the table jobs that they       *)
(* compare.  Each looks for the job in one transaction and inserts it in   *)
(* another; what stands between two calls is the unique index on           *)
(* idempotency_key, which NULL is exempt from.                             *)
(*                                                                         *)
(* The first run, which enqueue inserts together with the job, and what    *)
(* happens to jobs and runs afterwards are in modules Backend and Beat.    *)
(***************************************************************************)
EXTENDS Naturals, FiniteSets

CONSTANTS
  Calls,        \* the calls of all processes, each made once
  Classes,      \* the job classes
  Keys,         \* the idempotency keys
  Request,      \* what each call asks for
  MaxJobs,      \* bound: the number of rows the jobs table may grow to
  MaxDeleted,   \* bound: the number of jobs that are deleted
  Overlap,      \* several processes may be in schedule() at a time
  None          \* SQL NULL

RequestKind ==
  [op : {"enqueue", "schedule"}, class : Classes, key : Keys \cup {None}]

ASSUME RegistrationAssumption ==
  /\ Request \in [Calls -> RequestKind]
  /\ MaxJobs \in Nat
  /\ MaxDeleted \in Nat
  /\ Overlap \in BOOLEAN
  /\ None \notin Keys \cup Classes
  /\ Keys \cap Classes = {}

VARIABLES rows, call

regVars == <<rows, call>>

Ids == 1 .. MaxJobs

Row ==
  [status : {"absent", "present", "deleted"},
   class  : Classes \cup {None},
   source : {"on_demand", "scheduled", None},
   key    : Keys \cup {None}]

CallState ==
  [pc     : {"idle", "insert", "refind", "returned", "raised"},
   result : Ids \cup {0}]

RegTypeOK == rows \in [Ids -> Row] /\ call \in [Calls -> CallState]

NoRow == [status |-> "absent", class |-> None, source |-> None, key |-> None]

RegInit ==
  /\ rows = [i \in Ids |-> NoRow]
  /\ call = [c \in Calls |-> [pc |-> "idle", result |-> 0]]

Present(i) == rows[i].status = "present"

Doing(c, label) == call[c].pc = label

Enqueues(c)  == Request[c].op = "enqueue"
Schedules(c) == Request[c].op = "schedule"

Returns(c, i) == call' = [call EXCEPT ![c] = [pc |-> "returned", result |-> i]]

Proceed(c, label) == call' = [call EXCEPT ![c].pc = label]

-----------------------------------------------------------------------------

\* Mutant: key = NULL, which is true of no row.
FoundByEquality(c) ==
  {i \in Ids :
     /\ Present(i)
     /\ Request[c].key # None /\ rows[i].key = Request[c].key
     /\ Schedules(c)
          => rows[i].class = Request[c].class /\ rows[i].source = "scheduled"}

\* _find_by_idempotency_key, or the SELECT of schedule with _key_matches.
Found(c) ==
  {i \in Ids :
     /\ Present(i)
     /\ rows[i].key = Request[c].key
     /\ Schedules(c)
          => rows[i].class = Request[c].class /\ rows[i].source = "scheduled"}

\* No two schedule() calls at a time, where they do not overlap.
MayBegin(c) ==
  Schedules(c) /\ ~Overlap
    => \A d \in Calls : Schedules(d) => ~Doing(d, "insert")

\* enqueue without a key does not look; scalar_one_or_none raises if there
\* are two.
Lookup(c) ==
  /\ Doing(c, "idle")
  /\ MayBegin(c)
  /\ \/ /\ Found(c) = {} \/ (Enqueues(c) /\ Request[c].key = None)
        /\ Proceed(c, "insert")
     \/ /\ Schedules(c) \/ Request[c].key # None
        /\ \E i \in Found(c) : Found(c) = {i} /\ Returns(c, i)
     \/ /\ Schedules(c) \/ Request[c].key # None
        /\ \E i, j \in Found(c) : i # j
        /\ Proceed(c, "raised")
  /\ UNCHANGED rows

\* Mutant: there is no unique index.
KeyNeverTaken(c) == FALSE

\* ux_jobs_idempotency_key.
KeyTaken(c) ==
  /\ Request[c].key # None
  /\ \E i \in Ids : Present(i) /\ rows[i].key = Request[c].key

NewRow(c) ==
  [status |-> "present",
   class  |-> Request[c].class,
   source |-> IF Schedules(c) THEN "scheduled" ELSE "on_demand",
   key    |-> Request[c].key]

NextJobId(i) ==
  /\ rows[i].status = "absent"
  /\ \A h \in Ids : h < i => rows[h].status # "absent"

Insert(c) ==
  /\ Doing(c, "insert")
  /\ ~KeyTaken(c)
  /\ \E i \in Ids :
       /\ NextJobId(i)
       /\ rows' = [rows EXCEPT ![i] = NewRow(c)]
       /\ Returns(c, i)

\* Mutant: the IntegrityError of enqueue is not caught.
InsertRaises(c) ==
  /\ Doing(c, "insert")
  /\ KeyTaken(c)
  /\ Proceed(c, "raised")
  /\ UNCHANGED rows

\* IntegrityError: only enqueue catches it.
InsertConflicts(c) ==
  /\ Doing(c, "insert")
  /\ KeyTaken(c)
  /\ Proceed(c, IF Enqueues(c) THEN "refind" ELSE "raised")
  /\ UNCHANGED rows

Refind(c) ==
  /\ Doing(c, "refind")
  /\ \/ \E i \in Found(c) : Returns(c, i)
     \/ Found(c) = {} /\ Proceed(c, "raised")
  /\ UNCHANGED rows

\* Another process deletes the job (the last step of delete_job).
Delete(i) ==
  /\ Present(i)
  /\ Cardinality({h \in Ids : rows[h].status = "deleted"}) < MaxDeleted
  /\ rows' = [rows EXCEPT ![i].status = "deleted"]
  /\ UNCHANGED call

RegNext ==
  \/ \E c \in Calls : Lookup(c) \/ Insert(c) \/ InsertConflicts(c) \/ Refind(c)
  \/ \E i \in Ids : Delete(i)

RegSpec == RegInit /\ [][RegNext]_regVars

-----------------------------------------------------------------------------
(* What holds of them.                                                      *)

\* A call that returned a job returned one of its key: two calls with one key
\* are answered with one job, unless that has been deleted in between.
SameKeySameJob ==
  \A c, d \in Calls :
    /\ Doing(c, "returned") /\ Doing(d, "returned")
    /\ Request[c].key = Request[d].key /\ Request[c].key # None
    /\ Present(call[c].result) /\ Present(call[d].result)
    => call[c].result = call[d].result

\* "With no key, one row per job class is kept."
OneKeylessRow ==
  \A i, j \in Ids :
    /\ Present(i) /\ Present(j)
    /\ rows[i].source = "scheduled" /\ rows[j].source = "scheduled"
    /\ rows[i].key = None /\ rows[j].key = None
    /\ rows[i].class = rows[j].class
    => i = j

\* "Any number of app processes can call them concurrently": schedule() does
\* not raise.
ScheduleNeverRaises == \A c \in Calls : Schedules(c) => ~Doing(c, "raised")

-----------------------------------------------------------------------------
(* The calls are as if they were atomic.                                    *)

IdentityOf(source, class, key) ==
  IF key # None THEN key
  ELSE IF source = "scheduled" THEN class
  ELSE None

Identity ==
  [c \in Calls |-> IdentityOf(NewRow(c).source, Request[c].class, Request[c].key)]

RowIdentity(i) == IdentityOf(rows[i].source, rows[i].class, rows[i].key)

\* The jobs that are there for an identity.
JobsFor(x) == {i \in Ids : Present(i) /\ RowIdentity(i) = x}

R == INSTANCE Registrar WITH
  Identities <- Keys \cup Classes,
  owner      <- [x \in Keys \cup Classes |->
                   IF JobsFor(x) = {} THEN 0 ELSE CHOOSE i \in JobsFor(x) : TRUE],
  forgotten  <- {RowIdentity(i) : i \in {h \in Ids : rows[h].status = "deleted"}}
                  \ {None},
  answer     <- [c \in Calls |-> call[c].result],
  refused    <- {c \in Calls : Doing(c, "raised")}

\* Lookups, inserts, conflicts and second lookups, interleaved, amount to
\* atomic registrations, where a key is used for one class and one operation
\* ("callers should namespace keys by job").
ImplementsRegistrar == R!RegistrarSpec
=============================================================================
