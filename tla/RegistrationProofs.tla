-------------------------- MODULE RegistrationProofs --------------------------
(***************************************************************************)
(* Proofs about concurrent enqueue() and schedule() calls, for any number  *)
(* of calls, classes, keys and deletions: types, one job per key, one row  *)
(* per keyless class, and that the calls implement Registrar.              *)
(***************************************************************************)
EXTENDS Registration, TLAPS

LEMMA RegInitTyped == RegInit => RegTypeOK
BY RegistrationAssumption DEF RegInit, RegTypeOK, NoRow, Row, CallState

LEMMA NewRowTyped ==
  ASSUME NEW c \in Calls
  PROVE  NewRow(c) \in Row
BY RegistrationAssumption DEF NewRow, Row, RequestKind

LEMMA StepRegTyped ==
  ASSUME RegTypeOK, [RegNext]_regVars
  PROVE  RegTypeOK'
<1>. USE DEF RegTypeOK
<1>1. ASSUME NEW c \in Calls, NEW label \in {"insert", "refind", "raised"},
             Proceed(c, label), UNCHANGED rows
      PROVE  RegTypeOK'
  BY <1>1 DEF Proceed, CallState
<1>2. ASSUME NEW c \in Calls, NEW i \in Ids, Returns(c, i),
             UNCHANGED rows \/ rows' = [rows EXCEPT ![i] = NewRow(c)]
      PROVE  RegTypeOK'
  BY <1>2, NewRowTyped DEF Returns, CallState
<1>3. ASSUME NEW c \in Calls,
             Lookup(c) \/ Insert(c) \/ InsertConflicts(c) \/ Refind(c)
      PROVE  RegTypeOK'
  BY <1>1, <1>2, <1>3 DEF Lookup, Insert, InsertConflicts, Refind, Found
<1>4. ASSUME NEW i \in Ids, Delete(i)
      PROVE  RegTypeOK'
  <2>1. [rows[i] EXCEPT !.status = "deleted"] \in Row
    BY DEF Row
  <2>. QED BY <1>4, <2>1 DEF Delete
<1>. QED BY <1>3, <1>4 DEF RegNext, regVars

\* Every reachable state is well typed.
THEOREM RegTypeCorrect == RegSpec => []RegTypeOK
<1>1. RegTypeOK /\ [RegNext]_regVars => RegTypeOK'
  BY StepRegTyped
<1>. QED BY <1>1, RegInitTyped, PTL DEF RegSpec

\* What a step does to the table: nothing, a new row, or a deletion.
LEMMA StepOnRows ==
  ASSUME RegTypeOK, [RegNext]_regVars
  PROVE  \/ UNCHANGED rows
         \/ \E c \in Calls, i \in Ids :
              /\ Doing(c, "insert") /\ ~KeyTaken(c)
              /\ rows[i].status = "absent"
              /\ rows' = [rows EXCEPT ![i] = NewRow(c)]
              /\ Returns(c, i)
         \/ \E i \in Ids : /\ rows' = [rows EXCEPT ![i].status = "deleted"]
                           /\ UNCHANGED call
BY DEF RegNext, regVars, Lookup, Insert, InsertConflicts, Refind, Delete,
       NextJobId

\* What it does to a call: nothing, a label, or an answer that was found.
LEMMA StepOnCall ==
  ASSUME RegTypeOK, [RegNext]_regVars, NEW c \in Calls
  PROVE  \/ call'[c] = call[c]
         \/ call'[c].pc # "returned"
         \/ \E i \in Found(c) : UNCHANGED rows /\ call'[c].result = i
         \/ \E i \in Ids : /\ rows' = [rows EXCEPT ![i] = NewRow(c)]
                           /\ call'[c].result = i
<1>. USE DEF RegTypeOK
<1>1. ASSUME NEW d \in Calls, NEW label \in {"insert", "refind", "raised"},
             Proceed(d, label)
      PROVE  call'[c] = call[c] \/ call'[c].pc # "returned"
  <2>1. call[c] \in CallState
    OBVIOUS
  <2>2. call'[c] = call[c] \/ call'[c] = [call[c] EXCEPT !.pc = label]
    BY <1>1 DEF Proceed
  <2>. QED BY <2>1, <2>2 DEF CallState
<1>2. ASSUME NEW d \in Calls, NEW i, Returns(d, i)
      PROVE  call'[c] = call[c] \/ (d = c /\ call'[c].result = i)
  BY <1>2 DEF Returns
<1>3. ASSUME NEW d \in Calls,
             Lookup(d) \/ Insert(d) \/ InsertConflicts(d) \/ Refind(d)
      PROVE  \/ call'[c] = call[c]
             \/ call'[c].pc # "returned"
             \/ \E i \in Found(c) : UNCHANGED rows /\ call'[c].result = i
             \/ \E i \in Ids : /\ rows' = [rows EXCEPT ![i] = NewRow(c)]
                               /\ call'[c].result = i
  <2>1. CASE \E label \in {"insert", "refind", "raised"} : Proceed(d, label)
    BY <1>1, <2>1
  <2>2. CASE \E i \in Found(d) : Returns(d, i) /\ UNCHANGED rows
    BY <1>2, <2>2
  <2>3. CASE Insert(d)
    BY <1>2, <2>3 DEF Insert
  <2>. QED BY <1>3, <2>1, <2>2, <2>3 DEF Lookup, InsertConflicts, Refind
<1>. QED BY <1>3 DEF RegNext, regVars, Delete

-----------------------------------------------------------------------------
(* Keys.                                                                    *)

KeysUnique ==
  \A i, j \in Ids :
    Present(i) /\ Present(j) /\ rows[i].key = rows[j].key /\ rows[i].key # None
      => i = j

Answered ==
  \A c \in Calls :
    Doing(c, "returned") =>
      /\ call[c].result \in Ids
      /\ rows[call[c].result].status # "absent"
      /\ rows[call[c].result].key = Request[c].key

LEMMA StepKeepsKeys ==
  ASSUME RegTypeOK, KeysUnique, [RegNext]_regVars
  PROVE  KeysUnique'
<1>1. CASE UNCHANGED rows
  BY <1>1 DEF KeysUnique, Present
<1>2. ASSUME NEW c \in Calls, NEW i \in Ids, ~KeyTaken(c),
             rows' = [rows EXCEPT ![i] = NewRow(c)]
      PROVE  KeysUnique'
  <2>1. NewRow(c).key = Request[c].key
    BY DEF NewRow
  <2>2. \A h \in Ids \ {i} : rows'[h] = rows[h]
    BY <1>2
  <2>3. rows'[i] = NewRow(c)
    BY <1>2 DEF RegTypeOK
  <2>. QED BY <1>2, <2>1, <2>2, <2>3 DEF KeysUnique, KeyTaken, Present
<1>3. ASSUME NEW i \in Ids, rows' = [rows EXCEPT ![i].status = "deleted"]
      PROVE  KeysUnique'
  <2>1. \A h \in Ids \ {i} : rows'[h] = rows[h]
    BY <1>3
  <2>2. rows[i] \in Row /\ rows'[i] = [rows[i] EXCEPT !.status = "deleted"]
    BY <1>3 DEF RegTypeOK
  <2>3. rows'[i].status = "deleted"
    BY <2>2 DEF Row
  <2>. QED BY <2>1, <2>3 DEF KeysUnique, Present
<1>. QED BY <1>1, <1>2, <1>3, StepOnRows

LEMMA StepKeepsAnswered ==
  ASSUME RegTypeOK, Answered, [RegNext]_regVars
  PROVE  Answered'
<1>1. ASSUME NEW i \in Ids, rows[i].status # "absent"
      PROVE  rows'[i].status # "absent" /\ rows'[i].key = rows[i].key
  <2>1. rows[i] \in Row
    BY DEF RegTypeOK
  <2>2. \/ rows'[i] = rows[i]
        \/ rows'[i] = [rows[i] EXCEPT !.status = "deleted"]
    BY <1>1, StepOnRows DEF RegTypeOK
  <2>. QED BY <1>1, <2>1, <2>2 DEF Row
<1>. SUFFICES ASSUME NEW c \in Calls, call'[c].pc = "returned"
              PROVE  /\ call'[c].result \in Ids
                     /\ rows'[call'[c].result].status # "absent"
                     /\ rows'[call'[c].result].key = Request[c].key
  BY DEF Answered, Doing
<1>2. CASE call'[c] = call[c]
  BY <1>1, <1>2 DEF Answered, Doing
<1>3. CASE \E i \in Found(c) : UNCHANGED rows /\ call'[c].result = i
  BY <1>3 DEF Found, Present
<1>4. CASE \E i \in Ids : /\ rows' = [rows EXCEPT ![i] = NewRow(c)]
                          /\ call'[c].result = i
  BY <1>4 DEF NewRow, RegTypeOK
<1>. QED BY <1>2, <1>3, <1>4, StepOnCall

\* However many processes call enqueue and schedule with a key, in whatever
\* order their lookups, inserts and conflicts fall, the callers that are
\* answered are answered with one job, for as long as it is not deleted.
THEOREM OneJobPerKey == RegSpec => []SameKeySameJob
<1>1. RegInit => KeysUnique /\ Answered
  BY DEF RegInit, NoRow, KeysUnique, Answered, Present, Doing
<1>2. RegTypeOK /\ KeysUnique /\ Answered /\ [RegNext]_regVars
        => (KeysUnique /\ Answered)'
  BY StepKeepsKeys, StepKeepsAnswered
<1>3. KeysUnique /\ Answered => SameKeySameJob
  BY DEF KeysUnique, Answered, SameKeySameJob
<1>. QED BY <1>1, <1>2, <1>3, RegTypeCorrect, PTL DEF RegSpec

-----------------------------------------------------------------------------
(* Schedules without a key, where they do not overlap.                      *)

\* A schedule() about to insert is the only one, and has found no job.
Alone ==
  \A c \in Calls : Schedules(c) /\ Doing(c, "insert") =>
    /\ Found(c) = {}
    /\ \A d \in Calls : Schedules(d) /\ Doing(d, "insert") => d = c

LEMMA LabelsMove ==
  ASSUME RegTypeOK, NEW c \in Calls, NEW label, Proceed(c, label)
  PROVE  /\ call'[c].pc = label /\ call'[c].result = call[c].result
         /\ \A d \in Calls \ {c} : call'[d] = call[d]
<1>1. call[c] \in CallState
  BY DEF RegTypeOK
<1>2. call' = [call EXCEPT ![c] = [call[c] EXCEPT !.pc = label]]
  BY DEF Proceed
<1>3. /\ [call[c] EXCEPT !.pc = label].pc = label
      /\ [call[c] EXCEPT !.pc = label].result = call[c].result
  BY <1>1 DEF CallState
<1>. QED BY <1>2, <1>3 DEF RegTypeOK

LEMMA AnswersGiven ==
  ASSUME RegTypeOK, NEW c \in Calls, NEW i, Returns(c, i)
  PROVE  /\ call'[c].pc = "returned" /\ call'[c].result = i
         /\ \A d \in Calls \ {c} : call'[d] = call[d]
BY DEF RegTypeOK, Returns

\* A deletion takes a row from what is found, and adds none.
LEMMA RowDeleted ==
  ASSUME RegTypeOK, NEW i \in Ids, Delete(i)
  PROVE  /\ \A h \in Ids \ {i} : rows'[h] = rows[h]
         /\ rows'[i].status = "deleted" /\ rows'[i].key = rows[i].key
         /\ rows'[i].source = rows[i].source /\ rows'[i].class = rows[i].class
         /\ Present(i) /\ UNCHANGED call
<1>1. rows[i] \in Row
  BY DEF RegTypeOK
<1>2. rows' = [rows EXCEPT ![i] = [rows[i] EXCEPT !.status = "deleted"]]
  BY DEF Delete
<1>3. /\ [rows[i] EXCEPT !.status = "deleted"].status = "deleted"
      /\ [rows[i] EXCEPT !.status = "deleted"].key = rows[i].key
      /\ [rows[i] EXCEPT !.status = "deleted"].source = rows[i].source
      /\ [rows[i] EXCEPT !.status = "deleted"].class = rows[i].class
  BY <1>1 DEF Row
<1>. QED BY <1>2, <1>3 DEF RegTypeOK, Delete

\* An insertion: the row is new, the others as they were.
LEMMA RowInserted ==
  ASSUME RegTypeOK, NEW c \in Calls, Insert(c)
  PROVE  \E i \in Ids :
           /\ rows[i].status = "absent" /\ rows'[i] = NewRow(c)
           /\ \A h \in Ids \ {i} : rows'[h] = rows[h]
           /\ Returns(c, i)
BY DEF RegTypeOK, Insert, NextJobId

LEMMA StepKeepsAlone ==
  ASSUME ~Overlap, RegTypeOK, Alone, OneKeylessRow, [RegNext]_regVars
  PROVE  Alone' /\ OneKeylessRow'
<1>1. CASE UNCHANGED regVars
  BY <1>1 DEF regVars, Alone, OneKeylessRow, Doing, Found, Present
<1>2. ASSUME NEW c \in Calls, Lookup(c) \/ InsertConflicts(c) \/ Refind(c)
      PROVE  Alone' /\ OneKeylessRow'
  <2>1. UNCHANGED rows
    BY <1>2 DEF Lookup, InsertConflicts, Refind
  <2>2. OneKeylessRow'
    BY <2>1 DEF OneKeylessRow, Present
  <2>3. \A d \in Calls : Found(d)' = Found(d)
    BY <2>1 DEF Found, Present
  <2>4. \A d \in Calls \ {c} : call'[d] = call[d]
    BY <1>2, LabelsMove, AnswersGiven DEF Lookup, InsertConflicts, Refind
  <2>5. CASE Schedules(c) /\ call'[c].pc = "insert"
    <3>1. Lookup(c) /\ Found(c) = {}
      <4>1. Lookup(c)
        BY <1>2, <2>5, LabelsMove, AnswersGiven DEF InsertConflicts, Refind
      <4>. QED BY <4>1, <2>5, LabelsMove, AnswersGiven DEF Lookup, Enqueues, Schedules
    <3>2. \A d \in Calls : Schedules(d) => ~Doing(d, "insert")
      BY <2>5, <3>1 DEF Lookup, MayBegin
    <3>3. Alone'
      BY <2>3, <2>4, <3>1, <3>2 DEF Alone, Doing
    <3>. QED BY <2>2, <3>3
  <2>6. CASE ~(Schedules(c) /\ call'[c].pc = "insert")
    <3>1. \A d \in Calls : Schedules(d) /\ Doing(d, "insert")' => Schedules(d) /\ Doing(d, "insert")
      BY <2>4, <2>6 DEF Doing
    <3>2. Alone'
      BY <2>3, <3>1 DEF Alone
    <3>. QED BY <2>2, <3>2
  <2>. QED BY <2>5, <2>6
<1>3. ASSUME NEW c \in Calls, Insert(c)
      PROVE  Alone' /\ OneKeylessRow'
  <2>1. PICK i \in Ids : /\ rows[i].status = "absent" /\ rows'[i] = NewRow(c)
                         /\ \A h \in Ids \ {i} : rows'[h] = rows[h]
                         /\ Returns(c, i)
    BY <1>3, RowInserted
  <2>2. Doing(c, "insert")
    BY <1>3 DEF Insert
  <2>3. \A d \in Calls : Doing(d, "insert")' => d # c /\ Doing(d, "insert")
    BY <2>1, AnswersGiven DEF Doing
  <2>4. Alone'
    <3>1. ASSUME NEW d \in Calls, Schedules(d), Doing(d, "insert")'
          PROVE  Found(d)' = {} /\ d # c
      <4>1. Found(d) = {} /\ ~Schedules(c)
        BY <2>2, <2>3, <3>1 DEF Alone
      <4>2. rows'[i].source # "scheduled"
        BY <2>1, <4>1 DEF NewRow
      <4>. QED BY <2>1, <2>3, <3>1, <4>1, <4>2 DEF Found, Present
    <3>. QED BY <2>3, <3>1 DEF Alone
  <2>5. OneKeylessRow'
    <3>1. CASE Schedules(c)
      <4>1. Found(c) = {}
        BY <2>2, <3>1 DEF Alone
      <4>. QED BY <2>1, <3>1, <4>1 DEF OneKeylessRow, Found, Present, NewRow
    <3>2. CASE ~Schedules(c)
      BY <2>1, <3>2 DEF OneKeylessRow, Present, NewRow
    <3>. QED BY <3>1, <3>2
  <2>. QED BY <2>4, <2>5
<1>4. ASSUME NEW i \in Ids, Delete(i)
      PROVE  Alone' /\ OneKeylessRow'
  <2>1. \A h \in Ids : Present(h)' => h # i /\ rows'[h] = rows[h]
    BY <1>4, RowDeleted DEF Present
  <2>2. \A d \in Calls : Found(d)' \subseteq Found(d)
    BY <2>1 DEF Found, Present
  <2>3. UNCHANGED call
    BY <1>4, RowDeleted
  <2>4. Alone'
    BY <2>2, <2>3 DEF Alone, Doing
  <2>5. OneKeylessRow'
    BY <2>1 DEF OneKeylessRow, Present
  <2>. QED BY <2>4, <2>5
<1>. QED BY <1>1, <1>2, <1>3, <1>4 DEF RegNext

\* Where no two schedule() calls overlap, a class that is scheduled without a
\* key has one row: the lookup stands for the unique index that NULL evades.
\* (The configuration ScheduleTwice shows that it takes that.)
THEOREM OneRowPerClass == ~Overlap => (RegSpec => []OneKeylessRow)
<1> SUFFICES ASSUME ~Overlap PROVE RegSpec => []OneKeylessRow
  OBVIOUS
<1>1. RegInit => Alone /\ OneKeylessRow
  BY DEF RegInit, NoRow, Alone, OneKeylessRow, Present, Doing
<1>2. RegTypeOK /\ Alone /\ OneKeylessRow /\ [RegNext]_regVars => (Alone /\ OneKeylessRow)'
  BY StepKeepsAlone
<1>. QED BY <1>1, <1>2, RegTypeCorrect, PTL DEF RegSpec

-----------------------------------------------------------------------------
(* The calls are as if they were atomic.                                    *)

\* A key is used for one class and one operation ("callers should namespace
\* keys by job").
Namespaced ==
  \A c, d \in Calls :
    Request[c].key = Request[d].key /\ Request[c].key # None
      => Request[c].class = Request[d].class /\ Request[c].op = Request[d].op

\* Every row was inserted for a call.
Origins ==
  \A i \in Ids : rows[i].status # "absent" =>
    \E d \in Calls : /\ rows[i].class = Request[d].class
                     /\ rows[i].key = Request[d].key
                     /\ rows[i].source = NewRow(d).source

\* A call has no answer until it returns, and one that lost the race for its
\* key has seen a row of it.
Pending ==
  \A c \in Calls :
    /\ ~Doing(c, "returned") => call[c].result = 0
    /\ Doing(c, "refind") =>
         /\ Enqueues(c) /\ Request[c].key # None
         /\ \E i \in Ids : rows[i].status # "absent" /\ rows[i].key = Request[c].key

\* What holds between the calls and the table.
RegInv ==
  RegTypeOK /\ KeysUnique /\ Answered /\ Alone /\ OneKeylessRow /\ Origins /\ Pending

LEMMA StepKeepsOrigins ==
  ASSUME RegTypeOK, Origins, [RegNext]_regVars
  PROVE  Origins'
<1>1. CASE UNCHANGED rows
  BY <1>1 DEF Origins, NewRow
<1>2. ASSUME NEW c \in Calls, Insert(c)
      PROVE  Origins'
  <2>1. PICK i \in Ids : /\ rows[i].status = "absent" /\ rows'[i] = NewRow(c)
                         /\ \A h \in Ids \ {i} : rows'[h] = rows[h]
    BY <1>2, RowInserted
  <2>2. ASSUME NEW h \in Ids, rows'[h].status # "absent"
        PROVE  \E d \in Calls : /\ rows'[h].class = Request[d].class
                                /\ rows'[h].key = Request[d].key
                                /\ rows'[h].source = NewRow(d).source
    <3>1. CASE h = i
      BY <2>1, <3>1 DEF NewRow
    <3>2. CASE h # i
      BY <2>1, <2>2, <3>2 DEF Origins
    <3>. QED BY <3>1, <3>2
  <2>. QED BY <2>2 DEF Origins, NewRow
<1>3. ASSUME NEW i \in Ids, Delete(i)
      PROVE  Origins'
  <2>1. \A h \in Ids : /\ rows'[h].status # "absent" => rows[h].status # "absent"
                       /\ rows'[h].key = rows[h].key
                       /\ rows'[h].source = rows[h].source
                       /\ rows'[h].class = rows[h].class
    BY <1>3, RowDeleted DEF Present
  <2>. QED BY <2>1 DEF Origins, NewRow
<1>. QED BY <1>1, <1>2, <1>3
     DEF RegNext, regVars, Lookup, InsertConflicts, Refind

\* The rows of a key stay, deleted or not.
LEMMA RowsStay ==
  ASSUME RegTypeOK, [RegNext]_regVars, NEW i \in Ids, rows[i].status # "absent"
  PROVE  rows'[i].status # "absent" /\ rows'[i].key = rows[i].key
<1>1. CASE UNCHANGED rows
  BY <1>1
<1>2. CASE \E c \in Calls : Insert(c)
  BY <1>2, RowInserted
<1>3. CASE \E h \in Ids : Delete(h)
  BY <1>3, RowDeleted
<1>. QED BY <1>1, <1>2, <1>3
     DEF RegNext, regVars, Lookup, InsertConflicts, Refind

LEMMA StepKeepsPending ==
  ASSUME RegTypeOK, Pending, [RegNext]_regVars
  PROVE  Pending'
<1>. DEFINE Seen(c) == \E i \in Ids : rows[i].status # "absent" /\ rows[i].key = Request[c].key
<1>1. \A c \in Calls : Seen(c) => Seen(c)'
  BY RowsStay
<1>2. \A c \in Calls : KeyTaken(c) => Seen(c) /\ Request[c].key # None
  BY DEF KeyTaken, Present
<1>. HIDE DEF Seen
<1>3. ASSUME NEW c \in Calls, call'[c] = call[c]
      PROVE  /\ ~Doing(c, "returned")' => call'[c].result = 0
             /\ Doing(c, "refind")' =>
                  Enqueues(c) /\ Request[c].key # None /\ Seen(c)'
  BY <1>1, <1>3 DEF Pending, Doing, Seen
<1>4. ASSUME NEW c \in Calls,
             Lookup(c) \/ Insert(c) \/ InsertConflicts(c) \/ Refind(c)
      PROVE  /\ ~Doing(c, "returned")' => call'[c].result = 0
             /\ Doing(c, "refind")' =>
                  Enqueues(c) /\ Request[c].key # None /\ Seen(c)'
             /\ \A d \in Calls \ {c} : call'[d] = call[d]
  <2>1. ~Doing(c, "returned")
    BY <1>4 DEF Lookup, Insert, InsertConflicts, Refind, Doing
  <2>2. call[c].result = 0
    BY <2>1 DEF Pending
  <2>3. CASE \E i : Returns(c, i)
    BY <2>3, AnswersGiven DEF Doing
  <2>4. CASE \E label \in {"insert", "raised"} : Proceed(c, label)
    BY <2>2, <2>4, LabelsMove DEF Doing
  <2>5. CASE InsertConflicts(c) /\ Enqueues(c)
    <3>1. Proceed(c, "refind") /\ KeyTaken(c)
      BY <2>5 DEF InsertConflicts
    <3>. QED BY <1>1, <1>2, <2>2, <2>5, <3>1, LabelsMove DEF Doing
  <2>. QED BY <1>4, <2>3, <2>4, <2>5 DEF Lookup, Insert, InsertConflicts, Refind
<1>5. \A c \in Calls :
        /\ ~Doing(c, "returned")' => call'[c].result = 0
        /\ Doing(c, "refind")' =>
             Enqueues(c) /\ Request[c].key # None /\ Seen(c)'
  BY <1>3, <1>4 DEF RegNext, regVars, Delete
<1>. QED BY <1>5 DEF Pending, Seen, Enqueues

LEMMA StepKeepsRegInv ==
  ASSUME ~Overlap, RegInv, [RegNext]_regVars
  PROVE  RegInv'
BY StepRegTyped, StepKeepsKeys, StepKeepsAnswered, StepKeepsAlone,
   StepKeepsOrigins, StepKeepsPending DEF RegInv

\* The state functions that stand for the variables of Registrar.
OneOf(S) == IF S = {} THEN 0 ELSE CHOOSE i \in S : TRUE

Owner == [x \in Keys \cup Classes |-> OneOf(JobsFor(x))]

Forgotten ==
  {RowIdentity(i) : i \in {h \in Ids : rows[h].status = "deleted"}} \ {None}

Answers == [c \in Calls |-> call[c].result]

Refused == {c \in Calls : Doing(c, "raised")}

\* A lookup finds the jobs of the call's identity, all of them and no others.
LEMMA FoundAreItsJobs ==
  ASSUME Namespaced, RegTypeOK, Origins, NEW c \in Calls, Identity[c] # None
  PROVE  /\ Found(c) = JobsFor(Identity[c])
         /\ Identity[c] \in Keys \cup Classes
         /\ Schedules(c) \/ Request[c].key # None
<1>. USE RegistrationAssumption
<1>1. Request[c] \in RequestKind
  OBVIOUS
<1>2. \A i \in Ids : rows[i] \in Row
  BY DEF RegTypeOK
<1>3. CASE Request[c].key # None
  <2>1. Identity[c] = Request[c].key /\ Request[c].key \in Keys
    BY <1>1, <1>3 DEF Identity, IdentityOf, RequestKind
  <2>2. \A i \in Ids : RowIdentity(i) = Request[c].key <=> rows[i].key = Request[c].key
    BY <1>2, <1>3, <2>1 DEF RowIdentity, IdentityOf, Row
  <2>3. ASSUME NEW i \in Ids, Present(i), rows[i].key = Request[c].key, Schedules(c)
        PROVE  rows[i].class = Request[c].class /\ rows[i].source = "scheduled"
    <3>1. PICK d \in Calls : /\ rows[i].class = Request[d].class
                             /\ rows[i].key = Request[d].key
                             /\ rows[i].source = NewRow(d).source
      BY <2>3 DEF Origins, Present
    <3>2. Request[c].class = Request[d].class /\ Request[c].op = Request[d].op
      BY <1>3, <2>3, <3>1 DEF Namespaced
    <3>. QED BY <2>3, <3>1, <3>2 DEF NewRow, Schedules
  <2>. QED BY <1>3, <2>1, <2>2, <2>3 DEF Found, JobsFor
<1>4. CASE Request[c].key = None
  <2>1. Schedules(c) /\ Identity[c] = Request[c].class /\ Request[c].class \in Classes
    BY <1>1, <1>4 DEF Identity, IdentityOf, RequestKind, NewRow
  <2>2. \A i \in Ids : RowIdentity(i) = Request[c].class
          <=> /\ rows[i].key = None /\ rows[i].source = "scheduled"
              /\ rows[i].class = Request[c].class
    BY <1>2, <1>4, <2>1 DEF RowIdentity, IdentityOf, Row
  <2>. QED BY <1>4, <2>1, <2>2 DEF Found, JobsFor
<1>. QED BY <1>3, <1>4

\* An identity has one job at most.
LEMMA OneJobEach ==
  ASSUME RegTypeOK, KeysUnique, OneKeylessRow,
         NEW x \in Keys \cup Classes, NEW i \in JobsFor(x), NEW j \in JobsFor(x)
  PROVE  i = j
<1>. USE RegistrationAssumption
<1>1. /\ i \in Ids /\ Present(i) /\ RowIdentity(i) = x /\ rows[i] \in Row
      /\ j \in Ids /\ Present(j) /\ RowIdentity(j) = x /\ rows[j] \in Row
  BY DEF JobsFor, RegTypeOK
<1>2. CASE x \in Keys
  <2>1. rows[i].key = x /\ rows[j].key = x
    BY <1>1, <1>2 DEF RowIdentity, IdentityOf, Row
  <2>. QED BY <1>1, <1>2, <2>1 DEF KeysUnique
<1>3. CASE x \in Classes
  <2>1. /\ rows[i].key = None /\ rows[i].source = "scheduled" /\ rows[i].class = x
        /\ rows[j].key = None /\ rows[j].source = "scheduled" /\ rows[j].class = x
    BY <1>1, <1>3 DEF RowIdentity, IdentityOf, Row
  <2>. QED BY <1>1, <2>1 DEF OneKeylessRow
<1>. QED BY <1>2, <1>3

LEMMA OwnerKnown ==
  ASSUME RegTypeOK, KeysUnique, OneKeylessRow,
         NEW x \in Keys \cup Classes, NEW i \in JobsFor(x)
  PROVE  Owner[x] = i
<1>1. \A j \in JobsFor(x) : j = i
  BY OneJobEach
<1>. QED BY <1>1 DEF Owner, OneOf

\* What the jobs of identities become, where a row is neither added nor taken.
LEMMA SameRowsSameOwners ==
  ASSUME UNCHANGED rows
  PROVE  UNCHANGED <<Owner, Forgotten>>
<1>1. \A i \in Ids : RowIdentity(i)' = RowIdentity(i)
  BY DEF RowIdentity, IdentityOf
<1>2. \A x : JobsFor(x)' = JobsFor(x)
  BY <1>1 DEF JobsFor, Present
<1>3. Owner' = Owner
  BY <1>2 DEF Owner
<1>4. Forgotten' = Forgotten
  BY <1>1 DEF Forgotten
<1>. QED BY <1>3, <1>4

\* Lookup and Refind that find the job are AnswerKnown.
LEMMA FoundIsKnown ==
  ASSUME Namespaced, RegInv, NEW c \in Calls, NEW i \in Found(c),
         Identity[c] # None, ~Doing(c, "returned"), ~Doing(c, "raised"),
         Returns(c, i), UNCHANGED rows
  PROVE  R!AnswerKnown(c)
<1>. USE DEF RegInv
<1>1. Identity[c] \in Keys \cup Classes /\ i \in JobsFor(Identity[c])
  BY FoundAreItsJobs
<1>2. Owner[Identity[c]] = i /\ i # 0
  BY <1>1, OwnerKnown DEF JobsFor, Ids
<1>3. Answers[c] = 0 /\ c \notin Refused
  BY DEF Pending, Answers, Refused
<1>4. Answers' = [Answers EXCEPT ![c] = Owner[Identity[c]]]
  <2>1. call'[c].result = i /\ \A d \in Calls \ {c} : call'[d] = call[d]
    BY AnswersGiven
  <2>. QED BY <1>2, <2>1 DEF Answers
<1>5. Refused' = Refused
  BY AnswersGiven DEF Refused, Doing
<1>. QED BY <1>2, <1>3, <1>4, <1>5, SameRowsSameOwners
     DEF R!AnswerKnown, R!Open, OneOf, Owner, Forgotten, Answers, Refused

\* A call that goes on to insert, or to look again, is still open.
LEMMA OpenStays ==
  ASSUME RegTypeOK, NEW c \in Calls, ~Doing(c, "raised"), UNCHANGED rows,
         NEW label \in {"insert", "refind"}, Proceed(c, label)
  PROVE  UNCHANGED R!registrarVars
<1>1. UNCHANGED <<Answers, Refused>>
  BY LabelsMove DEF Answers, Refused, Doing
<1>. QED BY <1>1, SameRowsSameOwners
     DEF R!registrarVars, OneOf, Owner, Forgotten, Answers, Refused

LEMMA LookupIsAtomic ==
  ASSUME Namespaced, RegInv, NEW c \in Calls, Lookup(c)
  PROVE  R!AnswerKnown(c) \/ UNCHANGED R!registrarVars
<1>. USE DEF RegInv
<1>1. UNCHANGED rows /\ ~Doing(c, "returned") /\ ~Doing(c, "raised")
  BY DEF Lookup, Doing
<1>2. CASE Proceed(c, "insert")
  BY <1>1, <1>2, OpenStays
<1>3. ASSUME Schedules(c) \/ Request[c].key # None
      PROVE  Identity[c] # None
  BY <1>3, RegistrationAssumption DEF Identity, IdentityOf, NewRow, RequestKind
<1>4. CASE /\ Schedules(c) \/ Request[c].key # None
           /\ \E i \in Found(c) : Found(c) = {i} /\ Returns(c, i)
  BY <1>1, <1>3, <1>4, FoundIsKnown
<1>5. CASE /\ Schedules(c) \/ Request[c].key # None
           /\ \E i, j \in Found(c) : i # j
  BY <1>3, <1>5, FoundAreItsJobs, OneJobEach
<1>. QED BY <1>2, <1>4, <1>5 DEF Lookup

LEMMA InsertIsAtomic ==
  ASSUME Namespaced, RegInv, NEW c \in Calls, Insert(c)
  PROVE  R!AnswerNew(c)
<1>. USE DEF RegInv
<1>1. PICK i \in Ids : /\ rows[i].status = "absent" /\ rows'[i] = NewRow(c)
                       /\ \A h \in Ids \ {i} : rows'[h] = rows[h]
                       /\ Returns(c, i)
  BY RowInserted
<1>2. Doing(c, "insert") /\ ~KeyTaken(c)
  BY DEF Insert
<1>3. Answers[c] = 0 /\ c \notin Refused
  BY <1>2 DEF Pending, Answers, Refused, Doing
<1>4. Answers' = [Answers EXCEPT ![c] = i] /\ Refused' = Refused
  <2>1. /\ call'[c].pc = "returned" /\ call'[c].result = i
        /\ \A d \in Calls \ {c} : call'[d] = call[d]
    BY <1>1, AnswersGiven
  <2>2. Answers' = [Answers EXCEPT ![c] = i]
    BY <2>1 DEF Answers
  <2>3. Refused' = Refused
    BY <1>2, <2>1 DEF Refused, Doing
  <2>. QED BY <2>2, <2>3
<1>5. \A h \in Ids \ {i} : RowIdentity(h)' = RowIdentity(h)
  BY <1>1 DEF RowIdentity, IdentityOf
<1>6. RowIdentity(i)' = Identity[c]
  BY <1>1 DEF RowIdentity, Identity, IdentityOf, NewRow
<1>7. i \in Ids /\ Present(i)' /\ ~Present(i)
  BY <1>1 DEF Present, NewRow
<1>8. \A x : x # Identity[c] => JobsFor(x)' = JobsFor(x)
  BY <1>1, <1>5, <1>6, <1>7 DEF JobsFor, Present
<1>9. Forgotten' = Forgotten
  BY <1>1, <1>5, <1>7 DEF Forgotten, NewRow
<1>10. \A d \in Calls : Answers[d] # i
  BY <1>1 DEF Answers, Answered, Pending, Ids
<1>11. \A x \in Keys \cup Classes : Owner[x] # i
  BY <1>7 DEF Owner, OneOf, JobsFor, Ids
<1>12. CASE Identity[c] = None
  <2>1. Owner' = Owner
    BY <1>8, <1>12, RegistrationAssumption DEF Owner
  <2>. QED BY <1>3, <1>4, <1>9, <1>10, <1>11, <1>12, <2>1
       DEF R!AnswerNew, R!Open, R!Fresh, OneOf, Owner, Forgotten, Answers, Refused
<1>13. CASE Identity[c] # None
  <2>1. /\ Found(c) = JobsFor(Identity[c])
        /\ Identity[c] \in Keys \cup Classes
        /\ Schedules(c) \/ Request[c].key # None
    BY <1>13, FoundAreItsJobs
  <2>2. Found(c) = {}
    BY <1>2, <2>1 DEF Alone, KeyTaken, Found
  <2>3. JobsFor(Identity[c])' = {i}
    BY <1>1, <1>5, <1>6, <1>7, <2>1, <2>2 DEF JobsFor, Present
  <2>4. Owner[Identity[c]] = 0
    BY <2>1, <2>2 DEF Owner, OneOf
  <2>5. Owner' = [Owner EXCEPT ![Identity[c]] = i]
    <3>1. Owner'[Identity[c]] = i
      BY <2>1, <2>3 DEF Owner, OneOf
    <3>2. \A x \in Keys \cup Classes : x # Identity[c] => Owner'[x] = Owner[x]
      BY <1>8 DEF Owner
    <3>. QED BY <2>1, <3>1, <3>2 DEF Owner
  <2>. QED BY <1>3, <1>4, <1>9, <1>10, <1>11, <1>13, <2>4, <2>5
       DEF R!AnswerNew, R!Open, R!Fresh, OneOf, Owner, Forgotten, Answers, Refused
<1>. QED BY <1>12, <1>13

LEMMA ConflictIsAtomic ==
  ASSUME Namespaced, RegInv, NEW c \in Calls, InsertConflicts(c)
  PROVE  UNCHANGED R!registrarVars
<1>. USE DEF RegInv
<1>1. UNCHANGED rows /\ Doing(c, "insert") /\ KeyTaken(c)
  BY DEF InsertConflicts
<1>2. CASE Enqueues(c)
  BY <1>1, <1>2, OpenStays DEF InsertConflicts, Doing
<1>3. CASE ~Enqueues(c)
  <2>1. Schedules(c)
    BY <1>3, RegistrationAssumption DEF Enqueues, Schedules, RequestKind
  <2>2. PICK i \in Ids : Present(i) /\ rows[i].key = Request[c].key /\ Request[c].key # None
    BY <1>1 DEF KeyTaken
  <2>3. i \in JobsFor(Identity[c]) /\ Identity[c] # None
    BY <2>2 DEF JobsFor, RowIdentity, Identity, IdentityOf
  <2>4. i \in Found(c)
    BY <2>3, FoundAreItsJobs
  <2>. QED BY <1>1, <2>1, <2>4 DEF Alone
<1>. QED BY <1>2, <1>3

LEMMA RefindIsAtomic ==
  ASSUME Namespaced, RegInv, NEW c \in Calls, Refind(c)
  PROVE  R!AnswerKnown(c) \/ R!Refuse(c)
<1>. USE DEF RegInv
<1>1. /\ UNCHANGED rows /\ Doing(c, "refind")
      /\ ~Doing(c, "returned") /\ ~Doing(c, "raised")
  BY DEF Refind, Doing
<1>2. PICK i \in Ids : /\ rows[i].status # "absent" /\ rows[i].key = Request[c].key
                       /\ Request[c].key # None
  BY <1>1 DEF Pending
<1>3. Identity[c] = Request[c].key /\ Identity[c] # None
  BY <1>2 DEF Identity, IdentityOf
<1>4. CASE \E j \in Found(c) : Returns(c, j)
  BY <1>1, <1>3, <1>4, FoundIsKnown
<1>5. CASE Found(c) = {} /\ Proceed(c, "raised")
  <2>1. RowIdentity(i) = Identity[c]
    BY <1>2, <1>3 DEF RowIdentity, IdentityOf
  <2>2. ~Present(i)
    BY <1>3, <1>5, <2>1, FoundAreItsJobs DEF JobsFor
  <2>3. rows[i].status = "deleted"
    BY <1>2, <2>2 DEF RegTypeOK, Row, Present
  <2>4. Identity[c] \in Forgotten
    BY <1>3, <2>1, <2>3 DEF Forgotten
  <2>5. Answers[c] = 0 /\ c \notin Refused
    BY <1>1 DEF Pending, Answers, Refused
  <2>6. Answers' = Answers /\ Refused' = Refused \cup {c}
    BY <1>5, LabelsMove DEF Answers, Refused, Doing
  <2>. QED BY <1>1, <2>4, <2>5, <2>6, SameRowsSameOwners
       DEF R!Refuse, R!Open, OneOf, Owner, Forgotten, Answers, Refused
<1>. QED BY <1>4, <1>5 DEF Refind

LEMMA DeleteIsAtomic ==
  ASSUME RegInv, NEW i \in Ids, Delete(i)
  PROVE  \/ \E x \in Keys \cup Classes : R!Forget(x)
         \/ UNCHANGED R!registrarVars
<1>. USE DEF RegInv
<1>1. /\ \A h \in Ids \ {i} : rows'[h] = rows[h]
      /\ rows'[i].status = "deleted" /\ rows'[i].key = rows[i].key
      /\ rows'[i].source = rows[i].source /\ rows'[i].class = rows[i].class
      /\ Present(i) /\ UNCHANGED call
  BY RowDeleted
<1>2. \A h \in Ids : RowIdentity(h)' = RowIdentity(h)
  BY <1>1 DEF RowIdentity, IdentityOf
<1>3. \A x : JobsFor(x)' = JobsFor(x) \ {i}
  BY <1>1, <1>2 DEF JobsFor, Present
<1>4. UNCHANGED <<Answers, Refused>>
  BY <1>1 DEF Answers, Refused, Doing
<1>5. Forgotten' = Forgotten \cup ({RowIdentity(i)} \ {None})
  BY <1>1, <1>2 DEF Forgotten, Present
<1>6. \A x : x # RowIdentity(i) => i \notin JobsFor(x)
  BY DEF JobsFor
<1>7. \A x \in Keys \cup Classes : x # RowIdentity(i) => Owner'[x] = Owner[x]
  BY <1>3, <1>6 DEF Owner
<1>8. CASE RowIdentity(i) = None
  <2>1. Owner' = Owner
    BY <1>7, <1>8, RegistrationAssumption DEF Owner
  <2>2. Forgotten' = Forgotten
    BY <1>5, <1>8
  <2>. QED BY <1>4, <2>1, <2>2
       DEF R!registrarVars, OneOf, Owner, Forgotten, Answers, Refused
<1>9. CASE RowIdentity(i) # None
  <2>. DEFINE x == RowIdentity(i)
  <2>1. x \in Keys \cup Classes
    BY <1>9 DEF RegTypeOK, Row, RowIdentity, IdentityOf
  <2>2. i \in JobsFor(x)
    BY <1>1 DEF JobsFor
  <2>3. Owner[x] = i /\ i # 0
    BY <2>1, <2>2, OwnerKnown DEF Ids
  <2>. QED
    <3>1. PICK y \in Keys \cup Classes : y = RowIdentity(i)
      BY <2>1
    <3>2. Owner[y] # 0
      BY <2>3, <3>1
    <3>3. JobsFor(y)' = {}
      BY <1>3, <2>2, <3>1, OneJobEach
    <3>4. Owner' = [Owner EXCEPT ![y] = 0]
      <4>1. Owner'[y] = 0
        BY <3>3 DEF Owner, OneOf
      <4>. QED BY <1>7, <3>1, <4>1 DEF Owner
    <3>5. Forgotten' = Forgotten \cup {y}
      BY <1>5, <1>9, <3>1
    <3>6. R!Forget(y)
      BY <1>4, <3>2, <3>4, <3>5
         DEF R!Forget, OneOf, Owner, Forgotten, Answers, Refused
    <3>. QED BY <3>6
<1>. QED BY <1>8, <1>9

\* However the lookups, inserts, conflicts, second lookups and deletions of
\* any number of processes fall, each call is as if it were atomic: it is
\* answered with the job of its key or class if there is one and with a new
\* one if there is none, and is refused at most where one has been deleted.
\* It takes that schedule() calls do not overlap and that a key is used for
\* one class and one operation.
THEOREM CallsAreAtomic ==
  ~Overlap /\ Namespaced => (RegSpec => ImplementsRegistrar)
<1> SUFFICES ASSUME ~Overlap, Namespaced PROVE RegSpec => R!RegistrarSpec
  BY DEF ImplementsRegistrar
<1>1. RegInit => RegInv
  BY RegInitTyped
     DEF RegInit, NoRow, RegInv, KeysUnique, Answered, Alone, OneKeylessRow,
         Origins, Pending, Present, Doing
<1>2. RegInv /\ [RegNext]_regVars => RegInv'
  BY StepKeepsRegInv
<1>3. RegInit => R!RegistrarInit
  <2>. SUFFICES ASSUME RegInit PROVE R!RegistrarInit
    OBVIOUS
  <2>1. \A x : JobsFor(x) = {}
    BY DEF RegInit, NoRow, JobsFor, Present
  <2>2. Owner = [x \in Keys \cup Classes |-> 0]
    BY <2>1 DEF Owner, OneOf
  <2>3. Forgotten = {} /\ Refused = {} /\ Answers = [c \in Calls |-> 0]
    BY DEF RegInit, NoRow, Forgotten, Refused, Answers, Doing
  <2>. QED BY <2>2, <2>3
       DEF R!RegistrarInit, OneOf, Owner, Forgotten, Answers, Refused
<1>4. RegInv /\ [RegNext]_regVars => [R!RegistrarNext]_(R!registrarVars)
  <2>. SUFFICES ASSUME RegInv, [RegNext]_regVars
                PROVE  R!RegistrarNext \/ UNCHANGED R!registrarVars
    OBVIOUS
  <2>1. ASSUME NEW c \in Calls,
               Lookup(c) \/ Insert(c) \/ InsertConflicts(c) \/ Refind(c)
        PROVE  R!RegistrarNext \/ UNCHANGED R!registrarVars
    BY <2>1, LookupIsAtomic, InsertIsAtomic, ConflictIsAtomic, RefindIsAtomic
       DEF R!RegistrarNext
  <2>2. ASSUME NEW i \in Ids, Delete(i)
        PROVE  R!RegistrarNext \/ UNCHANGED R!registrarVars
    BY <2>2, DeleteIsAtomic DEF R!RegistrarNext
  <2>3. CASE UNCHANGED regVars
    <3>1. UNCHANGED <<rows, call>>
      BY <2>3 DEF regVars
    <3>2. UNCHANGED <<Answers, Refused>>
      BY <3>1 DEF Answers, Refused, Doing
    <3>. QED BY <3>1, <3>2, SameRowsSameOwners
         DEF R!registrarVars, OneOf, Owner, Forgotten, Answers, Refused
  <2>. QED BY <2>1, <2>2, <2>3 DEF RegNext
<1>. QED BY <1>1, <1>2, <1>3, <1>4, PTL DEF RegSpec, R!RegistrarSpec
=============================================================================
