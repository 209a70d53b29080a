------------------------------ MODULE MCWorker ------------------------------
(* Values for the constants of module Worker in the configurations.          *)
EXTENDS WorkerProperties, TLC

CONSTANTS j1, j2, w1, w2, s1, s2, s3

\* One place per worker, or two workers of which the first has two places.
OneEach   == (s1 :> w1 @@ s2 :> w2)
TwoAndOne == (s1 :> w1 @@ s2 :> w1 @@ s3 :> w2)

EqualPriority == [j \in Jobs |-> 0]
SecondFirst   == [j \in Jobs |-> IF j = j2 THEN 1 ELSE 0]

\* Task.max_attempts: none of the tasks has its own, the last has one try, or
\* the first has two.
JobsBudget == [p \in Positions |-> 0]
LastOnce   == [p \in Positions |-> IF p = NTasks - 1 THEN 1 ELSE 0]
FirstTwice == [p \in Positions |-> IF p = 0 THEN 2 ELSE 0]

\* The queues the workers poll: any, or that of j1 alone on w2.
AllServe  == Workers \X Jobs
FirstOnW2 == {w1} \X Jobs \cup {<<w2, j1>>}

AllResolve == Workers \X Jobs
NotOnW2    == {w1} \X Jobs

\* MaxFaults: one fault of each of some kinds.
Once(kinds)     == [k \in FaultKinds |-> IF k \in kinds THEN 1 ELSE 0]
NoFault         == Once({})
OneCrash        == Once({"crash"})
OneDbError      == Once({"dbError"})
CrashAndDbError == Once({"crash", "dbError"})
OneStop         == Once({"stop"})
OneBeatError    == Once({"beatError"})
OneLapse        == Once({"lapse"})
OneOvertake     == Once({"overtake"})
Degraded        == Once({"lapse", "stop", "beatError"})

\* At most one of them in a behaviour, and w1 itself stays up.
OneFault ==
  /\ \A k, m \in FaultKinds : faults[k] > 0 /\ faults[m] > 0 => k = m
  /\ mode[w1] = "up"
=============================================================================
