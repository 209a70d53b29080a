---------------------------- MODULE MCRegistration ----------------------------
(* Values for the constants of module Registration in the configurations.    *)
EXTENDS Registration, TLC

CONSTANTS c1, c2, c3, c4, c5, c6, c7, a, b, k1, k2

Asks(op, class, key) == [op |-> op, class |-> class, key |-> key]

\* Two or three calls of a kind: keyed enqueues, keyless and keyed schedules,
\* and one enqueue without a key.
EveryKind ==
  (c1 :> Asks("enqueue", a, k1) @@ c2 :> Asks("enqueue", a, k1)
   @@ c3 :> Asks("schedule", a, None) @@ c4 :> Asks("schedule", a, None)
   @@ c5 :> Asks("schedule", b, k2) @@ c6 :> Asks("schedule", b, k2)
   @@ c7 :> Asks("enqueue", b, None))

\* Three processes register the maintained job at startup.
Keyless == [c \in Calls |-> Asks("schedule", a, None)]
Keyed   == [c \in Calls |-> Asks("schedule", a, k1)]
=============================================================================
