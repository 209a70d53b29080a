----------------------------- MODULE MCOperations -----------------------------
(* The calls of module Operations in the configurations; the values for the  *)
(* constants of module Worker are those of MCWorker.                         *)
EXTENDS MCWorker, Operations

CONSTANTS c1, c2, c3, c4

\* A behaviour has one fault, or a whole-run retry.
FaultOrRetry ==
  /\ Interruptions <= 1
  /\ Interruptions = 1 => runs[2].status = "absent"
=============================================================================
