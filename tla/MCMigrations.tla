----------------------------- MODULE MCMigrations -----------------------------
(* Values for the constants of module Migrations in the configurations.      *)
EXTENDS Migrations, TLC

CONSTANTS m1, m2, r1, r2, r3

Says(status, schedule) == [status |-> status, schedule |-> schedule]

\* A maintained definition, a run that was cut short and a cancelled one.
ThreeRows ==
  (r1 :> Says("pending", TRUE) @@ r2 :> Says("running", FALSE)
   @@ r3 :> Says("cancelled", FALSE))
=============================================================================
