----------------------------- MODULE RunLifecycle -----------------------------
(***************************************************************************)
(* What the executor promises about a run, without leases, heartbeats or   *)
(* checkpoints: a run waits, is held by at most one execution at a time,   *)
(* and ends once, by its holder or by a cancellation.  An execution may    *)
(* vanish at any moment (a crash) or go on for a while after the run was   *)
(* cancelled; neither revives the run nor changes its outcome.             *)
(***************************************************************************)
EXTENDS Naturals

CONSTANTS
  Runs,      \* the ids a run can have
  Holders    \* the executions there can be at a time

VARIABLES
  state,     \* where each run is in its life
  holders    \* the executions at work on each run

lifeVars == <<state, holders>>

Outcomes == {"succeeded", "failed", "cancelled"}

LifeInit ==
  /\ state = [r \in Runs |-> "absent"]
  /\ holders = [r \in Runs |-> {}]

Without(gone) == [r \in Runs |-> holders[r] \ gone]

\* A client's run, or the whole-run retry with which an execution ends.
Create(r, gone) ==
  /\ state[r] = "absent"
  /\ state' = [state EXCEPT ![r] = "waiting"]
  /\ holders' = Without(gone)

\* A run is taken when it waits or when whoever held it is gone.
Take(r, h) ==
  /\ state[r] \in {"waiting", "held"}
  /\ holders[r] = {}
  /\ \A q \in Runs : h \notin holders[q]
  /\ state' = [state EXCEPT ![r] = "held"]
  /\ holders' = [holders EXCEPT ![r] = {h}]

\* Its holder lets it wait for another attempt.
PutBack(r, h) ==
  /\ state[r] = "held"
  /\ h \in holders[r]
  /\ state' = [state EXCEPT ![r] = "waiting"]
  /\ holders' = Without({h})

\* Its holder ends it, and may stop there or still have work to do.
Finish(r, h, outcome, gone) ==
  /\ state[r] = "held"
  /\ h \in holders[r]
  /\ gone \subseteq {h}
  /\ state' = [state EXCEPT ![r] = outcome]
  /\ holders' = Without(gone)

\* A client cancels every run of a job that has not ended.
Cancel(some) ==
  /\ \A r \in some : state[r] \in {"waiting", "held"}
  /\ state' = [r \in Runs |-> IF r \in some THEN "cancelled" ELSE state[r]]
  /\ UNCHANGED holders

Vanish(gone) ==
  /\ holders' = Without(gone)
  /\ UNCHANGED state

LifeNext ==
  \/ \E gone \in SUBSET Holders :
       Vanish(gone) \/ \E r \in Runs : Create(r, gone)
  \/ \E some \in SUBSET Runs : Cancel(some)
  \/ \E r \in Runs, h \in Holders :
       \/ Take(r, h)
       \/ PutBack(r, h)
       \/ \E outcome \in {"succeeded", "failed"} :
            Finish(r, h, outcome, {}) \/ Finish(r, h, outcome, {h})

LifeSpec == LifeInit /\ [][LifeNext]_lifeVars
=============================================================================
