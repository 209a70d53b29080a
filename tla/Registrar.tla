------------------------------ MODULE Registrar ------------------------------
(***************************************************************************)
(* What enqueue() and schedule() promise their callers: each call is as if *)
(* it were atomic.  Calls with the same identity, an idempotency key or a  *)
(* job class, are answered with the same job for as long as the job is     *)
(* there, and a call is refused at most where a job of its identity has    *)
(* been deleted.                                                           *)
(***************************************************************************)
EXTENDS Naturals

CONSTANTS
  Calls,        \* the calls of all processes
  Identities,   \* what calls can have in common
  Identity,     \* Identity[c]: that of call c, or None
  Ids,          \* the ids of jobs, 0 for no job
  None

VARIABLES
  owner,        \* the job that an identity stands for
  forgotten,    \* the identities of deleted jobs
  answer,       \* the job each call has been answered with
  refused       \* the calls that have raised

registrarVars == <<owner, forgotten, answer, refused>>

RegistrarInit ==
  /\ owner = [x \in Identities |-> 0]
  /\ forgotten = {}
  /\ answer = [c \in Calls |-> 0]
  /\ refused = {}

Open(c) == answer[c] = 0 /\ c \notin refused

Fresh(i) ==
  /\ \A d \in Calls : answer[d] # i
  /\ \A x \in Identities : owner[x] # i

\* The job is there.
AnswerKnown(c) ==
  /\ Open(c)
  /\ Identity[c] # None
  /\ owner[Identity[c]] # 0
  /\ answer' = [answer EXCEPT ![c] = owner[Identity[c]]]
  /\ UNCHANGED <<owner, forgotten, refused>>

\* It is not, or each call stands for itself.
AnswerNew(c) ==
  /\ Open(c)
  /\ \E i \in Ids :
       /\ Fresh(i)
       /\ answer' = [answer EXCEPT ![c] = i]
       /\ IF Identity[c] = None
          THEN UNCHANGED owner
          ELSE /\ owner[Identity[c]] = 0
               /\ owner' = [owner EXCEPT ![Identity[c]] = i]
  /\ UNCHANGED <<forgotten, refused>>

Refuse(c) ==
  /\ Open(c)
  /\ Identity[c] \in forgotten
  /\ refused' = refused \cup {c}
  /\ UNCHANGED <<owner, forgotten, answer>>

Forget(x) ==
  /\ owner[x] # 0
  /\ owner' = [owner EXCEPT ![x] = 0]
  /\ forgotten' = forgotten \cup {x}
  /\ UNCHANGED <<answer, refused>>

RegistrarNext ==
  \/ \E c \in Calls : AnswerKnown(c) \/ AnswerNew(c) \/ Refuse(c)
  \/ \E x \in Identities : Forget(x)

RegistrarSpec == RegistrarInit /\ [][RegistrarNext]_registrarVars
=============================================================================
