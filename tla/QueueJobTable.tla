--------------------------- MODULE QueueJobTable ---------------------------
(***************************************************************************)
(* The tables queue_job and queue_job_lock as PostgreSQL keeps them, and   *)
(* the channel of NOTIFY messages the trigger queue_job_notify feeds.      *)
(*                                                                         *)
(* Odoo's cursors run in REPEATABLE READ: a transaction works on the       *)
(* snapshot of its first statement, and an UPDATE of a row that another    *)
(* transaction has changed since fails with a serialization error.  The    *)
(* variable "current" keeps, for each row, the transactions whose snapshot *)
(* still holds its latest version.                                         *)
(***************************************************************************)
EXTENDS Naturals, FiniteSets

CONSTANTS
  Job,         \* the jobs, one row of queue_job each
  DependsOn,   \* DependsOn[j]: the jobs j waits for
  NoJob,       \* no job
  MaxRetries,  \* MaxRetries[j]: column max_retries, 0 for infinite retries
  Worker,      \* the HTTP workers of Odoo, each with a transaction of its own
  NoWorker     \* no worker

ASSUME DependsOnAssumption ==
  /\ DependsOn \in [Job -> SUBSET Job]
  /\ \A j \in Job : j \notin DependsOn[j]
  /\ NoJob \notin Job

ASSUME JobAssumption == IsFiniteSet(Job)

ASSUME MaxRetriesAssumption == MaxRetries \in [Job -> Nat]

ASSUME WorkerAssumption == NoWorker \notin Worker

VARIABLES
  state,     \* state[j]: column state
  retry,     \* retry[j]: column retry, saturating (see Bump)
  eta,       \* eta[j]: column eta, null, in the future or in the past
  aged,      \* the busy jobs enqueued more than ten seconds ago
  lockRow,   \* the jobs that have a row in queue_job_lock
  lockedBy,  \* lockedBy[j]: the transaction that holds j's row of queue_job_lock
  current,   \* current[j]: the transactions whose snapshot of row j is current
  listening, \* whether a runner's connection has executed LISTEN queue_job
  notified   \* the jobs with a notification not yet processed by the runner

tableVars == <<state, retry, eta, aged, lockRow, lockedBy, current, listening, notified>>

-----------------------------------------------------------------------------
States ==
  {"wait_dependencies", "pending", "enqueued", "started", "done", "cancelled", "failed"}

(* The states the runner loads when it starts. *)
NotDone == {"wait_dependencies", "pending", "enqueued", "started", "failed"}

(* A date as the code compares it with the present one. *)
Etas == {"none", "future", "past"}

(* The states in which a job takes a place in its channel. *)
Busy == {"enqueued", "started"}

(* The code compares retry with max_retries by >= and by >, so one value   *)
(* above max_retries stands for all of them.                               *)
Bump(j, n) == IF n > MaxRetries[j] THEN n ELSE n + 1

ParentsDone(j) == \A p \in DependsOn[j] : state[p] = "done"

(* The state set_pending and add_depends give a job. *)
PendingState(parentsDone) == IF parentsDone THEN "pending" ELSE "wait_dependencies"

(* Mutant: one parent in the state s is enough.                            *)
AnyParentMutant(st, j, s) ==
  {c \in Job : /\ j \in DependsOn[c]
               /\ st[c] = "wait_dependencies"
               /\ \E p \in DependsOn[c] : st[p] = s}

(* _get_common_dependent_jobs_query: the children of j that wait and all   *)
(* of whose parents are in state s, in the table st.                       *)
DependentJobs(st, j, s) ==
  {c \in Job : /\ j \in DependsOn[c]
               /\ st[c] = "wait_dependencies"
               /\ \A p \in DependsOn[c] : st[p] = s}

(* Give the rows of js the state s in the table st. *)
Put(st, js, s) == [j \in Job |-> IF j \in js THEN s ELSE st[j]]

(* The commit of a transaction that has updated the rows js: the trigger   *)
(* notifies a listening runner, and every snapshot of these rows is old.   *)
Commit(js) ==
  /\ notified' = IF listening THEN notified \cup js ELSE notified
  /\ current' = [j \in Job |-> IF j \in js THEN {} ELSE current[j]]
  /\ UNCHANGED listening

(* Ten seconds have passed since date_enqueued.                            *)
Age(j) ==
  /\ state[j] \in Busy
  /\ aged' = aged \cup {j}
  /\ UNCHANGED <<state, retry, eta, lockRow, lockedBy, current, listening, notified>>

(* date_enqueued only matters in a busy state. *)
KeepAged == aged' = {j \in aged : state'[j] \in Busy}

TableInit ==
  /\ state = [j \in Job |-> PendingState(DependsOn[j] = {})]
  /\ retry = [j \in Job |-> 0]
  /\ eta = [j \in Job |-> "none"]
  /\ aged = {}
  /\ lockRow = {}
  /\ lockedBy = [j \in Job |-> NoWorker]
  /\ current = [j \in Job |-> {}]
  /\ listening = FALSE
  /\ notified = {}

TableTypeOK ==
  /\ state \in [Job -> States]
  /\ retry \in [Job -> Nat]
  /\ eta \in [Job -> Etas]
  /\ aged \subseteq Job
  /\ lockRow \subseteq Job
  /\ lockedBy \in [Job -> Worker \cup {NoWorker}]
  /\ current \in [Job -> SUBSET Worker]
  /\ listening \in BOOLEAN
  /\ notified \subseteq Job
=============================================================================
