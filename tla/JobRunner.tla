----------------------------- MODULE JobRunner -----------------------------
(***************************************************************************)
(* The job runner (jobrunner/runner.py): a single thread that keeps, from  *)
(* the notifications of the table, a picture of the jobs in its channels,  *)
(* and asks Odoo over HTTP to run those the channels have capacity for.    *)
(*                                                                         *)
(* The channels are reduced here to the root channel: Channels.tla has     *)
(* their tree.  The order among the jobs that are due is left open.        *)
(***************************************************************************)
EXTENDS QueueJobTable

CONSTANTS
  Capacity,    \* capacity of the root channel, at least 1
  MaxInFlight  \* bound: requests for one job that can be in flight together

ASSUME CapacityAssumption == Capacity \in Nat \ {0}

ASSUME MaxInFlightAssumption == MaxInFlight \in Nat \ {0}

VARIABLES
  phase,    \* where the thread is in QueueJobRunner.run
  mem,      \* mem[j]: where the channel keeps j
  memEta,   \* memEta[j]: the eta of its ChannelJob
  requests  \* requests[j]: the GET /queue_job/runjob for j in flight

runnerVars == <<phase, mem, memEta, requests>>

Places == {"none", "queued", "running", "failed"}

Phases == {"down", "listening", "requeue", "notify", "run"}

-----------------------------------------------------------------------------
(* Mutant: a job that is over stays where it is.                           *)
OverKeptMutant(j, s, e) ==
  CASE s = "pending" -> "queued"
    [] s \in Busy    -> "running"
    [] s = "failed"  -> "failed"
    [] OTHER         -> IF memEta[j] = e THEN mem[j] ELSE "none"

(* ChannelManager.notify: the place of a job after a notification.  A job  *)
(* that waits for its dependencies stays where it is, unless its eta has   *)
(* changed, in which case it is taken out.                                 *)
PlaceOnNotify(j, s, e) ==
  CASE s \in {"done", "cancelled"} -> "none"
    [] s = "pending"               -> "queued"
    [] s \in Busy                  -> "running"
    [] s = "failed"                -> "failed"
    [] OTHER                       -> IF memEta[j] = e THEN mem[j] ELSE "none"

(* Mutant: one job too many.                                               *)
OffByOneMutant == Cardinality({j \in Job : mem[j] = "running"}) <= Capacity

HasCapacity == Cardinality({j \in Job : mem[j] = "running"}) < Capacity

(* Mutant: the eta is not looked at.                                       *)
EtaIgnoredMutant(j) == mem[j] = "queued"

(* ChannelQueue.pop returns a job whose eta, if it has one, is past. *)
Due(j) == mem[j] = "queued" /\ memEta[j] # "future"

-----------------------------------------------------------------------------
(* initialize_databases: connect, take the master lock and LISTEN ...      *)
Listen ==
  /\ phase = "down"
  /\ phase' = "listening"
  /\ listening' = TRUE
  /\ UNCHANGED <<mem, memEta, requests, state, retry, eta, aged, lockRow,
                 lockedBy, current, notified>>

(* ... and only then load every job that is not done.                      *)
LoadJobs ==
  /\ phase = "listening"
  /\ phase' = "requeue"
  /\ mem' = [j \in Job |-> IF state[j] \in NotDone
                           THEN PlaceOnNotify(j, state[j], eta[j]) ELSE "none"]
  /\ memEta' = [j \in Job |-> IF mem'[j] = "none" THEN "none" ELSE eta[j]]
  /\ UNCHANGED <<requests, tableVars>>

(* Mutants: without the lock, without the ten seconds, enqueued jobs only. *)
LockIgnoredMutant == {j \in lockRow : j \in aged /\ state[j] \in Busy}

NoDelayMutant == {j \in lockRow : state[j] \in Busy /\ lockedBy[j] = NoWorker}

StartedForgottenMutant ==
  {j \in lockRow : j \in aged /\ state[j] = "enqueued" /\ lockedBy[j] = NoWorker}

(* requeue_dead_jobs: the busy jobs enqueued more than ten seconds ago     *)
(* whose lock row exists and is not locked.                                *)
DeadJobs == {j \in lockRow : j \in aged /\ state[j] \in Busy /\ lockedBy[j] = NoWorker}

RequeueDeadJobs ==
  /\ phase = "requeue"
  /\ phase' = "notify"
  /\ state' = [j \in Job |-> IF j \in DeadJobs
                             THEN IF retry[j] > MaxRetries[j] THEN "failed" ELSE "pending"
                             ELSE state[j]]
  /\ retry' = [j \in Job |-> IF j \in DeadJobs /\ state[j] = "started"
                             THEN Bump(j, retry[j]) ELSE retry[j]]
  /\ KeepAged
  /\ Commit(DeadJobs)
  /\ UNCHANGED <<mem, memEta, requests, eta, lockRow, lockedBy>>

(* Mutant: the other notifications received are dropped.                   *)
OneNotificationMutant(j) ==
  /\ phase = "notify"
  /\ j \in notified
  /\ notified' = {}
  /\ mem' = [mem EXCEPT ![j] = PlaceOnNotify(j, state[j], eta[j])]
  /\ memEta' = [memEta EXCEPT ![j] = IF mem'[j] = "none" THEN "none" ELSE eta[j]]
  /\ UNCHANGED <<phase, requests, state, retry, eta, aged, lockRow, lockedBy,
                 current, listening>>

(* process_notifications: each notification only names a job, whose row is *)
(* read again, so that their order and number do not matter.               *)
ProcessNotification(j) ==
  /\ phase = "notify"
  /\ j \in notified
  /\ notified' = notified \ {j}
  /\ mem' = [mem EXCEPT ![j] = PlaceOnNotify(j, state[j], eta[j])]
  /\ memEta' = [memEta EXCEPT ![j] = IF mem'[j] = "none" THEN "none" ELSE eta[j]]
  /\ UNCHANGED <<phase, requests, state, retry, eta, aged, lockRow, lockedBy,
                 current, listening>>

(* The notifications received are processed; others may be on their way.   *)
NotificationsDone ==
  /\ phase = "notify"
  /\ phase' = "run"
  /\ UNCHANGED <<mem, memEta, requests, tableVars>>

(* Mutant: the request is not sent.                                        *)
NoRequestMutant(j) ==
  /\ phase = "run"
  /\ HasCapacity
  /\ Due(j)
  /\ mem' = [mem EXCEPT ![j] = "running"]
  /\ memEta' = [i \in Job |-> IF Due(i) THEN "none" ELSE memEta[i]]
  /\ state' = [state EXCEPT ![j] = "enqueued"]
  /\ aged' = aged \ {j}
  /\ Commit({j})
  /\ UNCHANGED <<phase, requests, retry, eta, lockRow, lockedBy>>

(* _async_http_get: a thread of its own sends the request.                 *)
SendRequest(j) == requests' = [requests EXCEPT ![j] = IF @ < MaxInFlight THEN @ + 1 ELSE @]

(* run_jobs: Channel.get_jobs_to_run yields a job it has marked running,   *)
(* set_job_enqueued updates its row whatever its state, and the request is *)
(* sent without waiting.  Popping the queue clears every past eta.         *)
RunJobs(j) ==
  /\ phase = "run"
  /\ HasCapacity
  /\ Due(j)
  /\ mem' = [mem EXCEPT ![j] = "running"]
  /\ memEta' = [i \in Job |-> IF Due(i) THEN "none" ELSE memEta[i]]
  /\ state' = [state EXCEPT ![j] = "enqueued"]
  /\ aged' = aged \ {j}
  /\ Commit({j})
  /\ SendRequest(j)
  /\ UNCHANGED <<phase, retry, eta, lockRow, lockedBy>>

(* The channels yield no more; wait_notification, then the next round.     *)
WaitNotification ==
  /\ phase = "run"
  /\ ~ (HasCapacity /\ \E j \in Job : Due(j))
  /\ phase' = "requeue"
  /\ UNCHANGED <<mem, memEta, requests, tableVars>>

-----------------------------------------------------------------------------
(* close_databases: the jobs leave the channels, and with the connection   *)
(* the notifications and the master lock are gone.                         *)
CloseDatabases ==
  /\ listening' = FALSE
  /\ notified' = {}
  /\ mem' = [j \in Job |-> "none"]
  /\ memEta' = [j \in Job |-> "none"]

(* The runner's process stops or its connection fails.                     *)
RunnerFailure ==
  /\ phase # "down"
  /\ phase' = "down"
  /\ CloseDatabases
  /\ UNCHANGED <<requests, state, retry, eta, aged, lockRow, lockedBy, current>>

(* The thread of _async_http_get ends with an error, which is only logged. *)
LoseRequest(j) ==
  /\ requests[j] > 0
  /\ requests' = [requests EXCEPT ![j] = @ - 1]
  /\ UNCHANGED <<phase, mem, memEta, tableVars>>

(* The date eta of a job comes, in its row and in the runner's copy.       *)
EtaComes(j) ==
  /\ eta[j] = "future"
  /\ eta' = [eta EXCEPT ![j] = "past"]
  /\ memEta' = [memEta EXCEPT ![j] = IF @ = "future" THEN "past" ELSE @]
  /\ UNCHANGED <<phase, mem, requests, state, retry, aged, lockRow, lockedBy,
                 current, listening, notified>>

RunnerInit ==
  /\ phase = "down"
  /\ mem = [j \in Job |-> "none"]
  /\ memEta = [j \in Job |-> "none"]
  /\ requests = [j \in Job |-> 0]

RunnerStep ==
  \/ Listen
  \/ LoadJobs
  \/ RequeueDeadJobs
  \/ NotificationsDone
  \/ WaitNotification
  \/ \E j \in Job : ProcessNotification(j) \/ RunJobs(j)

RunnerTypeOK ==
  /\ phase \in Phases
  /\ mem \in [Job -> Places]
  /\ memEta \in [Job -> Etas]
  /\ requests \in [Job -> Nat]
=============================================================================
