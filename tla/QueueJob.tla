------------------------------ MODULE QueueJob ------------------------------
(***************************************************************************)
(* The job queue: the tables, the runner, the requests on their way, the   *)
(* workers that perform the jobs, and the users.  The components only      *)
(* meet in the tables and in the requests.                                 *)
(***************************************************************************)
EXTENDS JobRunner, RunJob, QueueJobModel

CONSTANTS
  UserOps,  \* the operations users perform, a subset of UserOperations
  Faults    \* what can fail, a subset of Failures

(* "resolve": set to done a job that has failed, rather than any job.      *)
UserOperations == {"done", "resolve", "cancel", "requeue"}

(* "slow": more than ten seconds pass between set_job_enqueued and         *)
(* Job.lock, the delay requeue_dead_jobs allows for.                       *)
Failures == {"runner", "request", "worker", "slow"}

ASSUME EnvironmentAssumption ==
  UserOps \subseteq UserOperations /\ Faults \subseteq Failures

vars == <<tableVars, runnerVars, workerVars>>

-----------------------------------------------------------------------------
Runner == RunnerStep /\ UNCHANGED workerVars

(* A request reaches a worker, in any order.                               *)
Serve(w, j) ==
  /\ requests[j] > 0
  /\ requests' = [requests EXCEPT ![j] = @ - 1]
  /\ Start(w, j) \/ Refuse(w, j)
  /\ UNCHANGED <<phase, mem, memEta>>

Perform(w) == WorkerStep(w) /\ UNCHANGED runnerVars

(* Time passes.                                                            *)
OnItsWay(j) ==
  \/ requests[j] > 0
  \/ \E w \in Worker : job[w] = j /\ pc[w] \in {"starting", "locking"}

AgeStep(j) ==
  /\ "slow" \in Faults \/ ~ OnItsWay(j)
  /\ Age(j)
  /\ UNCHANGED <<runnerVars, workerVars>>

EtaStep(j) == EtaComes(j) /\ EtaReadComes(j)

User(j) ==
  /\ \/ "done" \in UserOps /\ SetDone(j)
     \/ "resolve" \in UserOps /\ state[j] = "failed" /\ SetDone(j)
     \/ "cancel" \in UserOps /\ Cancel(j)
     \/ "requeue" \in UserOps /\ Requeue(j)
  /\ UNCHANGED <<runnerVars, workerVars>>

Fault ==
  \/ "runner" \in Faults /\ RunnerFailure /\ UNCHANGED workerVars
  \/ \E j \in Job : "request" \in Faults /\ LoseRequest(j) /\ UNCHANGED workerVars
  \/ \E w \in Worker : "worker" \in Faults /\ WorkerCrash(w) /\ UNCHANGED runnerVars

Init == TableInit /\ RunnerInit /\ WorkerInit

Next ==
  \/ Runner
  \/ \E w \in Worker : Perform(w) \/ \E j \in Job : Serve(w, j)
  \/ \E j \in Job : AgeStep(j) \/ EtaStep(j) \/ User(j)
  \/ Fault

Spec == Init /\ [][Next]_vars

(* The runner's loop goes on, and drains its notifications before it       *)
(* leaves process_notifications; a worker that has started a job brings it *)
(* to an end, the lock of a job being granted in turn; a request not lost  *)
(* is served when a worker is free; time passes.  Nothing is assumed of    *)
(* users and of faults.                                                    *)
Fairness ==
  /\ WF_vars(Runner)
  /\ \A j \in Job : SF_vars(ProcessNotification(j) /\ UNCHANGED workerVars)
  /\ \A j \in Job : WF_vars(AgeStep(j)) /\ WF_vars(EtaStep(j))
  /\ \A j \in Job : SF_vars(\E w \in Worker : Serve(w, j))
  /\ \A w \in Worker : WF_vars(Perform(w)) /\ SF_vars(Perform(w) /\ LockGrant(w))

FairSpec == Spec /\ Fairness

-----------------------------------------------------------------------------
(* Every variable has its type.                                            *)
TypeOK == TableTypeOK /\ RunnerTypeOK /\ WorkerTypeOK

(* At any moment at most one worker is inside Job.perform for a job, in    *)
(* spite of duplicated requests, of jobs requeued while they run and of    *)
(* jobs found dead: Job.lock waits for the lock row.                       *)
MutualExclusion ==
  \A v, w \in Worker :
    pc[v] = "running" /\ pc[w] = "running" /\ job[v] = job[w] => v = w

(* The rows in the states enqueued and started never exceed the capacity   *)
(* of the channel, across restarts of the runner and whatever the users    *)
(* do: the runner never forgets a busy job.                                *)
CapacityRespected ==
  Cardinality({j \in Job : state[j] \in Busy}) <= Capacity

(* The place that fits a state other than wait_dependencies.               *)
PlaceOf(s) ==
  CASE s = "pending" -> "queued"
    [] s \in Busy    -> "running"
    [] s = "failed"  -> "failed"
    [] OTHER         -> "none"

(* Once the runner has loaded the jobs, its channels disagree with a row   *)
(* only while a notification for this row is to be processed: LISTEN comes *)
(* before the SELECT, and every notification reads the row again.          *)
RunnerAgrees ==
  phase \in {"requeue", "notify", "run"} =>
    \A j \in Job \ notified :
      state[j] # "wait_dependencies" => mem[j] = PlaceOf(state[j])

(* A worker commits "done", with the effects of the method, only over the  *)
(* row it has started: a job requeued, cancelled, postponed or found dead  *)
(* meanwhile makes the transaction fail.                                   *)
DoneOnlyWhileStarted ==
  [][\A w \in Worker :
       pc[w] = "running" /\ pc'[w] = "depends" => state[job[w]] = "started"]_vars

(* requeue_dead_jobs never touches a job that a worker is performing.      *)
NotDeadWhilePerformed ==
  [][phase = "requeue" /\ phase' = "notify" =>
       \A w \in Worker : pc[w] = "running" => state'[job[w]] = state[job[w]]]_vars

(* A job is performed only when all the jobs it depends on are done.       *)
DependenciesRespected ==
  \A w \in Worker :
    pc[w] = "running" => \A p \in DependsOn[job[w]] : state[p] = "done"

(* A job whose parents are all done does not wait, unless a worker that    *)
(* has just done one of them is about to release it.                       *)
NoForgottenDependent ==
  \A j \in Job : state[j] = "wait_dependencies" /\ ParentsDone(j) =>
    \E w \in Worker : /\ pc[w] \in {"depends", "releasing"}
                      /\ job[w] \in DependsOn[j]
                      /\ pc[w] = "releasing" => j \in dependents[w]

(* The runner enqueues a job only when its eta is not in the future.       *)
EtaRespected ==
  [][\A j \in Job : state[j] # "enqueued" /\ state'[j] = "enqueued"
                       => eta[j] # "future"]_vars

(* Who brings a job back that is done or cancelled: a user with requeue;   *)
(* the runner, while it has yet to process the notification that the job   *)
(* is over, and never once it has; or a worker that had started the job    *)
(* before, and postpones it or finds that it has failed.  Nothing else     *)
(* does: not requeue_dead_jobs, a late request, nor the release of         *)
(* dependents that were over before their parents.                         *)
BroughtBackOnlyLate ==
  [][\A j \in Job :
       state[j] \in {"done", "cancelled"} /\ state'[j] \notin {"done", "cancelled"} =>
         \/ Requeue(j)
         \/ state'[j] = "enqueued" /\ j \in notified
         \/ \E w \in Worker : /\ job[w] = j /\ pc[w] \in {"postponing", "failing"}
                               /\ pc'[w] = "closing"]_vars

(* No more jobs are performed at a time than the channel has capacity for. *)
PerformedWithinCapacity ==
  Cardinality({w \in Worker : pc[w] = "running"}) <= Capacity

(* requeue_dead_jobs does not touch a job that is about to be performed.   *)
NotDeadBeforePerformed ==
  [][phase = "requeue" /\ phase' = "notify" =>
       \A w \in Worker : pc[w] \in {"starting", "locking"} =>
                            state'[job[w]] = state[job[w]]]_vars

(* A job all of whose parents are done does not wait for ever.             *)
DependentsReleased ==
  \A j \in Job : state[j] = "wait_dependencies" /\ ParentsDone(j)
                    ~> ~ (state[j] = "wait_dependencies" /\ ParentsDone(j))

(* A job in the state started leaves it, even if its worker is killed.     *)
StartedIsLeft == \A j \in Job : state[j] = "started" ~> state[j] # "started"

(* A job in the state enqueued leaves it.                                  *)
EnqueuedIsLeft == \A j \in Job : state[j] = "enqueued" ~> state[j] # "enqueued"

-----------------------------------------------------------------------------
(* What the queue promises: a job is taken while its row is enqueued or    *)
(* started, and performed while a worker is inside Job.perform; the work   *)
(* of a worker counts when it has committed set_done.                      *)
Promise == INSTANCE WorkQueue WITH
  Task <- Job, Server <- Worker, Slots <- Capacity,
  taken <- {j \in Job : state[j] \in Busy},
  performed <- {<<job[w], w>> : w \in {v \in Worker : pc[v] = "running"}},
  completed <- {w \in Worker : pc[w] \in {"depends", "releasing"}}

(* The table, the runner, the requests and the workers implement that      *)
(* queue, in spite of restarts, lost requests, killed workers and users:   *)
(* only the runner takes a job, within the capacity; a second worker gets  *)
(* a job only when the first has left it; and what a worker did counts     *)
(* only if the job has stayed taken.                                       *)
KeepsPromise == Promise!Spec
=============================================================================
