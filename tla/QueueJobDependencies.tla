------------------------ MODULE QueueJobDependencies ------------------------
(***************************************************************************)
(* The order of the jobs of a graph, for every graph, every set of workers *)
(* and every capacity, with restarts of the runner, lost requests and      *)
(* killed workers, as long as users only set failed jobs to done, requests *)
(* are not slow and the methods meet no error of the database              *)
(* (Unattended).                                                           *)
(*                                                                         *)
(* The core is that a job has one owner at a time, the worker that has     *)
(* started its row, and that nobody else changes this row.                 *)
(***************************************************************************)
EXTENDS QueueJobSafety

(* Users leave the jobs alone but for those that have failed, requests are *)
(* served within ten seconds, and no method has a statement fail.          *)
Unattended ==
  /\ UserOps \subseteq {"resolve"}
  /\ "slow" \notin Faults
  /\ "conflict" \notin Outcomes /\ "abort" \notin Outcomes

(* w has started the row of its job and has not given it back.             *)
Owner(w) == pc[w] \in {"starting", "locking", "running", "postponing", "failing"}

(* A job on its way to a worker is not old enough to be found dead.        *)
WayInv == \A j \in Job : OnItsWay(j) => j \notin aged

(* Past Job.lock, its lock row is locked until the row is written.         *)
HeldInv ==
  \A w \in Worker : pc[w] \in {"running", "postponing", "failing"} => lockedBy[job[w]] = w

(* The row of a job that has an owner is started, it has one owner, and    *)
(* its parents were done when it started.                                  *)
OwnerInv ==
  \A w \in Worker : Owner(w) =>
    /\ state[job[w]] = "started"
    /\ parentsDone[w]
    /\ \A v \in Worker : Owner(v) /\ job[v] = job[w] => v = w

(* Nobody has written the row since Job.lock has read it.                  *)
FreshInv == \A w \in Worker : pc[w] \in {"locking", "running"} => w \in current[job[w]]

(* A job queued in the channels is pending.                                *)
QueuedInv == \A j \in Job : mem[j] = "queued" => state[j] = "pending"

(* A row enqueue_waiting is about to write is that of a child of its job,  *)
(* has all its parents done, and waits as long as nobody has written it.   *)
Releasing(w, c) ==
  /\ job[w] \in DependsOn[c] /\ ParentsDone(c)
  /\ w \in current[c] <=> state[c] = "wait_dependencies"

ReleaseInv ==
  \A w \in Worker : pc[w] = "releasing" => \A c \in dependents[w] : Releasing(w, c)

(* A job that does not wait has all its parents done.                      *)
ParentsInv == \A j \in Job : state[j] # "wait_dependencies" => ParentsDone(j)

GraphInv ==
  /\ WayInv /\ HeldInv /\ OwnerInv /\ FreshInv
  /\ QueuedInv /\ ReleaseInv /\ ParentsInv

-----------------------------------------------------------------------------
(* What a step may do to a row.                                            *)
ChangeRules(j) ==
  state'[j] # state[j] =>
    /\ state[j] \notin {"done", "cancelled"} /\ state'[j] # "wait_dependencies"
    /\ state[j] = "wait_dependencies" => state'[j] = "pending" /\ ParentsDone(j)'
    /\ state[j] = "pending" => state'[j] = "enqueued"
    /\ state'[j] = "enqueued" => state[j] = "pending" /\ Due(j) /\ mem'[j] = "running"
    /\ state[j] = "started" => \A w \in Worker : job[w] = j /\ Owner(w) => ~ Owner(w)'

(* A row that does not change is still current in the snapshots that go on. *)
KeptRules(j) ==
  state'[j] = state[j] => \A w \in current[j] : w \in current'[j] \/ pc'[w] = "idle"

RowRules == \A j \in Job : ChangeRules(j) /\ KeptRules(j)

(* A dead job has no owner: it would be on its way, or its lock row locked. *)
LEMMA DeadHaveNoOwner ==
  ASSUME TypeOK, WayInv, HeldInv, NEW w \in Worker, Owner(w)
  PROVE  job[w] \in Job /\ job[w] \notin DeadJobs
<1> USE WorkerAssumption DEF Owner
<1>1. job[w] \in Job
  BY DEF TypeOK, WorkerTypeOK
<1>2. CASE pc[w] \in {"starting", "locking"}
  BY <1>1, <1>2 DEF WayInv, OnItsWay, DeadJobs
<1>3. CASE pc[w] \in {"running", "postponing", "failing"}
  BY <1>1, <1>3 DEF HeldInv, DeadJobs
<1> QED
  BY <1>2, <1>3, <1>1

(* The runner enqueues pending jobs only, and finds dead only jobs without *)
(* an owner.                                                               *)
LEMMA RunnerRules ==
  ASSUME TypeOK, GraphInv, Runner
  PROVE  RowRules
<1> USE DEF TypeOK, TableTypeOK, RunnerTypeOK, RowRules, ChangeRules, KeptRules
<1>1. CASE Listen \/ LoadJobs \/ NotificationsDone \/ WaitNotification
  BY <1>1 DEF Listen, LoadJobs, NotificationsDone, WaitNotification, tableVars
<1>2. CASE RequeueDeadJobs
  <2>1. \A w \in Worker : Owner(w) => job[w] \notin DeadJobs
    BY DeadHaveNoOwner DEF GraphInv
  <2>2. \A j \in DeadJobs : state[j] \in Busy /\ state'[j] \in {"failed", "pending"}
    BY <1>2 DEF DeadJobs, RequeueDeadJobs
  <2>3. \A j \in Job \ DeadJobs : state'[j] = state[j] /\ current'[j] = current[j]
    BY <1>2 DEF RequeueDeadJobs, Commit
  <2> QED
    BY <2>1, <2>2, <2>3 DEF Busy
<1>3. ASSUME NEW j \in Job, ProcessNotification(j)
      PROVE  RowRules
  BY <1>3 DEF ProcessNotification
<1>4. ASSUME NEW j \in Job, RunJobs(j)
      PROVE  RowRules
  <2>1. state[j] = "pending" /\ Due(j)
    BY <1>4 DEF RunJobs, SendRequest, Due, GraphInv, QueuedInv
  <2>2. state'[j] = "enqueued" /\ mem'[j] = "running"
    BY <1>4 DEF RunJobs, SendRequest
  <2>3. \A i \in Job \ {j} : state'[i] = state[i] /\ current'[i] = current[i]
    BY <1>4 DEF RunJobs, SendRequest, Commit
  <2> QED
    BY <2>1, <2>2, <2>3
<1> QED
  BY <1>1, <1>2, <1>3, <1>4 DEF Runner, RunnerStep

(* A worker writes the row it owns, or rows that wait with all parents done. *)
LEMMA WorkerRules ==
  ASSUME Unattended, TypeOK, GraphInv, NEW v \in Worker, Perform(v)
  PROVE  RowRules
<1> USE DEF TypeOK, TableTypeOK, WorkerTypeOK, RowRules, ChangeRules, KeptRules
<1>1. ASSUME Owner(v), ~ Owner(v)', state'[job[v]] \in {"done", "pending", "failed"},
             \A i \in Job \ {job[v]} : state'[i] = state[i] /\ current'[i] = current[i]
      PROVE  RowRules
  <2>1. job[v] \in Job /\ state[job[v]] = "started"
    BY <1>1 DEF GraphInv, OwnerInv, Owner
  <2>2. \A w \in Worker : job[w] = job[v] /\ Owner(w) => w = v
    BY <1>1 DEF GraphInv, OwnerInv
  <2> QED
    BY <1>1, <2>1, <2>2
<1>2. CASE LockRead(v) \/ LockGrant(v)
  BY <1>2 DEF LockRead, LockGrant, Goto
<1>3. CASE PerformDone(v)
  <2>1. state'[job[v]] = "done" /\ Owner(v) /\ ~ Owner(v)'
    BY <1>3 DEF PerformDone, GotoTried, Owner
  <2>2. \A i \in Job \ {job[v]} : state'[i] = state[i] /\ current'[i] = current[i]
    BY <1>3 DEF PerformDone, Commit
  <2> QED
    BY <1>1, <2>1, <2>2
<1>4. CASE Postpone(v)
  <2>1. Owner(v) /\ ~ Owner(v)'
    BY <1>4 DEF Postpone, Goto, Owner
  <2>2. state'[job[v]] = "pending"
    BY <1>4, <2>1 DEF Postpone, PendingState, GraphInv, OwnerInv
  <2>3. \A i \in Job \ {job[v]} : state'[i] = state[i] /\ current'[i] = current[i]
    BY <1>4 DEF Postpone, Commit
  <2> QED
    BY <1>1, <2>1, <2>2, <2>3
<1>5. CASE StoreFailed(v)
  <2>1. state'[job[v]] = "failed" /\ Owner(v) /\ ~ Owner(v)'
    BY <1>5 DEF StoreFailed, Goto, Owner
  <2>2. \A i \in Job \ {job[v]} : state'[i] = state[i] /\ current'[i] = current[i]
    BY <1>5 DEF StoreFailed, Commit
  <2> QED
    BY <1>1, <2>1, <2>2
<1>6. CASE ReleaseDependents(v)
  <2>1. \A c \in dependents[v] : state[c] = "wait_dependencies" /\ ParentsDone(c)
    BY <1>6 DEF ReleaseDependents, GraphInv, ReleaseInv, Releasing
  <2>2. \A i \in Job : state'[i] = IF i \in dependents[v] THEN "pending" ELSE state[i]
    BY <1>6 DEF ReleaseDependents, Put
  <2>3. \A i \in Job \ dependents[v] : current'[i] = current[i]
    BY <1>6 DEF ReleaseDependents, Commit
  <2>4. \A c \in dependents[v] : ParentsDone(c)'
    BY <2>1, <2>2, DependsOnAssumption DEF ParentsDone
  <2> QED
    BY <2>1, <2>2, <2>3, <2>4
<1>7. CASE ReadDependents(v) \/ DependentsConflict(v) \/ Rollback(v) \/ NothingToDoConflict(v)
  BY <1>7 DEF ReadDependents, DependentsConflict, Rollback, NothingToDoConflict, EndRequest,
              Abort, DropSnapshot
<1>8. CASE PerformRetry(v) \/ PerformIgnoreRetry(v) \/ PerformError(v)
  BY <1>8 DEF PerformRetry, PerformIgnoreRetry, PerformError, tableVars
<1>9. ~ StoreConflict(v) /\ ~ PerformConflict(v) /\ ~ PerformAbort(v)
  BY DEF Unattended, GraphInv, FreshInv, StoreConflict, PerformConflict, PerformAbort
<1> QED
  BY <1>2, <1>3, <1>4, <1>5, <1>6, <1>7, <1>8, <1>9 DEF Perform, WorkerStep

(* A failed job that a user sets to done releases what waited for it.      *)
LEMMA UserRules ==
  ASSUME Unattended, TypeOK, GraphInv, NEW j \in Job, User(j)
  PROVE  RowRules
<1> USE DEF TypeOK, TableTypeOK
<1>1. state[j] = "failed" /\ SetDone(j)
  BY DEF Unattended, User
<1> DEFINE Done  == Put(state, {j}, "done")
           Ready == DependentJobs(Done, j, "done")
<1>2. \A i \in Job : Done[i] = IF i = j THEN "done" ELSE state[i]
  BY DEF Put
<1>3. \A c \in Ready : /\ c # j /\ state[c] = "wait_dependencies"
                      /\ \A p \in DependsOn[c] : Done[p] = "done"
  BY <1>2 DEF DependentJobs
<1>4. \A i \in Job : state'[i] = IF i \in Ready THEN "pending" ELSE Done[i]
  BY <1>1 DEF SetDone, Put
<1>5. \A i \in Job \ ({j} \cup Ready) : current'[i] = current[i]
  BY <1>1 DEF SetDone, Commit
<1>6. \A c \in Ready : ParentsDone(c)'
  <2> SUFFICES ASSUME NEW c \in Ready, NEW p \in DependsOn[c]
               PROVE  state'[p] = "done"
    BY DEF ParentsDone
  <2>1. p \in Job /\ Done[p] = "done"
    BY <1>3, DependsOnAssumption DEF DependentJobs
  <2>2. p \notin Ready
    BY <2>1 DEF DependentJobs
  <2> QED
    BY <1>4, <2>1, <2>2
<1> HIDE DEF Done, Ready
<1> QED
  BY <1>1, <1>2, <1>3, <1>4, <1>5, <1>6 DEF RowRules, ChangeRules, KeptRules

LEMMA RulesStep ==
  ASSUME Unattended, TypeOK, GraphInv, [Next]_vars
  PROVE  RowRules
<1>1. Runner => RowRules
  BY RunnerRules
<1>2. \A w \in Worker : Perform(w) => RowRules
  BY WorkerRules
<1>3. \A w \in Worker, j \in Job : Serve(w, j) => RowRules
  BY DEF Serve, Start, Load, AddLockRecord, Refuse, Commit, tableVars, RowRules, ChangeRules,
         KeptRules, TypeOK, TableTypeOK
<1>4. \A j \in Job : User(j) => RowRules
  BY UserRules
<1>5. \A j \in Job : AgeStep(j) \/ EtaStep(j) => RowRules
  BY DEF AgeStep, Age, EtaStep, EtaComes, RowRules, ChangeRules, KeptRules
<1>6. \A w \in Worker : WorkerCrash(w) => RowRules
  BY DEF WorkerCrash, EndRequest, Abort, DropSnapshot, RowRules, ChangeRules, KeptRules,
         TypeOK, TableTypeOK, WorkerTypeOK
<1>7. RunnerFailure \/ (\E j \in Job : LoseRequest(j)) \/ UNCHANGED vars => RowRules
  BY DEF RunnerFailure, CloseDatabases, LoseRequest, vars, tableVars, RowRules, ChangeRules,
         KeptRules
<1> QED
  BY <1>1, <1>2, <1>3, <1>4, <1>5, <1>6, <1>7, NextCases

-----------------------------------------------------------------------------
(* Ten seconds pass only for jobs that are not on their way, and a job that *)
(* is enqueued again has its ten seconds again.                            *)
LEMMA WayInvStep ==
  ASSUME "slow" \notin Faults, TypeOK, WayInv, [Next]_vars
  PROVE  WayInv'
<1> USE DEF TypeOK, TableTypeOK, WayInv
<1>1. ASSUME aged' \subseteq aged, \A j \in Job : OnItsWay(j)' => OnItsWay(j) \/ j \notin aged'
      PROVE  WayInv'
  BY <1>1
<1>2. ASSUME requests' = requests,
             \A w \in Worker : pc'[w] \in {"starting", "locking"} =>
               pc[w] \in {"starting", "locking"} /\ job'[w] = job[w]
      PROVE  \A j \in Job : OnItsWay(j)' => OnItsWay(j)
  BY <1>2 DEF OnItsWay
<1>3. ASSUME Runner
      PROVE  WayInv'
  <2>1. aged' \subseteq aged
    BY <1>3 DEF Runner, RunnerStep, Listen, LoadJobs, RequeueDeadJobs, NotificationsDone,
           WaitNotification, ProcessNotification, RunJobs, KeepAged, tableVars
  <2>2. ASSUME NEW j \in Job, RunJobs(j)
        PROVE  WayInv'
    <3>1. aged' = aged \ {j} /\ \A i \in Job \ {j} : requests'[i] = requests[i]
      BY <2>2 DEF RunJobs, SendRequest, RunnerTypeOK
    <3> QED
      BY <1>3, <3>1 DEF OnItsWay, Runner, workerVars
  <2>3. (\A j \in Job : ~ RunJobs(j)) => requests' = requests
    BY <1>3 DEF Runner, RunnerStep, Listen, LoadJobs, RequeueDeadJobs, NotificationsDone,
           WaitNotification, ProcessNotification
  <2>4. requests' = requests => WayInv'
    BY <1>1, <1>3, <2>1 DEF Runner, workerVars, OnItsWay
  <2> QED
    BY <2>2, <2>3, <2>4
<1>4. ASSUME NEW v \in Worker, Perform(v) \/ (WorkerCrash(v) /\ UNCHANGED runnerVars)
      PROVE  WayInv'
  <2>1. aged' \subseteq aged /\ requests' = requests
    BY <1>4 DEF Perform, WorkerStep, LockRead, LockGrant, PerformDone, StoreConflict,
           NothingToDoConflict, PerformRetry, PerformIgnoreRetry, PerformConflict,
           PerformError, PerformAbort, Postpone, StoreFailed, Rollback, ReadDependents,
           ReleaseDependents, DependentsConflict, WorkerCrash, Abort, KeepAged, runnerVars,
           tableVars
  <2>2. \A w \in Worker : pc'[w] \in {"starting", "locking"} =>
               pc[w] \in {"starting", "locking"} /\ job'[w] = job[w]
    BY <1>4 DEF Perform, WorkerStep, LockRead, LockGrant, PerformDone, StoreConflict,
           NothingToDoConflict, PerformRetry, PerformIgnoreRetry, PerformConflict,
           PerformError, PerformAbort, Postpone, StoreFailed, Rollback, ReadDependents,
           ReleaseDependents, DependentsConflict, WorkerCrash, EndRequest, Goto, GotoTried,
           WorkerTypeOK
  <2> QED
    BY <1>1, <1>2, <2>1, <2>2
<1>5. ASSUME NEW v \in Worker, NEW i \in Job, Serve(v, i)
      PROVE  WayInv'
  <2>1. aged' = aged /\ OnItsWay(i)
    BY <1>5 DEF Serve, Start, Load, AddLockRecord, Refuse, tableVars, OnItsWay
  <2>2. \A w \in Worker : pc'[w] \in {"starting", "locking"} =>
               job'[w] = i \/ (pc[w] \in {"starting", "locking"} /\ job'[w] = job[w])
    BY <1>5 DEF Serve, Start, Load, AddLockRecord, Refuse, workerVars, WorkerTypeOK
  <2>3. \A j \in Job \ {i} : requests'[j] = requests[j]
    BY <1>5 DEF Serve, RunnerTypeOK
  <2> QED
    BY <2>1, <2>2, <2>3 DEF OnItsWay
<1>6. ASSUME NEW i \in Job, AgeStep(i)
      PROVE  WayInv'
  <2>1. ~ OnItsWay(i) /\ aged' = aged \cup {i}
    BY <1>6 DEF AgeStep, Age
  <2>2. \A j \in Job : OnItsWay(j)' => OnItsWay(j)
    BY <1>6 DEF AgeStep, OnItsWay, runnerVars, workerVars
  <2> QED
    BY <2>1, <2>2
<1>7. ASSUME NEW i \in Job, User(i)
      PROVE  WayInv'
  <2>1. aged' \subseteq aged
    BY <1>7 DEF User, SetDone, Cancel, Requeue, KeepAged
  <2>2. \A j \in Job : OnItsWay(j)' => OnItsWay(j)
    BY <1>7 DEF User, OnItsWay, runnerVars, workerVars
  <2> QED
    BY <1>1, <2>1, <2>2
<1>8. ASSUME NEW i \in Job, EtaStep(i)
      PROVE  WayInv'
  BY <1>1, <1>2, <1>8 DEF EtaStep, EtaComes, EtaReadComes
<1>9. RunnerFailure /\ UNCHANGED workerVars => WayInv'
  BY <1>1, <1>2 DEF RunnerFailure, CloseDatabases, workerVars
<1>10. ASSUME NEW i \in Job, LoseRequest(i), UNCHANGED workerVars
       PROVE  WayInv'
  <2>1. aged' = aged /\ \A j \in Job : requests'[j] > 0 => requests[j] > 0
    BY <1>10 DEF LoseRequest, tableVars, RunnerTypeOK
  <2> QED
    BY <1>1, <1>10, <2>1 DEF OnItsWay, workerVars
<1>11. UNCHANGED vars => WayInv'
  BY DEF vars, tableVars, workerVars, runnerVars, OnItsWay
<1> QED
  BY <1>3, <1>4, <1>5, <1>6, <1>7, <1>8, <1>9, <1>10, <1>11, NextCases

(* WayInv holds in every state, whatever the users do.                     *)
LEMMA WayInvariant ==
  ASSUME "slow" \notin Faults
  PROVE  Spec => []WayInv
<1>1. Init => WayInv
  BY DEF Init, TableInit, WayInv
<1>2. TypeOK /\ WayInv /\ [Next]_vars => WayInv'
  BY WayInvStep
<1> QED
  BY <1>1, <1>2, TypeCorrect, PTL DEF Spec

(* The lock row of a job that has an owner is only freed by the owner.     *)
LEMMA HeldInvStep ==
  ASSUME Unattended, TypeOK, GraphInv, [Next]_vars
  PROVE  HeldInv'
<1> USE WorkerAssumption DEF TypeOK, WorkerTypeOK, TableTypeOK, HeldInv
<1>1. HeldInv
  BY DEF GraphInv
<1>2. ASSUME UNCHANGED <<pc, job, lockedBy>>
      PROVE  HeldInv'
  BY <1>1, <1>2
<1>3. Runner => HeldInv'
  BY <1>2 DEF Runner, RunnerStep, Listen, LoadJobs, RequeueDeadJobs, NotificationsDone,
           WaitNotification, ProcessNotification, RunJobs, workerVars, tableVars
<1>4. ASSUME NEW v \in Worker, Perform(v)
      PROVE  HeldInv'
  <2>1. CASE LockRead(v)
    <3>1. state[job[v]] = "started"
      BY <2>1 DEF LockRead, GraphInv, OwnerInv, Owner
    <3> QED
      BY <1>1, <2>1, <3>1 DEF LockRead, Goto
  <2>2. CASE LockGrant(v)
    BY <1>1, <2>2 DEF LockGrant, Goto
  <2>3. CASE PerformDone(v)
    BY <1>1, <2>3 DEF PerformDone, GotoTried, Unlock
  <2>4. CASE PerformRetry(v) \/ PerformError(v) \/ PerformIgnoreRetry(v)
    BY <1>1, <2>4 DEF PerformRetry, PerformError, PerformIgnoreRetry, GotoTried, Goto, tableVars
  <2>5. CASE Postpone(v) \/ StoreFailed(v)
    BY <1>1, <2>5 DEF Postpone, StoreFailed, Goto
  <2>6. CASE NothingToDoConflict(v) \/ Rollback(v)
    BY <1>1, <2>6 DEF NothingToDoConflict, Rollback, EndRequest, Abort, Unlock
  <2>7. CASE ReadDependents(v) \/ ReleaseDependents(v) \/ DependentsConflict(v)
    BY <1>1, <2>7 DEF ReadDependents, ReleaseDependents, DependentsConflict, EndRequest
  <2>8. ~ StoreConflict(v) /\ ~ PerformConflict(v) /\ ~ PerformAbort(v)
    BY DEF Unattended, GraphInv, FreshInv, StoreConflict, PerformConflict, PerformAbort
  <2> QED
    BY <1>4, <2>1, <2>2, <2>3, <2>4, <2>5, <2>6, <2>7, <2>8 DEF Perform, WorkerStep
<1>5. ASSUME NEW v \in Worker, NEW j \in Job, Serve(v, j)
      PROVE  HeldInv'
  BY <1>1, <1>5 DEF Serve, Start, Load, AddLockRecord, Refuse, workerVars, tableVars
<1>6. ASSUME NEW j \in Job, AgeStep(j) \/ EtaStep(j) \/ User(j)
      PROVE  HeldInv'
  BY <1>2, <1>6 DEF AgeStep, Age, EtaStep, EtaComes, EtaReadComes, User, SetDone, Cancel,
              Requeue, workerVars
<1>7. ASSUME NEW v \in Worker, WorkerCrash(v)
      PROVE  HeldInv'
  BY <1>1, <1>7 DEF WorkerCrash, EndRequest, Abort, Unlock
<1>8. RunnerFailure /\ UNCHANGED workerVars => HeldInv'
  BY <1>2 DEF RunnerFailure, CloseDatabases, workerVars
<1>9. \A j \in Job : LoseRequest(j) /\ UNCHANGED workerVars => HeldInv'
  BY <1>2 DEF LoseRequest, workerVars, tableVars
<1>10. UNCHANGED vars => HeldInv'
  BY <1>2 DEF vars, workerVars, tableVars
<1> QED
  BY <1>3, <1>4, <1>5, <1>6, <1>7, <1>8, <1>9, <1>10, NextCases

(* How a worker goes on to own its job, or comes to own one.               *)
Continues(w) == Owner(w) /\ job'[w] = job[w] /\ parentsDone'[w] = parentsDone[w]

Begins(w) ==
  /\ state[job'[w]] = "enqueued" /\ state'[job'[w]] = "started"
  /\ parentsDone'[w] = ParentsDone(job'[w])
  /\ \A v \in Worker \ {w} : Owner(v)' => Continues(v)

OwnerRules == \A w \in Worker : Owner(w)' => Continues(w) \/ Begins(w)

LEMMA OwnerRulesStep ==
  ASSUME TypeOK, [Next]_vars
  PROVE  OwnerRules
<1> USE DEF TypeOK, WorkerTypeOK, TableTypeOK, Owner
<1>1. ASSUME \A w \in Worker : Owner(w)' => Continues(w)
      PROVE  OwnerRules
  BY <1>1 DEF OwnerRules
<1>2. UNCHANGED workerVars => OwnerRules
  BY DEF workerVars, OwnerRules, Continues
<1>3. ASSUME NEW v \in Worker, Perform(v) \/ WorkerCrash(v)
      PROVE  OwnerRules
  BY <1>1, <1>3 DEF Perform, WorkerStep, LockRead, LockGrant, PerformDone, StoreConflict,
           NothingToDoConflict, PerformRetry, PerformIgnoreRetry, PerformConflict,
           PerformError, PerformAbort, Postpone, StoreFailed, Rollback, ReadDependents,
           ReleaseDependents, DependentsConflict, WorkerCrash, EndRequest, Goto, GotoTried,
           Continues
<1>4. ASSUME NEW v \in Worker, NEW j \in Job, Serve(v, j)
      PROVE  OwnerRules
  BY <1>2, <1>4 DEF Serve, Start, Load, AddLockRecord, Refuse, OwnerRules, Begins, Continues
<1>5. ASSUME NEW j \in Job, EtaStep(j)
      PROVE  OwnerRules
  BY <1>1, <1>5 DEF EtaStep, EtaReadComes, Continues
<1>6. Runner \/ (\E j \in Job : AgeStep(j) \/ User(j)) \/ UNCHANGED vars => UNCHANGED workerVars
  BY DEF Runner, AgeStep, User, vars, workerVars
<1> QED
  BY <1>2, <1>3, <1>4, <1>5, <1>6, NextCases

(* A job that begins was enqueued, and so had no owner; the others keep    *)
(* their rows.                                                             *)
LEMMA OwnerInvStep ==
  ASSUME TypeOK, TypeOK', OwnerInv, ParentsInv, RowRules, OwnerRules
  PROVE  OwnerInv'
<1>1. ASSUME NEW w \in Worker, Owner(w)'
      PROVE  state'[job'[w]] = "started" /\ parentsDone'[w]
  <2>1. CASE Continues(w)
    <3>1. job[w] \in Job /\ state[job[w]] = "started" /\ Owner(w)
      BY <2>1 DEF Continues, OwnerInv, TypeOK, WorkerTypeOK, Owner
    <3> QED
      BY <1>1, <2>1, <3>1 DEF Continues, OwnerInv, RowRules, ChangeRules
  <2>2. CASE Begins(w)
    <3>1. job'[w] \in Job
      BY <1>1 DEF TypeOK, WorkerTypeOK, Owner
    <3> QED
      BY <2>2, <3>1 DEF Begins, ParentsInv
  <2> QED
    BY <1>1, <2>1, <2>2 DEF OwnerRules
<1>2. ASSUME NEW w \in Worker, NEW v \in Worker, Owner(w)', Owner(v)', job'[v] = job'[w], v # w
      PROVE  FALSE
  <2>1. CASE Continues(w) /\ Continues(v)
    BY <1>2, <2>1 DEF OwnerInv, Continues
  <2>2. CASE Begins(w)
    BY <1>2, <2>2 DEF OwnerInv, Begins, Continues
  <2>3. CASE Begins(v)
    BY <1>2, <2>3 DEF OwnerInv, Begins, Continues
  <2> QED
    BY <1>2, <2>1, <2>2, <2>3 DEF OwnerRules
<1> QED
  BY <1>1, <1>2 DEF OwnerInv, Owner

(* The row that Job.lock has read is not written before its owner leaves.  *)
LEMMA FreshInvStep ==
  ASSUME TypeOK, OwnerInv, FreshInv, RowRules, [Next]_vars
  PROVE  FreshInv'
<1> USE DEF TypeOK, WorkerTypeOK, TableTypeOK
<1> DEFINE Past(w) == pc[w] \in {"locking", "running"}
<1>1. ASSUME \A w \in Worker : Past(w)' => Past(w) /\ job'[w] = job[w]
      PROVE  FreshInv'
  <2> SUFFICES ASSUME NEW w \in Worker, Past(w)'
               PROVE  w \in current'[job'[w]]
    BY DEF FreshInv
  <2>1. Past(w) /\ job'[w] = job[w] /\ job[w] \in Job
    BY <1>1
  <2>2. state[job[w]] = "started" /\ Owner(w) /\ Owner(w)'
    BY <2>1 DEF OwnerInv, Owner
  <2>3. state'[job[w]] = state[job[w]]
    BY <2>1, <2>2 DEF RowRules, ChangeRules
  <2> QED
    BY <2>1, <2>3 DEF FreshInv, RowRules, KeptRules
<1>2. UNCHANGED <<pc, job>> => FreshInv'
  BY <1>1
<1>3. ASSUME NEW v \in Worker, Perform(v) \/ WorkerCrash(v)
      PROVE  FreshInv'
  <2>1. CASE LockRead(v)
    BY <2>1 DEF LockRead, Goto, FreshInv
  <2>2. CASE ~ LockRead(v)
    BY <1>1, <1>3, <2>2 DEF Perform, WorkerStep, LockGrant, PerformDone, StoreConflict,
           NothingToDoConflict, PerformRetry, PerformIgnoreRetry, PerformConflict,
           PerformError, PerformAbort, Postpone, StoreFailed, Rollback, ReadDependents,
           ReleaseDependents, DependentsConflict, WorkerCrash, EndRequest, Goto, GotoTried
  <2> QED
    BY <2>1, <2>2
<1>4. ASSUME NEW v \in Worker, NEW j \in Job, Serve(v, j)
      PROVE  FreshInv'
  BY <1>1, <1>4 DEF Serve, Start, Load, AddLockRecord, Refuse, workerVars
<1>5. \A j \in Job : EtaStep(j) => FreshInv'
  BY <1>2 DEF EtaStep, EtaReadComes
<1>6. Runner \/ (\E j \in Job : AgeStep(j) \/ User(j)) \/ UNCHANGED workerVars \/ UNCHANGED vars
        => UNCHANGED <<pc, job>>
  BY DEF Runner, AgeStep, User, vars, workerVars
<1> QED
  BY <1>2, <1>3, <1>4, <1>5, <1>6, NextCases

(* A job enters the queue by a notification that it is pending, and leaves *)
(* it when it is enqueued.                                                 *)
LEMMA QueuedInvStep ==
  ASSUME TypeOK, QueuedInv, RowRules, [Next]_vars
  PROVE  QueuedInv'
<1> USE DEF TypeOK, TableTypeOK, RunnerTypeOK
<1>1. ASSUME \A j \in Job : mem'[j] = "queued" => mem[j] = "queued" \/ state'[j] = "pending"
      PROVE  QueuedInv'
  BY <1>1 DEF QueuedInv, RowRules, ChangeRules
<1>2. mem' = mem => QueuedInv'
  BY <1>1
<1>3. CASE Runner
  <2>1. \A j \in Job, s \in States, e \in Etas :
          PlaceOnNotify(j, s, e) = "queued" => s = "pending" \/ mem[j] = "queued"
    BY Zenon DEF PlaceOnNotify
  <2>2. CASE LoadJobs
    BY <1>1, <2>1, <2>2 DEF LoadJobs, tableVars
  <2>3. ASSUME NEW j \in Job, ProcessNotification(j)
        PROVE  QueuedInv'
    BY <1>1, <2>1, <2>3 DEF ProcessNotification
  <2>4. ASSUME NEW j \in Job, RunJobs(j)
        PROVE  QueuedInv'
    BY <1>1, <2>4 DEF RunJobs, SendRequest
  <2> QED
    BY <1>2, <1>3, <2>2, <2>3, <2>4 DEF Runner, RunnerStep, Listen, RequeueDeadJobs,
       NotificationsDone, WaitNotification
<1>4. RunnerFailure => QueuedInv'
  BY <1>1 DEF RunnerFailure, CloseDatabases
<1>5. \A w \in Worker : Perform(w) \/ (WorkerCrash(w) /\ UNCHANGED runnerVars) => mem' = mem
  BY DEF Perform, runnerVars
<1>6. \A w \in Worker, j \in Job : Serve(w, j) => mem' = mem
  BY DEF Serve
<1>7. \A j \in Job : AgeStep(j) \/ EtaStep(j) \/ User(j) \/ LoseRequest(j) => mem' = mem
  BY DEF AgeStep, EtaStep, EtaComes, User, LoseRequest, runnerVars
<1>8. UNCHANGED vars => mem' = mem
  BY DEF vars, runnerVars
<1> QED
  BY <1>2, <1>3, <1>4, <1>5, <1>6, <1>7, <1>8, NextCases

(* What is done stays done, so a job whose parents are done keeps them so. *)
LEMMA ParentsKept ==
  ASSUME RowRules, NEW j \in Job, ParentsDone(j)
  PROVE  ParentsDone(j)'
BY DependsOnAssumption DEF ParentsDone, RowRules, ChangeRules

LEMMA ParentsInvStep ==
  ASSUME ParentsInv, RowRules
  PROVE  ParentsInv'
<1> SUFFICES ASSUME NEW j \in Job, state'[j] # "wait_dependencies"
             PROVE  ParentsDone(j)'
  BY DEF ParentsInv
<1>1. CASE state[j] = "wait_dependencies"
  BY <1>1 DEF RowRules, ChangeRules
<1>2. CASE state[j] # "wait_dependencies"
  BY <1>2, ParentsKept DEF ParentsInv
<1> QED
  BY <1>1, <1>2

(* enqueue_waiting reads rows that wait and whose parents are done; another *)
(* write of such a row releases it, and makes the snapshot old.            *)
LEMMA ReleaseInvStep ==
  ASSUME TypeOK, ReleaseInv, RowRules, RowsTold, [Next]_vars
  PROVE  ReleaseInv'
<1> USE DEF TypeOK, WorkerTypeOK, TableTypeOK
<1> DEFINE Kept(w) == pc[w] = "releasing" /\ dependents'[w] = dependents[w] /\ job'[w] = job[w]
<1>1. ASSUME NEW w \in Worker, pc'[w] = "releasing", Kept(w), NEW c \in dependents'[w],
             \A d \in Job : w \in current'[d] => w \in current[d]
      PROVE  Releasing(w, c)'
  <2>1. c \in Job /\ Releasing(w, c)
    BY <1>1 DEF ReleaseInv
  <2>2. CASE state'[c] = state[c]
    BY <1>1, <2>1, <2>2, ParentsKept DEF RowRules, KeptRules, Releasing
  <2>3. CASE state'[c] # state[c]
    <3>1. current'[c] = {}
      BY <2>1, <2>3 DEF RowsTold
    <3>2. state'[c] # "wait_dependencies"
      BY <2>1, <2>3 DEF RowRules, ChangeRules
    <3> QED
      BY <1>1, <2>1, <3>1, <3>2, ParentsKept DEF Releasing
  <2> QED
    BY <2>2, <2>3
<1>2. ASSUME \A w \in Worker : pc'[w] = "releasing" => Kept(w),
             \A d \in Job : current'[d] \subseteq current[d]
      PROVE  ReleaseInv'
  BY <1>1, <1>2 DEF ReleaseInv
<1>3. ASSUME NEW v \in Worker, Perform(v) \/ WorkerCrash(v)
      PROVE  ReleaseInv'
  <2>1. CASE ReadDependents(v)
    <3> DEFINE Ready == DependentJobs(state, job[v], "done")
    <3>1. state' = state /\ dependents' = [dependents EXCEPT ![v] = Ready]
      BY <2>1 DEF ReadDependents
    <3>2. \A c \in Ready : c \in Job /\ ParentsDone(c) /\ state[c] = "wait_dependencies"
                        /\ job[v] \in DependsOn[c]
      BY DEF DependentJobs, ParentsDone
    <3>3. \A c \in Job : current'[c] = IF c \in Ready THEN current[c] \cup {v} ELSE current[c]
      BY <2>1 DEF ReadDependents
    <3>4. job' = job /\ \A w \in Worker \ {v} : pc'[w] = pc[w]
      BY <2>1 DEF ReadDependents
    <3> HIDE DEF Ready
    <3>5. ASSUME NEW w \in Worker, pc'[w] = "releasing", NEW c \in dependents'[w]
          PROVE  Releasing(w, c)'
      <4>1. CASE w = v
        <5>1. c \in Ready
          BY <3>1, <3>5, <4>1
        <5> QED
          BY <3>1, <3>2, <3>3, <3>4, <4>1, <5>1, ParentsKept DEF Releasing
      <4>2. CASE w # v
        <5>1. Kept(w)
          BY <3>1, <3>4, <3>5, <4>2
        <5>2. \A d \in Job : w \in current'[d] => w \in current[d]
          BY <3>3, <4>2
        <5> QED
          BY <1>1, <3>5, <5>1, <5>2
      <4> QED
        BY <4>1, <4>2
    <3> QED
      BY <3>5 DEF ReleaseInv
  <2>2. CASE LockRead(v)
    <3>1. \A w \in Worker : pc'[w] = "releasing" => Kept(w) /\ w # v
      BY <2>2 DEF LockRead, Goto
    <3>2. \A w \in Worker \ {v}, d \in Job : w \in current'[d] => w \in current[d]
      BY <2>2 DEF LockRead
    <3> QED
      BY <1>1, <3>1, <3>2 DEF ReleaseInv
  <2>3. CASE ~ ReadDependents(v) /\ ~ LockRead(v)
    <3>1. \A w \in Worker : pc'[w] = "releasing" => Kept(w)
      BY <1>3, <2>3 DEF Perform, WorkerStep, LockGrant, PerformDone, StoreConflict,
           NothingToDoConflict, PerformRetry, PerformIgnoreRetry, PerformConflict,
           PerformError, PerformAbort, Postpone, StoreFailed, Rollback,
           ReleaseDependents, DependentsConflict, WorkerCrash, EndRequest, Goto, GotoTried
    <3>2. \A d \in Job : current'[d] \subseteq current[d]
      BY <1>3, <2>3 DEF Perform, WorkerStep, LockGrant, PerformDone, StoreConflict,
           NothingToDoConflict, PerformRetry, PerformIgnoreRetry, PerformConflict,
           PerformError, PerformAbort, Postpone, StoreFailed, Rollback,
           ReleaseDependents, DependentsConflict, WorkerCrash, Abort, DropSnapshot, Commit,
           tableVars
    <3> QED
      BY <1>2, <3>1, <3>2
  <2> QED
    BY <2>1, <2>2, <2>3
<1>4. ASSUME NEW v \in Worker, NEW j \in Job, Serve(v, j)
      PROVE  ReleaseInv'
  BY <1>2, <1>4 DEF Serve, Start, Load, AddLockRecord, Refuse, Commit, workerVars, tableVars
<1>5. Runner => ReleaseInv'
  BY <1>2 DEF Runner, RunnerStep, Listen, LoadJobs, RequeueDeadJobs, NotificationsDone,
           WaitNotification, ProcessNotification, RunJobs, Commit, workerVars, tableVars
<1>6. ASSUME NEW j \in Job, AgeStep(j) \/ EtaStep(j) \/ User(j)
      PROVE  ReleaseInv'
  BY <1>2, <1>6 DEF AgeStep, Age, EtaStep, EtaComes, EtaReadComes, User, SetDone, Cancel,
              Requeue, Commit, workerVars
<1>7. RunnerFailure /\ UNCHANGED workerVars => ReleaseInv'
  BY <1>2 DEF RunnerFailure, CloseDatabases, workerVars
<1>8. \A j \in Job : LoseRequest(j) /\ UNCHANGED workerVars => ReleaseInv'
  BY <1>2 DEF LoseRequest, workerVars, tableVars
<1>9. UNCHANGED vars => ReleaseInv'
  BY <1>2 DEF vars, workerVars, tableVars
<1> QED
  BY <1>3, <1>4, <1>5, <1>6, <1>7, <1>8, <1>9, NextCases

(* The invariant of the graph holds in every state.                        *)
LEMMA GraphInvariant ==
  ASSUME Unattended
  PROVE  Spec => [](GraphInv /\ TypeOK)
<1>1. Init => GraphInv
  <2> USE DEF Init, TableInit, WorkerInit, RunnerInit
  <2>1. Init => WayInv /\ HeldInv /\ OwnerInv /\ FreshInv /\ QueuedInv /\ ReleaseInv
    BY DEF WayInv, HeldInv, OwnerInv, Owner, FreshInv, QueuedInv, ReleaseInv
  <2>2. Init => ParentsInv
    BY DEF ParentsInv, ParentsDone, PendingState
  <2> QED
    BY <2>1, <2>2 DEF GraphInv
<1>2. ASSUME TypeOK, TypeOK', GraphInv, [Next]_vars
      PROVE  GraphInv'
  <2>1. RowRules /\ OwnerRules /\ RowsTold
    BY <1>2, RulesStep, OwnerRulesStep, RowsToldStep
  <2>2. WayInv'
    BY <1>2, WayInvStep DEF GraphInv, Unattended
  <2>3. HeldInv'
    BY <1>2, HeldInvStep
  <2>4. OwnerInv' /\ FreshInv' /\ QueuedInv' /\ ParentsInv' /\ ReleaseInv'
    BY <1>2, <2>1, OwnerInvStep, FreshInvStep, QueuedInvStep, ParentsInvStep, ReleaseInvStep
    DEF GraphInv
  <2> QED
    BY <2>2, <2>3, <2>4 DEF GraphInv
<1> QED
  BY <1>1, <1>2, TypeCorrect, PTL DEF Spec

-----------------------------------------------------------------------------
(* A job is performed only when all the jobs it depends on are done: it    *)
(* was taken out of wait_dependencies when they were, and what is done     *)
(* stays done.                                                             *)
THEOREM DependenciesHold == ASSUME Unattended PROVE Spec => []DependenciesRespected
<1>1. GraphInv /\ TypeOK => DependenciesRespected
  <2> SUFFICES ASSUME GraphInv, TypeOK, NEW w \in Worker, pc[w] = "running"
               PROVE  \A p \in DependsOn[job[w]] : state[p] = "done"
    BY DEF DependenciesRespected
  <2>1. job[w] \in Job
    BY DEF TypeOK, WorkerTypeOK
  <2>2. state[job[w]] = "started"
    BY DEF GraphInv, OwnerInv, Owner
  <2> QED
    BY <2>1, <2>2 DEF GraphInv, ParentsInv, ParentsDone
<1> QED
  BY <1>1, GraphInvariant, PTL

(* requeue_dead_jobs leaves a job alone that is about to be performed, as  *)
(* long as requests reach Job.lock within its ten seconds, whatever else   *)
(* fails and whatever the users do.                                        *)
THEOREM OnItsWayNotDead ==
  ASSUME "slow" \notin Faults
  PROVE  Spec => NotDeadBeforePerformed
<1> DEFINE Kept == phase = "requeue" /\ phase' = "notify" =>
                     \A w \in Worker : pc[w] \in {"starting", "locking"} =>
                                          state'[job[w]] = state[job[w]]
<1>1. TypeOK /\ WayInv /\ [Next]_vars => [Kept]_vars
  <2> SUFFICES ASSUME TypeOK, WayInv, [Next]_vars, phase = "requeue", phase' = "notify",
                      NEW w \in Worker, pc[w] \in {"starting", "locking"}
               PROVE  state'[job[w]] = state[job[w]]
    OBVIOUS
  <2>1. RequeueDeadJobs
    BY OnlyRequeueNotifies
  <2>2. job[w] \in Job /\ job[w] \notin aged
    BY DEF TypeOK, WorkerTypeOK, WayInv, OnItsWay
  <2> QED
    BY <2>1, <2>2 DEF RequeueDeadJobs, DeadJobs
<1> QED
  BY <1>1, WayInvariant, TypeCorrect, PTL DEF Spec, NotDeadBeforePerformed

(* No more jobs are performed at a time than the channel has capacity for: *)
(* each of them has a row of its own that is started.                      *)
THEOREM PerformedHolds == ASSUME Unattended PROVE Spec => []PerformedWithinCapacity
<1>1. GraphInv /\ TypeOK /\ CapacityRespected => PerformedWithinCapacity
  <2> SUFFICES ASSUME GraphInv, TypeOK, CapacityRespected
               PROVE  PerformedWithinCapacity
    OBVIOUS
  <2> DEFINE Running == {w \in Worker : pc[w] = "running"}
             JobOf == [w \in Running |-> job[w]]
  <2>1. \A w \in Running : job[w] \in BusyJobs
    BY DEF BusyJobs, Busy, GraphInv, OwnerInv, Owner, TypeOK, WorkerTypeOK
  <2>2. \A v, w \in Running : job[v] = job[w] => v = w
    BY DEF GraphInv, OwnerInv, Owner
  <2>3. IsInjective(JobOf)
    BY <2>2 DEF IsInjective
  <2>4. JobOf \in [Running -> BusyJobs]
    BY <2>1
  <2>5. IsFiniteSet(BusyJobs)
    BY JobAssumption, FS_Subset DEF BusyJobs
  <2>6. IsFiniteSet(Running) /\ Cardinality(Running) <= Cardinality(BusyJobs)
    BY <2>3, <2>4, <2>5, FS_Injection DEF Injection
  <2>7. Cardinality(Running) \in Nat /\ Cardinality(BusyJobs) \in Nat
    BY <2>5, <2>6, FS_CardinalityType
  <2>8. Cardinality(BusyJobs) <= Capacity
    BY DEF CapacityRespected, BusyJobs
  <2> QED
    BY <2>6, <2>7, <2>8, CapacityAssumption DEF PerformedWithinCapacity
<1> QED
  BY <1>1, GraphInvariant, CapacityHolds, PTL

-----------------------------------------------------------------------------
(* The channel of the runner knows of an eta that is to come: only the     *)
(* owner of a job postpones it, and a job with an owner is not queued.     *)
EtaInv == \A j \in Job : mem[j] = "queued" /\ memEta[j] # "future" => eta[j] # "future"

LEMMA EtaInvStep ==
  ASSUME Unattended, TypeOK, GraphInv, EtaInv, [Next]_vars
  PROVE  EtaInv'
<1> USE DEF TypeOK, TableTypeOK, RunnerTypeOK, EtaInv
<1>1. ASSUME eta' = eta, mem' = mem, memEta' = memEta
      PROVE  EtaInv'
  BY <1>1
<1>2. CASE Runner
  <2>1. CASE LoadJobs
    BY <2>1 DEF LoadJobs, tableVars
  <2>2. ASSUME NEW j \in Job, ProcessNotification(j)
        PROVE  EtaInv'
    BY <2>2 DEF ProcessNotification
  <2>3. ASSUME NEW j \in Job, RunJobs(j)
        PROVE  EtaInv'
    BY <2>3 DEF RunJobs, SendRequest, Due
  <2> QED
    BY <1>1, <1>2, <2>1, <2>2, <2>3 DEF Runner, RunnerStep, Listen, RequeueDeadJobs,
       NotificationsDone, WaitNotification, tableVars
<1>3. ASSUME NEW v \in Worker, Perform(v)
      PROVE  EtaInv'
  <2>1. CASE Postpone(v) \/ StoreFailed(v)
    <3>1. job[v] \in Job /\ mem[job[v]] # "queued"
      BY <2>1 DEF Postpone, StoreFailed, GraphInv, OwnerInv, Owner, QueuedInv, WorkerTypeOK
    <3>2. \A i \in Job \ {job[v]} : eta'[i] = eta[i]
      BY <2>1 DEF Postpone, StoreFailed
    <3> QED
      BY <1>3, <3>1, <3>2 DEF Perform, runnerVars
  <2>2. ~ Postpone(v) /\ ~ StoreFailed(v) => eta' = eta
    BY <1>3 DEF Perform, WorkerStep, LockRead, LockGrant, PerformDone, StoreConflict,
           NothingToDoConflict, PerformRetry, PerformIgnoreRetry, PerformConflict,
           PerformError, PerformAbort, Rollback, ReadDependents, ReleaseDependents,
           DependentsConflict, Abort, tableVars
  <2> QED
    BY <1>1, <1>3, <2>1, <2>2 DEF Perform, runnerVars
<1>4. \A v \in Worker, j \in Job : Serve(v, j) => EtaInv'
  BY <1>1 DEF Serve, Start, Load, AddLockRecord, Refuse, tableVars
<1>5. \A j \in Job : AgeStep(j) \/ User(j) \/ LoseRequest(j) => EtaInv'
  BY <1>1 DEF AgeStep, Age, User, SetDone, Cancel, Requeue, LoseRequest, runnerVars, tableVars
<1>6. \A j \in Job : EtaStep(j) => EtaInv'
  BY DEF EtaStep, EtaComes
<1>7. RunnerFailure => EtaInv'
  BY DEF RunnerFailure, CloseDatabases
<1>8. \A v \in Worker : WorkerCrash(v) /\ UNCHANGED runnerVars => EtaInv'
  BY <1>1 DEF WorkerCrash, Abort, runnerVars
<1>9. UNCHANGED vars => EtaInv'
  BY <1>1 DEF vars, tableVars, runnerVars
<1> QED
  BY <1>2, <1>3, <1>4, <1>5, <1>6, <1>7, <1>8, <1>9, NextCases

(* A job is enqueued only when its eta is not in the future, also when it  *)
(* was postponed while its notifications were on their way.                *)
THEOREM EtaHolds == ASSUME Unattended PROVE Spec => EtaRespected
<1> DEFINE Respected == \A j \in Job : state[j] # "enqueued" /\ state'[j] = "enqueued"
                                          => eta[j] # "future"
<1>1. Init => EtaInv
  BY DEF Init, TableInit, EtaInv
<1>2. TypeOK /\ GraphInv /\ EtaInv /\ [Next]_vars => EtaInv'
  BY EtaInvStep
<1>3. TypeOK /\ GraphInv /\ EtaInv /\ [Next]_vars => [Respected]_vars
  BY RulesStep DEF RowRules, ChangeRules, EtaInv, Due
<1> QED
  BY <1>1, <1>2, <1>3, GraphInvariant, PTL DEF Spec, EtaRespected

-----------------------------------------------------------------------------
(* Every job is the parent of one job at most, as in a chain or in a group *)
(* before a job.  TLC finds a child forgotten in a graph where two parents *)
(* of a job are done together and one of them has another child (the run   *)
(* lost_dependents).                                                       *)
OneChild ==
  \A p, c, d \in Job : p \in DependsOn[c] /\ p \in DependsOn[d] => c = d

(* Who completes a job is about to release its children, or has done so.   *)
CompletedRules ==
  \A p \in Job : state[p] # "done" /\ state'[p] = "done" =>
    \/ \E w \in Worker : pc'[w] = "depends" /\ job'[w] = p
    \/ \A c \in Job : p \in DependsOn[c] /\ ParentsDone(c)' => state'[c] # "wait_dependencies"

LEMMA CompletedStep ==
  ASSUME Unattended, TypeOK, GraphInv, [Next]_vars
  PROVE  CompletedRules
<1> USE DEF TypeOK, TableTypeOK, WorkerTypeOK
<1>1. ASSUME \A p \in Job : state'[p] = "done" => state[p] = "done"
      PROVE  CompletedRules
  BY <1>1 DEF CompletedRules
<1>2. Runner => CompletedRules
  <2>1. Runner => \A p \in Job : state'[p] = "done" => state[p] = "done"
    BY DEF Runner, RunnerStep, Listen, LoadJobs, RequeueDeadJobs, NotificationsDone,
           WaitNotification, ProcessNotification, RunJobs, tableVars
  <2> QED
    BY <1>1, <2>1
<1>3. ASSUME NEW v \in Worker, Perform(v)
      PROVE  CompletedRules
  <2>1. CASE PerformDone(v)
    <3>1. pc'[v] = "depends" /\ job'[v] = job[v]
      BY <2>1 DEF PerformDone, GotoTried
    <3>2. \A p \in Job \ {job[v]} : state'[p] = state[p]
      BY <2>1 DEF PerformDone
    <3> QED
      BY <3>1, <3>2 DEF CompletedRules
  <2>2. CASE Postpone(v) \/ StoreFailed(v)
    BY <1>1, <2>2 DEF Postpone, StoreFailed, PendingState
  <2>3. CASE ReleaseDependents(v)
    BY <1>1, <2>3 DEF ReleaseDependents, Put
  <2>4. ~ PerformDone(v) /\ ~ Postpone(v) /\ ~ StoreFailed(v) /\ ~ ReleaseDependents(v)
          => state' = state
    BY <1>3 DEF Perform, WorkerStep, LockRead, LockGrant, StoreConflict,
           NothingToDoConflict, PerformRetry, PerformIgnoreRetry, PerformConflict,
           PerformError, PerformAbort, Rollback, ReadDependents, DependentsConflict, Abort,
           tableVars
  <2> QED
    BY <1>1, <2>1, <2>2, <2>3, <2>4
<1>4. ASSUME NEW j \in Job, User(j)
      PROVE  CompletedRules
  <2>1. SetDone(j)
    BY <1>4 DEF Unattended, User
  <2> DEFINE Done  == Put(state, {j}, "done")
             Ready == DependentJobs(Done, j, "done")
  <2>2. \A i \in Job : state'[i] = IF i \in Ready THEN "pending"
                                   ELSE IF i = j THEN "done" ELSE state[i]
    BY <2>1 DEF SetDone, Put
  <2>3. ASSUME NEW c \in Job, j \in DependsOn[c], ParentsDone(c)',
               state'[c] = "wait_dependencies"
        PROVE  FALSE
    <3>1. c # j /\ c \notin Ready /\ state[c] = "wait_dependencies"
      BY <2>2, <2>3, DependsOnAssumption
    <3>2. \A p \in DependsOn[c] : p \in Job /\ Done[p] = "done"
      BY <2>2, <2>3, DependsOnAssumption DEF ParentsDone, Put
    <3>3. Done[c] = "wait_dependencies"
      BY <3>1 DEF Put
    <3> QED
      BY <2>3, <3>1, <3>2, <3>3 DEF DependentJobs
  <2> QED
    BY <2>2, <2>3 DEF CompletedRules
<1>5. \A v \in Worker, j \in Job : Serve(v, j) => CompletedRules
  BY <1>1 DEF Serve, Start, Load, AddLockRecord, Refuse, tableVars
<1>6. (\E j \in Job : AgeStep(j) \/ EtaStep(j) \/ LoseRequest(j)) \/ RunnerFailure
        \/ (\E v \in Worker : WorkerCrash(v)) \/ UNCHANGED vars => state' = state
  BY DEF AgeStep, Age, EtaStep, EtaComes, LoseRequest, RunnerFailure, CloseDatabases,
         WorkerCrash, Abort, vars, tableVars
<1> QED
  BY <1>1, <1>2, <1>3, <1>4, <1>5, <1>6, NextCases

(* A worker that is releasing children goes on to do so.                   *)
ReleaseRules ==
  \A w \in Worker : pc[w] \in {"depends", "releasing"} =>
    \/ pc'[w] = pc[w] /\ job'[w] = job[w] /\ dependents'[w] = dependents[w]
    \/ ReadDependents(w) \/ ReleaseDependents(w) \/ DependentsConflict(w)

LEMMA ReleaseRulesStep ==
  ASSUME "worker" \notin Faults, TypeOK, [Next]_vars
  PROVE  ReleaseRules
<1> USE DEF TypeOK, WorkerTypeOK, ReleaseRules
<1>1. UNCHANGED <<pc, job, dependents>> => ReleaseRules
  OBVIOUS
<1>2. ASSUME NEW v \in Worker, Perform(v)
      PROVE  ReleaseRules
  <2>1. \A w \in Worker \ {v} :
          pc'[w] = pc[w] /\ job'[w] = job[w] /\ dependents'[w] = dependents[w]
    BY <1>2 DEF Perform, WorkerStep, LockRead, LockGrant, PerformDone, StoreConflict,
           NothingToDoConflict, PerformRetry, PerformIgnoreRetry, PerformConflict,
           PerformError, PerformAbort, Postpone, StoreFailed, Rollback, ReadDependents,
           ReleaseDependents, DependentsConflict, EndRequest, Goto, GotoTried
  <2>2. pc[v] \in {"depends", "releasing"} =>
          ReadDependents(v) \/ ReleaseDependents(v) \/ DependentsConflict(v)
    BY <1>2 DEF Perform, WorkerStep, LockRead, LockGrant, PerformDone, StoreConflict,
           NothingToDoConflict, PerformRetry, PerformIgnoreRetry, PerformConflict,
           PerformError, PerformAbort, Postpone, StoreFailed, Rollback
  <2> QED
    BY <2>1, <2>2
<1>3. \A v \in Worker, j \in Job : Serve(v, j) => ReleaseRules
  BY DEF Serve, Start, Load, AddLockRecord, Refuse, workerVars
<1>4. Runner \/ (\E j \in Job : AgeStep(j) \/ User(j) \/ EtaStep(j)) \/ UNCHANGED workerVars
        \/ UNCHANGED vars => UNCHANGED <<pc, job, dependents>>
  BY DEF Runner, AgeStep, User, EtaStep, EtaReadComes, vars, workerVars
<1> QED
  BY <1>1, <1>2, <1>3, <1>4 DEF Next, Fault

(* No child is forgotten while no worker is killed: of two workers that    *)
(* have done its last parents together both release it, and the second one *)
(* has nothing else to release when its update fails.                      *)
THEOREM NoChildForgotten ==
  ASSUME Unattended, OneChild, "worker" \notin Faults
  PROVE  Spec => []NoForgottenDependent
<1> DEFINE Cares(w, j) == /\ pc[w] \in {"depends", "releasing"}
                          /\ job[w] \in DependsOn[j]
                          /\ pc[w] = "releasing" => j \in dependents[w]
<1>1. Init => NoForgottenDependent
  <2> SUFFICES ASSUME Init, NEW j \in Job, state[j] = "wait_dependencies"
               PROVE  ~ ParentsDone(j)
    BY DEF NoForgottenDependent
  <2>1. PICK p \in DependsOn[j] : TRUE
    BY DEF Init, TableInit, PendingState
  <2>2. p \in Job
    BY DependsOnAssumption
  <2> QED
    BY <2>1, <2>2 DEF Init, TableInit, PendingState, ParentsDone
<1>2. ASSUME TypeOK, GraphInv, NoForgottenDependent, [Next]_vars
      PROVE  NoForgottenDependent'
  <2> SUFFICES ASSUME NEW j \in Job, state'[j] = "wait_dependencies", ParentsDone(j)'
               PROVE  \E w \in Worker : Cares(w, j)'
    BY DEF NoForgottenDependent
  <2>1. RowRules /\ CompletedRules /\ ReleaseRules
    BY <1>2, RulesStep, CompletedStep, ReleaseRulesStep
  <2>2. state[j] = "wait_dependencies"
    BY <2>1 DEF RowRules, ChangeRules
  <2>3. CASE ParentsDone(j)
    <3>1. PICK w \in Worker : Cares(w, j)
      BY <1>2, <2>2, <2>3 DEF NoForgottenDependent
    <3>2. CASE ReadDependents(w)
      <4>1. j \in DependentJobs(state, job[w], "done")
        BY <2>2, <2>3, <3>1 DEF DependentJobs, ParentsDone
      <4>2. pc'[w] = "releasing" /\ job'[w] = job[w]
              /\ dependents'[w] = DependentJobs(state, job[w], "done")
        BY <1>2, <3>2 DEF ReadDependents, TypeOK, WorkerTypeOK
      <4> QED
        BY <3>1, <4>1, <4>2
    <3>3. CASE ReleaseDependents(w)
      BY <3>1, <3>3 DEF ReleaseDependents, Put
    <3>4. CASE DependentsConflict(w)
      <4>1. PICK c \in dependents[w] : w \notin current[c]
        BY <3>4 DEF DependentsConflict
      <4>2. c \in Job /\ pc[w] = "releasing" /\ j \in dependents[w]
        BY <1>2, <3>1, <3>4 DEF DependentsConflict, TypeOK, WorkerTypeOK
      <4>3. state[c] # "wait_dependencies" /\ job[w] \in DependsOn[c]
        BY <1>2, <4>1, <4>2 DEF GraphInv, ReleaseInv, Releasing
      <4>4. c = j
        BY <3>1, <4>2, <4>3, DependsOnAssumption DEF OneChild
      <4> QED
        BY <2>2, <4>3, <4>4
    <3> QED
      BY <2>1, <3>1, <3>2, <3>3, <3>4 DEF ReleaseRules
  <2>4. CASE ~ ParentsDone(j)
    <3>1. PICK p \in DependsOn[j] : state[p] # "done"
      BY <2>4 DEF ParentsDone
    <3>2. p \in Job /\ state'[p] = "done"
      BY <3>1, DependsOnAssumption DEF ParentsDone
    <3>3. PICK w \in Worker : pc'[w] = "depends" /\ job'[w] = p
      BY <2>1, <3>1, <3>2 DEF CompletedRules
    <3> QED
      BY <3>1, <3>3
  <2> QED
    BY <2>3, <2>4
<1> QED
  BY <1>1, <1>2, GraphInvariant, PTL DEF Spec
=============================================================================
