--------------------------- MODULE QueueJobSafety ---------------------------
(***************************************************************************)
(* The safety of the job queue, for every set of jobs and workers, every   *)
(* graph of dependencies, every capacity and every combination of faults   *)
(* and of operations of the users; and the proof that it implements        *)
(* WorkQueue.                                                              *)
(*                                                                         *)
(* MutualExclusion and NotDeadWhilePerformed rest on the row locks,        *)
(* DoneOnlyWhileStarted on the snapshots, and CapacityRespected and        *)
(* RunnerAgrees on what the runner knows of the rows.                      *)
(***************************************************************************)
EXTENDS QueueJob, FiniteSetTheorems, TLAPS

-----------------------------------------------------------------------------
(* Type correctness, component by component.  First what the operators of  *)
(* the table keep in its type.                                             *)

(* A counter stays a natural number when a try is counted (Job.perform and *)
(* the retry + 1 of requeue_dead_jobs).                                    *)
LEMMA BumpType ==
  ASSUME NEW j \in Job, NEW n \in Nat
  PROVE  Bump(j, n) \in Nat
BY MaxRetriesAssumption DEF Bump

(* The children enqueue_waiting finds are jobs.                            *)
LEMMA DependentJobsType ==
  ASSUME NEW st, NEW j, NEW s
  PROVE  DependentJobs(st, j, s) \in SUBSET Job
BY DEF DependentJobs

(* A commit keeps the types of the snapshots and of the notifications.     *)
LEMMA CommitType ==
  ASSUME TableTypeOK, NEW js \in SUBSET Job, Commit(js)
  PROVE  /\ current' \in [Job -> SUBSET Worker]
         /\ notified' \subseteq Job
         /\ listening' \in BOOLEAN
BY DEF Commit, TableTypeOK

(* The release of its locks by a transaction keeps the type of the locks.  *)
LEMMA UnlockType ==
  ASSUME TableTypeOK, NEW w, Unlock(w)
  PROVE  lockedBy' \in [Job -> Worker \cup {NoWorker}]
BY DEF Unlock, TableTypeOK

(* The end of a transaction keeps the type of the snapshots.               *)
LEMMA DropSnapshotType ==
  ASSUME TableTypeOK, NEW w, DropSnapshot(w)
  PROVE  current' \in [Job -> SUBSET Worker]
BY DEF DropSnapshot, TableTypeOK

(* An update of a set of rows gives a table of states.                     *)
LEMMA PutType ==
  ASSUME NEW st \in [Job -> States], NEW js, NEW s \in States
  PROVE  Put(st, js, s) \in [Job -> States]
BY DEF Put

-----------------------------------------------------------------------------
(* What the operators of the workers keep in their type.                   *)

(* A worker that goes to its next step keeps its job.                      *)
LEMMA GotoType ==
  ASSUME WorkerTypeOK, NEW w \in Worker, pc[w] # "idle",
         NEW step \in Steps, Goto(w, step)
  PROVE  WorkerTypeOK'
BY DEF WorkerTypeOK, Goto

(* The same when a try is counted.                                         *)
LEMMA GotoTriedType ==
  ASSUME WorkerTypeOK, NEW w \in Worker, pc[w] # "idle",
         NEW step \in Steps, GotoTried(w, step)
  PROVE  WorkerTypeOK'
<1>1. job[w] \in Job /\ tries[w] \in Nat
  BY DEF WorkerTypeOK
<1>2. Bump(job[w], tries[w]) \in Nat
  BY <1>1, BumpType
<1> QED
  BY <1>2 DEF WorkerTypeOK, GotoTried

(* A request that ends leaves its worker idle.                             *)
LEMMA EndRequestType ==
  ASSUME WorkerTypeOK, NEW w \in Worker, EndRequest(w)
  PROVE  WorkerTypeOK'
BY DEF WorkerTypeOK, EndRequest, Steps, Etas

-----------------------------------------------------------------------------
(* The place the runner gives a job is one of its places.                  *)
LEMMA PlaceOnNotifyType ==
  ASSUME RunnerTypeOK, NEW j \in Job, NEW s, NEW e
  PROVE  PlaceOnNotify(j, s, e) \in Places
BY DEF PlaceOnNotify, RunnerTypeOK, Places

(* Every step of the runner keeps the types.                               *)
LEMMA RunnerStepType ==
  ASSUME TableTypeOK, RunnerTypeOK, RunnerStep
  PROVE  TableTypeOK' /\ RunnerTypeOK'
<1>1. CASE Listen
  BY <1>1 DEF Listen, TableTypeOK, RunnerTypeOK, Phases
<1>2. CASE LoadJobs
  <2>1. mem' \in [Job -> Places]
    BY <1>2, PlaceOnNotifyType DEF LoadJobs, Places
  <2>2. memEta' \in [Job -> Etas]
    BY <1>2 DEF LoadJobs, TableTypeOK, Etas
  <2> QED
    BY <1>2, <2>1, <2>2 DEF LoadJobs, TableTypeOK, RunnerTypeOK, Phases, tableVars
<1>3. CASE RequeueDeadJobs
  <2>1. state' \in [Job -> States]
    BY <1>3 DEF RequeueDeadJobs, TableTypeOK, States
  <2>2. retry' \in [Job -> Nat]
    BY <1>3, BumpType DEF RequeueDeadJobs, TableTypeOK
  <2>3. DeadJobs \in SUBSET Job
    BY DEF DeadJobs, TableTypeOK
  <2> QED
    BY <1>3, <2>1, <2>2, <2>3, CommitType
    DEF RequeueDeadJobs, KeepAged, TableTypeOK, RunnerTypeOK, Phases
<1>4. CASE NotificationsDone
  BY <1>4 DEF NotificationsDone, TableTypeOK, RunnerTypeOK, Phases, tableVars
<1>5. CASE WaitNotification
  BY <1>5 DEF WaitNotification, TableTypeOK, RunnerTypeOK, Phases, tableVars
<1>6. ASSUME NEW j \in Job, ProcessNotification(j)
      PROVE  TableTypeOK' /\ RunnerTypeOK'
  <2>1. PlaceOnNotify(j, state[j], eta[j]) \in Places
    BY PlaceOnNotifyType
  <2> QED
    BY <1>6, <2>1 DEF ProcessNotification, TableTypeOK, RunnerTypeOK, Etas
<1>7. ASSUME NEW j \in Job, RunJobs(j)
      PROVE  TableTypeOK' /\ RunnerTypeOK'
  <2>1. mem' \in [Job -> Places] /\ requests' \in [Job -> Nat]
    BY <1>7 DEF RunJobs, SendRequest, RunnerTypeOK, Places
  <2>2. memEta' \in [Job -> Etas]
    BY <1>7 DEF RunJobs, SendRequest, RunnerTypeOK, Etas
  <2> QED
    BY <1>7, <2>1, <2>2, CommitType
    DEF RunJobs, SendRequest, TableTypeOK, RunnerTypeOK, States
<1> QED
  BY <1>1, <1>2, <1>3, <1>4, <1>5, <1>6, <1>7 DEF RunnerStep

-----------------------------------------------------------------------------
(* A worker that takes a request from the queue of requests keeps the      *)
(* types, whether it starts the job or not.                                *)
LEMMA ServeType ==
  ASSUME TypeOK, NEW w \in Worker, NEW j \in Job, Serve(w, j)
  PROVE  TypeOK'
<1> USE DEF TypeOK
<1>1. RunnerTypeOK'
  BY DEF Serve, RunnerTypeOK
<1>2. CASE Start(w, j)
  <2>1. TableTypeOK'
    BY <1>2, CommitType DEF Start, Load, AddLockRecord, TableTypeOK, States
  <2>2. WorkerTypeOK'
    BY <1>2 DEF Start, Load, AddLockRecord, TableTypeOK, WorkerTypeOK, Steps, ParentsDone
  <2> QED
    BY <1>1, <2>1, <2>2
<1>3. CASE Refuse(w, j)
  BY <1>1, <1>3 DEF Refuse, TableTypeOK, WorkerTypeOK, tableVars, workerVars
<1> QED
  BY <1>2, <1>3 DEF Serve

(* Every step of a worker that has started a job keeps the types.          *)
LEMMA WorkerStepType ==
  ASSUME TableTypeOK, WorkerTypeOK, NEW w \in Worker, WorkerStep(w)
  PROVE  TableTypeOK' /\ WorkerTypeOK'
<1>1. CASE LockRead(w)
  <2>1. pc[w] # "idle" /\ WorkerTypeOK'
    BY <1>1, GotoType DEF LockRead, Steps
  <2> QED
    BY <1>1, <2>1 DEF LockRead, TableTypeOK
<1>2. CASE LockGrant(w)
  BY <1>2, GotoType DEF LockGrant, TableTypeOK, Steps
<1>3. CASE PerformDone(w)
  <2>1. pc[w] # "idle" /\ job[w] \in Job /\ tries[w] \in Nat
    BY <1>3 DEF PerformDone, WorkerTypeOK
  <2>2. WorkerTypeOK'
    BY <1>3, <2>1, GotoTriedType DEF PerformDone, Steps
  <2>3. Bump(job[w], tries[w]) \in Nat
    BY <2>1, BumpType
  <2>4. retry' \in [Job -> Nat] /\ state' \in [Job -> States]
    BY <1>3, <2>1, <2>3 DEF PerformDone, TableTypeOK, States
  <2>5. lockedBy' \in [Job -> Worker \cup {NoWorker}]
    BY <1>3, UnlockType DEF PerformDone
  <2> QED
    BY <1>3, <2>1, <2>2, <2>4, <2>5, CommitType DEF PerformDone, KeepAged, TableTypeOK
<1>4. CASE StoreConflict(w)
  BY <1>4, GotoTriedType, UnlockType, DropSnapshotType
  DEF StoreConflict, Abort, TableTypeOK, Steps
<1>5. CASE NothingToDoConflict(w)
  BY <1>5, EndRequestType, UnlockType, DropSnapshotType
  DEF NothingToDoConflict, Abort, TableTypeOK
<1>6. CASE PerformRetry(w)
  BY <1>6, GotoTriedType DEF PerformRetry, TableTypeOK, tableVars, Steps
<1>7. CASE PerformIgnoreRetry(w)
  BY <1>7, GotoType DEF PerformIgnoreRetry, TableTypeOK, tableVars, Steps
<1>8. CASE PerformConflict(w)
  BY <1>8, GotoTriedType, UnlockType, DropSnapshotType
  DEF PerformConflict, Abort, TableTypeOK, Steps
<1>9. CASE PerformError(w)
  BY <1>9, GotoTriedType DEF PerformError, TableTypeOK, tableVars, Steps
<1>10. CASE Postpone(w)
  <2>1. job[w] \in Job /\ tries[w] \in Nat /\ WorkerTypeOK'
    BY <1>10, GotoType DEF Postpone, WorkerTypeOK, Steps
  <2>2. PendingState(parentsDone[w]) \in States
    BY DEF PendingState, States
  <2> QED
    BY <1>10, <2>1, <2>2, CommitType DEF Postpone, KeepAged, TableTypeOK, Etas
<1>11. CASE StoreFailed(w)
  <2>1. job[w] \in Job /\ tries[w] \in Nat /\ etaRead[w] \in Etas /\ WorkerTypeOK'
    BY <1>11, GotoType DEF StoreFailed, WorkerTypeOK, Steps
  <2> QED
    BY <1>11, <2>1, CommitType DEF StoreFailed, KeepAged, TableTypeOK, States
<1>12. CASE Rollback(w)
  BY <1>12, EndRequestType, UnlockType, DropSnapshotType DEF Rollback, Abort, TableTypeOK
<1>13. CASE ReadDependents(w)
  <2>1. DependentJobs(state, job[w], "done") \in SUBSET Job
    BY DependentJobsType
  <2> QED
    BY <1>13, <2>1 DEF ReadDependents, TableTypeOK, WorkerTypeOK, Steps
<1>14. CASE ReleaseDependents(w)
  <2>1. dependents[w] \in SUBSET Job /\ WorkerTypeOK'
    BY <1>14, EndRequestType DEF ReleaseDependents, WorkerTypeOK
  <2>2. state' \in [Job -> States]
    BY <1>14, PutType DEF ReleaseDependents, TableTypeOK, States
  <2> QED
    BY <1>14, <2>1, <2>2, CommitType DEF ReleaseDependents, TableTypeOK
<1>15. CASE DependentsConflict(w)
  BY <1>15, EndRequestType, DropSnapshotType DEF DependentsConflict, TableTypeOK
<1>16. CASE PerformAbort(w)
  BY <1>16, GotoTriedType, UnlockType, DropSnapshotType
  DEF PerformAbort, Abort, TableTypeOK, Steps
<1> QED
  BY <1>1, <1>2, <1>3, <1>4, <1>5, <1>6, <1>7, <1>8, <1>9, <1>10, <1>11, <1>12,
     <1>13, <1>14, <1>15, <1>16 DEF WorkerStep

-----------------------------------------------------------------------------
(* What users do keeps the types.                                          *)
LEMMA UserType ==
  ASSUME TypeOK, NEW j \in Job, User(j)
  PROVE  TypeOK'
<1> USE DEF TypeOK
<1>1. RunnerTypeOK' /\ WorkerTypeOK'
  BY DEF User, RunnerTypeOK, WorkerTypeOK, runnerVars, workerVars
<1>2. CASE SetDone(j)
  <2> DEFINE done == Put(state, {j}, "done")
             ready == DependentJobs(done, j, "done")
  <2>1. done \in [Job -> States]
    BY PutType DEF TableTypeOK, States
  <2>2. ready \in SUBSET Job
    BY DependentJobsType
  <2>3. Put(done, ready, "pending") \in [Job -> States]
    BY <2>1, PutType DEF States
  <2> QED
    BY <1>1, <1>2, <2>2, <2>3, CommitType DEF SetDone, KeepAged, TableTypeOK
<1>3. CASE Cancel(j)
  <2> DEFINE cancelled == Put(state, {j}, "cancelled")
             orphans == DependentJobs(cancelled, j, "cancelled")
  <2>1. cancelled \in [Job -> States]
    BY PutType DEF TableTypeOK, States
  <2>2. orphans \in SUBSET Job
    BY DependentJobsType
  <2>3. Put(cancelled, orphans, "cancelled") \in [Job -> States]
    BY <2>1, PutType DEF States
  <2> QED
    BY <1>1, <1>3, <2>2, <2>3, CommitType DEF Cancel, KeepAged, TableTypeOK
<1>4. CASE Requeue(j)
  <2>1. PendingState(ParentsDone(j)) \in States
    BY DEF PendingState, States
  <2> QED
    BY <1>1, <1>4, <2>1, CommitType DEF Requeue, KeepAged, TableTypeOK
<1> QED
  BY <1>2, <1>3, <1>4 DEF User

(* Failures keep the types.                                                *)
LEMMA FaultType ==
  ASSUME TypeOK, Fault
  PROVE  TypeOK'
<1> USE DEF TypeOK
<1>1. CASE RunnerFailure /\ UNCHANGED workerVars
  BY <1>1 DEF RunnerFailure, CloseDatabases, TableTypeOK, RunnerTypeOK, WorkerTypeOK, workerVars,
              Places, Etas, Phases
<1>2. ASSUME NEW j \in Job, LoseRequest(j), UNCHANGED workerVars
      PROVE  TypeOK'
  BY <1>2 DEF LoseRequest, TableTypeOK, RunnerTypeOK, WorkerTypeOK, workerVars, tableVars
<1>3. ASSUME NEW w \in Worker, WorkerCrash(w), UNCHANGED runnerVars
      PROVE  TypeOK'
  <2>1. RunnerTypeOK'
    BY <1>3 DEF RunnerTypeOK, runnerVars
  <2> QED
    BY <1>3, <2>1, EndRequestType, UnlockType, DropSnapshotType
    DEF WorkerCrash, Abort, TableTypeOK
<1> QED
  BY <1>1, <1>2, <1>3 DEF Fault

(* So does the passing of time.                                            *)
LEMMA TimeType ==
  ASSUME TypeOK, NEW j \in Job, AgeStep(j) \/ EtaStep(j)
  PROVE  TypeOK'
<1>1. CASE AgeStep(j)
  BY <1>1 DEF AgeStep, Age, TypeOK, TableTypeOK, RunnerTypeOK, WorkerTypeOK,
              runnerVars, workerVars
<1>2. CASE EtaStep(j)
  BY <1>2 DEF EtaStep, EtaComes, EtaReadComes, TypeOK, TableTypeOK, RunnerTypeOK,
              WorkerTypeOK, Etas
<1> QED
  BY <1>1, <1>2

-----------------------------------------------------------------------------
(* The variables have their types in the initial state ...                 *)
LEMMA InitType == Init => TypeOK
<1> SUFFICES ASSUME Init
             PROVE  TypeOK
  OBVIOUS
<1>1. TableTypeOK
  BY DEF Init, TableInit, TableTypeOK, PendingState, States, Etas
<1>2. RunnerTypeOK
  BY DEF Init, RunnerInit, RunnerTypeOK, Phases, Places, Etas
<1>3. WorkerTypeOK
  BY DEF Init, WorkerInit, WorkerTypeOK, Steps, Etas
<1> QED
  BY <1>1, <1>2, <1>3 DEF TypeOK

(* ... and every step keeps them.                                          *)
LEMMA NextType == TypeOK /\ [Next]_vars => TypeOK'
<1> SUFFICES ASSUME TypeOK, [Next]_vars
             PROVE  TypeOK'
  OBVIOUS
<1>1. CASE Runner
  <2>1. TableTypeOK' /\ RunnerTypeOK'
    BY <1>1, RunnerStepType DEF Runner, TypeOK
  <2> QED
    BY <1>1, <2>1 DEF Runner, TypeOK, WorkerTypeOK, workerVars
<1>2. ASSUME NEW w \in Worker, Perform(w)
      PROVE  TypeOK'
  <2>1. TableTypeOK' /\ WorkerTypeOK'
    BY <1>2, WorkerStepType DEF Perform, TypeOK
  <2> QED
    BY <1>2, <2>1 DEF Perform, TypeOK, RunnerTypeOK, runnerVars
<1>3. ASSUME NEW w \in Worker, NEW j \in Job, Serve(w, j)
      PROVE  TypeOK'
  BY <1>3, ServeType
<1>4. ASSUME NEW j \in Job, AgeStep(j) \/ EtaStep(j) \/ User(j)
      PROVE  TypeOK'
  BY <1>4, TimeType, UserType
<1>5. CASE Fault
  BY <1>5, FaultType
<1>6. CASE UNCHANGED vars
  BY <1>6 DEF vars, TypeOK, TableTypeOK, RunnerTypeOK, WorkerTypeOK,
              tableVars, runnerVars, workerVars
<1> QED
  BY <1>1, <1>2, <1>3, <1>4, <1>5, <1>6 DEF Next

(* Type correctness: every variable of the job queue keeps its type.       *)
THEOREM TypeCorrect == Spec => []TypeOK
BY InitType, NextType, PTL DEF Spec

-----------------------------------------------------------------------------
(* The inductive invariants.                                                *)

(* A worker performs a job with the job's row of queue_job_lock locked.    *)
LockInv == \A w \in Worker : pc[w] = "running" => lockedBy[job[w]] = w

(* The row of a job is the started one as long as the snapshot Job.lock    *)
(* took of it is current.                                                  *)
SnapshotInv ==
  \A w \in Worker :
    pc[w] \in {"locking", "running"} /\ w \in current[job[w]]
      => state[job[w]] = "started"

(* A runner that is not down listens.                                      *)
ListenInv == listening <=> phase # "down"

(* A runner that has loaded the jobs keeps a running place for every busy  *)
(* one.                                                                    *)
Loaded == phase \in {"requeue", "notify", "run"}

BusyJobs == {j \in Job : state[j] \in Busy}

RunningJobs == {j \in Job : mem[j] = "running"}

BusyKnownInv == Loaded => BusyJobs \subseteq RunningJobs

(* ... and no more running places than the channel has capacity for.       *)
PlacesInv == Loaded => Cardinality(RunningJobs) <= Capacity

(* Until then its channels are empty.                                      *)
EmptyInv == ~ Loaded => \A j \in Job : mem[j] = "none"

CapacityInv == CapacityRespected /\ BusyKnownInv /\ PlacesInv /\ EmptyInv

-----------------------------------------------------------------------------
(* The steps of Next, to reason by cases on them.                          *)
LEMMA NextCases ==
  ASSUME [Next]_vars, NEW ACTION P,
         Runner => P,
         \A w \in Worker : Perform(w) => P,
         \A w \in Worker, j \in Job : Serve(w, j) => P,
         \A j \in Job : AgeStep(j) => P,
         \A j \in Job : EtaStep(j) => P,
         \A j \in Job : User(j) => P,
         RunnerFailure /\ UNCHANGED workerVars => P,
         \A j \in Job : LoseRequest(j) /\ UNCHANGED workerVars => P,
         \A w \in Worker : WorkerCrash(w) /\ UNCHANGED runnerVars => P,
         UNCHANGED vars => P
  PROVE  P
BY DEF Next, Fault

-----------------------------------------------------------------------------
(* A worker gets the lock of a job only when nobody holds it (FOR UPDATE), *)
(* and gives it back when it leaves Job.perform or later.                  *)
LEMMA LockInvStep ==
  ASSUME TypeOK, LockInv, [Next]_vars
  PROVE  LockInv'
<1> USE WorkerAssumption DEF TypeOK, LockInv
<1>1. Runner => LockInv'
  BY DEF Runner, RunnerStep, Listen, LoadJobs, RequeueDeadJobs, NotificationsDone,
         WaitNotification, ProcessNotification, RunJobs, workerVars, tableVars
<1>2. ASSUME NEW v \in Worker, Perform(v)
      PROVE  LockInv'
  <2>1. CASE LockRead(v)
    BY <2>1 DEF LockRead, Goto, WorkerTypeOK
  <2>2. CASE LockGrant(v)
    BY <2>2 DEF LockGrant, Goto, WorkerTypeOK, TableTypeOK
  <2>3. CASE PerformDone(v)
    BY <2>3 DEF PerformDone, GotoTried, Unlock, WorkerTypeOK
  <2>4. CASE PerformRetry(v) \/ PerformError(v)
    BY <2>4 DEF PerformRetry, PerformError, GotoTried, WorkerTypeOK, tableVars
  <2>5. CASE PerformIgnoreRetry(v)
    BY <2>5 DEF PerformIgnoreRetry, Goto, WorkerTypeOK, tableVars
  <2>6. CASE Postpone(v) \/ StoreFailed(v)
    BY <2>6 DEF Postpone, StoreFailed, Goto, WorkerTypeOK
  <2>7. CASE NothingToDoConflict(v) \/ Rollback(v)
    BY <2>7 DEF NothingToDoConflict, Rollback, EndRequest, Abort, Unlock, WorkerTypeOK,
                TableTypeOK
  <2>8. CASE ReadDependents(v)
    BY <2>8 DEF ReadDependents, WorkerTypeOK
  <2>9. CASE ReleaseDependents(v) \/ DependentsConflict(v)
    BY <2>9 DEF ReleaseDependents, DependentsConflict, EndRequest, WorkerTypeOK
  <2>10. CASE StoreConflict(v) \/ PerformConflict(v) \/ PerformAbort(v)
    BY <2>10 DEF StoreConflict, PerformConflict, PerformAbort, GotoTried, Abort, Unlock,
                 WorkerTypeOK, TableTypeOK
  <2> QED
    BY <1>2, <2>1, <2>2, <2>3, <2>4, <2>5, <2>6, <2>7, <2>8, <2>9, <2>10
    DEF Perform, WorkerStep
<1>3. ASSUME NEW v \in Worker, NEW j \in Job, Serve(v, j)
      PROVE  LockInv'
  BY <1>3 DEF Serve, Start, Load, AddLockRecord, Refuse, WorkerTypeOK, workerVars, tableVars
<1>4. ASSUME NEW j \in Job, AgeStep(j) \/ EtaStep(j) \/ User(j)
      PROVE  LockInv'
  BY <1>4 DEF AgeStep, Age, EtaStep, EtaComes, EtaReadComes, User, SetDone, Cancel, Requeue,
              workerVars
<1>5. RunnerFailure /\ UNCHANGED workerVars => LockInv'
  BY DEF RunnerFailure, CloseDatabases, workerVars
<1>6. ASSUME NEW j \in Job, LoseRequest(j), UNCHANGED workerVars
      PROVE  LockInv'
  BY <1>6 DEF LoseRequest, workerVars, tableVars
<1>7. ASSUME NEW v \in Worker, WorkerCrash(v)
      PROVE  LockInv'
  BY <1>7 DEF WorkerCrash, EndRequest, Abort, Unlock, WorkerTypeOK, TableTypeOK
<1>8. UNCHANGED vars => LockInv'
  BY DEF vars, workerVars, tableVars
<1> QED
  BY <1>1, <1>2, <1>3, <1>4, <1>5, <1>6, <1>7, <1>8, NextCases

(* LockInv holds in every state.                                           *)
LEMMA LockInvariant == Spec => []LockInv
<1>1. Init => LockInv
  BY DEF Init, WorkerInit, LockInv
<1> QED
  BY <1>1, LockInvStep, TypeCorrect, PTL DEF Spec

(* Two workers never perform the same job together: the lock row of the    *)
(* job would be locked by both of them.                                    *)
THEOREM MutualExclusionHolds == Spec => []MutualExclusion
<1>1. LockInv => MutualExclusion
  BY DEF LockInv, MutualExclusion
<1> QED
  BY <1>1, LockInvariant, PTL

(* Only requeue_dead_jobs takes the runner to its notifications.           *)
LEMMA OnlyRequeueNotifies ==
  ASSUME [Next]_vars, phase = "requeue", phase' = "notify"
  PROVE  RequeueDeadJobs
<1>1. Runner => RequeueDeadJobs
  BY DEF Runner, RunnerStep, Listen, LoadJobs, NotificationsDone, WaitNotification,
         ProcessNotification, RunJobs
<1>2. \A v \in Worker : ~ Perform(v)
  BY DEF Perform, runnerVars
<1>3. \A v \in Worker, j \in Job : ~ Serve(v, j)
  BY DEF Serve
<1>4. \A j \in Job : ~ AgeStep(j) /\ ~ EtaStep(j) /\ ~ User(j)
  BY DEF AgeStep, EtaStep, EtaComes, User, runnerVars
<1>5. ~ RunnerFailure /\ \A j \in Job : ~ LoseRequest(j)
  BY DEF RunnerFailure, CloseDatabases, LoseRequest
<1>6. UNCHANGED runnerVars => FALSE
  BY DEF runnerVars
<1>7. UNCHANGED vars => FALSE
  BY DEF vars, runnerVars
<1> QED
  BY <1>1, <1>2, <1>3, <1>4, <1>5, <1>6, <1>7, NextCases

(* requeue_dead_jobs skips the jobs that are being performed: their lock   *)
(* rows are locked.                                                        *)
THEOREM PerformedNotDead == Spec => NotDeadWhilePerformed
<1> DEFINE Kept == phase = "requeue" /\ phase' = "notify" =>
                     \A w \in Worker : pc[w] = "running" => state'[job[w]] = state[job[w]]
<1>1. TypeOK /\ LockInv /\ [Next]_vars => [Kept]_vars
  <2> SUFFICES ASSUME TypeOK, LockInv, [Next]_vars, phase = "requeue", phase' = "notify",
                      NEW w \in Worker, pc[w] = "running"
               PROVE  state'[job[w]] = state[job[w]]
    OBVIOUS
  <2>1. RequeueDeadJobs
    BY OnlyRequeueNotifies
  <2>2. job[w] \in Job /\ lockedBy[job[w]] # NoWorker
    BY WorkerAssumption DEF TypeOK, WorkerTypeOK, LockInv
  <2>3. job[w] \notin DeadJobs
    BY <2>2 DEF DeadJobs
  <2> QED
    BY <2>1, <2>2, <2>3 DEF RequeueDeadJobs
<1> QED
  BY <1>1, LockInvariant, TypeCorrect, PTL DEF Spec, NotDeadWhilePerformed

-----------------------------------------------------------------------------
(* Whoever changes the state of a row tells a listening runner, and makes  *)
(* every snapshot of the row old.                                          *)
RowsTold ==
  \A j \in Job : state'[j] # state[j] =>
                   current'[j] = {} /\ (listening' => j \in notified')

(* The trigger queue_job_notify covers every change of a state.            *)
LEMMA RowsToldStep ==
  ASSUME TypeOK, [Next]_vars
  PROVE  RowsTold
<1> USE DEF TypeOK, TableTypeOK, RowsTold
<1>1. Runner => RowsTold
  BY DEF Runner, RunnerStep, Listen, LoadJobs, RequeueDeadJobs, NotificationsDone,
         WaitNotification, ProcessNotification, RunJobs, Commit, tableVars
<1>2. ASSUME NEW w \in Worker, Perform(w)
      PROVE  RowsTold
  <2>1. CASE PerformDone(w) \/ Postpone(w) \/ StoreFailed(w)
    BY <2>1 DEF PerformDone, Postpone, StoreFailed, Commit
  <2>2. CASE ReleaseDependents(w)
    BY <2>2 DEF ReleaseDependents, Commit, Put
  <2>3. (\/ LockRead(w) \/ LockGrant(w) \/ StoreConflict(w) \/ NothingToDoConflict(w)
         \/ PerformRetry(w) \/ PerformIgnoreRetry(w) \/ PerformConflict(w)
         \/ PerformError(w) \/ PerformAbort(w) \/ Rollback(w) \/ ReadDependents(w)
         \/ DependentsConflict(w))
        => UNCHANGED state
    BY DEF LockRead, LockGrant, StoreConflict, NothingToDoConflict, PerformRetry,
           PerformIgnoreRetry, PerformConflict, PerformError, PerformAbort, Rollback,
           ReadDependents, DependentsConflict, Abort, tableVars
  <2> QED
    BY <1>2, <2>1, <2>2, <2>3 DEF Perform, WorkerStep
<1>3. ASSUME NEW w \in Worker, NEW j \in Job, Serve(w, j)
      PROVE  RowsTold
  BY <1>3 DEF Serve, Start, Load, AddLockRecord, Refuse, Commit, tableVars
<1>4. ASSUME NEW j \in Job, User(j)
      PROVE  RowsTold
  BY <1>4 DEF User, SetDone, Cancel, Requeue, Commit, Put
<1>5. ASSUME NEW j \in Job, AgeStep(j) \/ EtaStep(j)
      PROVE  RowsTold
  BY <1>5 DEF AgeStep, Age, EtaStep, EtaComes
<1>6. (\/ RunnerFailure \/ (\E j \in Job : LoseRequest(j))
       \/ (\E w \in Worker : WorkerCrash(w)) \/ UNCHANGED vars) => UNCHANGED state
  BY DEF RunnerFailure, CloseDatabases, LoseRequest, WorkerCrash, Abort, vars, tableVars
<1>7. UNCHANGED state => RowsTold
  OBVIOUS
<1> QED
  BY <1>1, <1>2, <1>3, <1>4, <1>5, <1>6, <1>7, NextCases

(* A snapshot becomes current only in LockRead, which sees a started row,  *)
(* and in ReadDependents, for a worker that performs no more.              *)
LEMMA SnapshotInvStep ==
  ASSUME TypeOK, SnapshotInv, [Next]_vars
  PROVE  SnapshotInv'
<1> USE DEF TypeOK, TableTypeOK, WorkerTypeOK, SnapshotInv
<1>1. RowsTold
  BY RowsToldStep
<1>2. ASSUME UNCHANGED workerVars,
             \A j \in Job : current'[j] \subseteq current[j]
      PROVE  SnapshotInv'
  BY <1>1, <1>2 DEF RowsTold, workerVars
<1>3. Runner => SnapshotInv'
  <2>1. Runner => \A j \in Job : current'[j] \subseteq current[j]
    BY DEF Runner, RunnerStep, Listen, LoadJobs, RequeueDeadJobs, NotificationsDone,
           WaitNotification, ProcessNotification, RunJobs, Commit, tableVars
  <2> QED
    BY <1>2, <2>1 DEF Runner
<1>4. ASSUME NEW v \in Worker, Perform(v)
      PROVE  SnapshotInv'
  <2>1. CASE LockRead(v)
    BY <2>1 DEF LockRead, Goto
  <2>2. CASE LockGrant(v) \/ PerformIgnoreRetry(v)
    BY <2>2 DEF LockGrant, PerformIgnoreRetry, Goto, tableVars
  <2>3. CASE PerformDone(v)
    BY <1>1, <2>3 DEF PerformDone, GotoTried, Commit, RowsTold
  <2>4. CASE PerformRetry(v) \/ PerformError(v)
    BY <2>4 DEF PerformRetry, PerformError, GotoTried, tableVars
  <2>5. CASE Postpone(v) \/ StoreFailed(v)
    BY <1>1, <2>5 DEF Postpone, StoreFailed, Goto, Commit, RowsTold
  <2>6. CASE NothingToDoConflict(v) \/ Rollback(v) \/ DependentsConflict(v)
    BY <2>6 DEF NothingToDoConflict, Rollback, DependentsConflict, EndRequest, Abort,
                DropSnapshot
  <2>7. CASE ReadDependents(v)
    BY <2>7 DEF ReadDependents
  <2>8. CASE ReleaseDependents(v)
    BY <1>1, <2>8 DEF ReleaseDependents, EndRequest, Commit, RowsTold
  <2>9. CASE StoreConflict(v) \/ PerformConflict(v) \/ PerformAbort(v)
    BY <2>9 DEF StoreConflict, PerformConflict, PerformAbort, GotoTried, Abort, DropSnapshot
  <2> QED
    BY <1>4, <2>1, <2>2, <2>3, <2>4, <2>5, <2>6, <2>7, <2>8, <2>9 DEF Perform, WorkerStep
<1>5. ASSUME NEW v \in Worker, NEW j \in Job, Serve(v, j)
      PROVE  SnapshotInv'
  <2>1. CASE Start(v, j)
    BY <1>1, <2>1 DEF Start, Load, AddLockRecord, Commit, RowsTold
  <2>2. CASE Refuse(v, j)
    BY <2>2 DEF Refuse, workerVars, tableVars
  <2> QED
    BY <1>5, <2>1, <2>2 DEF Serve
<1>6. ASSUME NEW j \in Job, AgeStep(j) \/ EtaStep(j) \/ User(j)
      PROVE  SnapshotInv'
  <2>1. \A i \in Job : current'[i] \subseteq current[i]
    BY <1>6 DEF AgeStep, Age, EtaStep, EtaComes, User, SetDone, Cancel, Requeue, Commit
  <2>2. CASE EtaStep(j)
    BY <2>2 DEF EtaStep, EtaComes, EtaReadComes
  <2> QED
    BY <1>2, <1>6, <2>1, <2>2 DEF AgeStep, User
<1>7. RunnerFailure /\ UNCHANGED workerVars => SnapshotInv'
  BY <1>2 DEF RunnerFailure, CloseDatabases
<1>8. ASSUME NEW j \in Job, LoseRequest(j), UNCHANGED workerVars
      PROVE  SnapshotInv'
  BY <1>2, <1>8 DEF LoseRequest, tableVars
<1>9. ASSUME NEW v \in Worker, WorkerCrash(v)
      PROVE  SnapshotInv'
  BY <1>9 DEF WorkerCrash, EndRequest, Abort, DropSnapshot
<1>10. UNCHANGED vars => SnapshotInv'
  BY <1>2 DEF vars, tableVars
<1> QED
  BY <1>3, <1>4, <1>5, <1>6, <1>7, <1>8, <1>9, <1>10, NextCases

(* SnapshotInv holds in every state.                                       *)
LEMMA SnapshotInvariant == Spec => []SnapshotInv
<1>1. Init => SnapshotInv
  BY DEF Init, WorkerInit, SnapshotInv
<1> QED
  BY <1>1, SnapshotInvStep, TypeCorrect, PTL DEF Spec

(* "done" is only committed over the row the worker has started: if its    *)
(* snapshot of the row is current, the row is the started one, and if not  *)
(* the update fails.                                                       *)
THEOREM DoneOverStarted == Spec => DoneOnlyWhileStarted
<1> DEFINE Over == \A w \in Worker :
                     pc[w] = "running" /\ pc'[w] = "depends" => state[job[w]] = "started"
<1>1. TypeOK /\ SnapshotInv /\ [Next]_vars => [Over]_vars
  <2> SUFFICES ASSUME TypeOK, SnapshotInv, [Next]_vars,
                      NEW w \in Worker, pc[w] = "running", pc'[w] = "depends"
               PROVE  w \in current[job[w]]
    BY DEF SnapshotInv
  <2> USE DEF TypeOK, WorkerTypeOK
  <2>1. ASSUME NEW v \in Worker, Perform(v)
        PROVE  w \in current[job[w]]
    BY <2>1 DEF Perform, WorkerStep, LockRead, LockGrant, PerformDone, StoreConflict,
                NothingToDoConflict, PerformRetry, PerformIgnoreRetry, PerformConflict,
                PerformError, PerformAbort, Postpone, StoreFailed, Rollback, ReadDependents,
                ReleaseDependents, DependentsConflict, Goto, GotoTried, EndRequest
  <2>2. \A v \in Worker, j \in Job : ~ Serve(v, j)
    BY DEF Serve, Start, Load, AddLockRecord, Refuse, workerVars
  <2>3. \A v \in Worker : ~ WorkerCrash(v)
    BY DEF WorkerCrash, EndRequest
  <2>4. pc' # pc
    OBVIOUS
  <2> QED
    BY <2>1, <2>2, <2>3, <2>4, NextCases
    DEF Runner, AgeStep, EtaStep, EtaReadComes, User, vars, workerVars
<1> QED
  BY <1>1, SnapshotInvariant, TypeCorrect, PTL DEF Spec, DoneOnlyWhileStarted

-----------------------------------------------------------------------------
(* Sets of jobs are finite.                                                *)
LEMMA JobSubset ==
  ASSUME NEW T \in SUBSET Job, NEW S \in SUBSET T
  PROVE  /\ IsFiniteSet(T)
         /\ Cardinality(T) \in Nat
         /\ Cardinality(S) \in Nat
         /\ Cardinality(S) <= Cardinality(T)
<1>1. IsFiniteSet(T)
  BY JobAssumption, FS_Subset
<1>2. IsFiniteSet(S) /\ Cardinality(S) <= Cardinality(T)
  BY <1>1, FS_Subset
<1> QED
  BY <1>1, <1>2, FS_CardinalityType

(* What every step but the runner's does to busy jobs: they become fewer,  *)
(* and the channels stay as they are, or the runner stops.                 *)
LEMMA BusyOnlyByRunner ==
  ASSUME TypeOK, [Next]_vars
  PROVE  \/ Runner
         \/ /\ BusyJobs' \subseteq BusyJobs
            /\ \/ UNCHANGED <<phase, mem>>
               \/ phase' = "down" /\ mem' = [j \in Job |-> "none"]
<1> DEFINE Fewer == /\ BusyJobs' \subseteq BusyJobs
                    /\ \/ UNCHANGED <<phase, mem>>
                       \/ phase' = "down" /\ mem' = [j \in Job |-> "none"]
<1> USE DEF TypeOK, TableTypeOK, WorkerTypeOK, BusyJobs, Busy
<1>1. ASSUME NEW w \in Worker, Perform(w)
      PROVE  Fewer
  <2>1. CASE PerformDone(w) \/ Postpone(w) \/ StoreFailed(w)
    BY <1>1, <2>1 DEF Perform, PerformDone, Postpone, StoreFailed, PendingState, runnerVars
  <2>2. CASE ReleaseDependents(w)
    BY <1>1, <2>2 DEF Perform, ReleaseDependents, Put, runnerVars
  <2>3. CASE \/ LockRead(w) \/ LockGrant(w) \/ StoreConflict(w) \/ NothingToDoConflict(w)
             \/ PerformRetry(w) \/ PerformIgnoreRetry(w) \/ PerformConflict(w)
             \/ PerformError(w) \/ PerformAbort(w) \/ Rollback(w) \/ ReadDependents(w)
             \/ DependentsConflict(w)
    BY <1>1, <2>3 DEF Perform, LockRead, LockGrant, StoreConflict, NothingToDoConflict,
           PerformRetry, PerformIgnoreRetry, PerformConflict, PerformError, PerformAbort,
           Rollback, ReadDependents, DependentsConflict, Abort, tableVars, runnerVars
  <2> QED
    BY <1>1, <2>1, <2>2, <2>3 DEF Perform, WorkerStep
<1>2. ASSUME NEW w \in Worker, NEW j \in Job, Serve(w, j)
      PROVE  Fewer
  BY <1>2 DEF Serve, Start, Load, AddLockRecord, Refuse, tableVars
<1>3. ASSUME NEW j \in Job, User(j)
      PROVE  Fewer
  BY <1>3 DEF User, SetDone, Cancel, Requeue, Put, PendingState, runnerVars
<1>4. ASSUME NEW j \in Job, AgeStep(j) \/ EtaStep(j)
      PROVE  Fewer
  BY <1>4 DEF AgeStep, Age, EtaStep, EtaComes, runnerVars
<1>5. RunnerFailure => Fewer
  BY DEF RunnerFailure, CloseDatabases
<1>6. ((\E j \in Job : LoseRequest(j)) \/ UNCHANGED vars) => Fewer
  BY DEF LoseRequest, vars, runnerVars, tableVars
<1>7. ASSUME NEW w \in Worker, WorkerCrash(w), UNCHANGED runnerVars
      PROVE  Fewer
  BY <1>7 DEF WorkerCrash, Abort, runnerVars
<1> QED
  BY <1>1, <1>2, <1>3, <1>4, <1>5, <1>6, <1>7, NextCases

(* The runner adds a busy job only in run_jobs, after has_capacity, and    *)
(* never takes the running place of a busy job away.                       *)
LEMMA CapacityInvStep ==
  ASSUME TypeOK, CapacityInv, [Next]_vars
  PROVE  CapacityInv'
<1> USE DEF TypeOK, CapacityInv, CapacityRespected, BusyKnownInv, PlacesInv, EmptyInv
<1>1. ASSUME BusyJobs' \subseteq BusyJobs
      PROVE  CapacityRespected'
  <2>1. BusyJobs \in SUBSET Job
    BY DEF BusyJobs
  <2>2. Cardinality(BusyJobs') \in Nat /\ Cardinality(BusyJobs) \in Nat
        /\ Cardinality(BusyJobs') <= Cardinality(BusyJobs)
    BY <1>1, <2>1, JobSubset
  <2> QED
    BY <2>2, CapacityAssumption DEF BusyJobs
<1>2. ASSUME BusyJobs' \subseteq BusyJobs, UNCHANGED <<phase, mem>>
      PROVE  CapacityInv'
  BY <1>1, <1>2 DEF Loaded, RunningJobs
<1>3. ASSUME BusyJobs' \subseteq BusyJobs, phase' = "down", mem' = [j \in Job |-> "none"]
      PROVE  CapacityInv'
  BY <1>1, <1>3 DEF Loaded
<1>4. CASE Runner
  <2>1. CASE Listen
    BY <1>1, <2>1 DEF Listen, Loaded, BusyJobs
  <2>2. CASE LoadJobs
    <3>1. UNCHANGED state /\ BusyJobs' = BusyJobs
      BY <2>2 DEF LoadJobs, tableVars, BusyJobs
    <3>2. ~ Loaded /\ Loaded'
      BY <2>2 DEF LoadJobs, Loaded
    <3>3. RunningJobs' = BusyJobs
      BY <2>2, <3>2 DEF LoadJobs, RunningJobs, BusyJobs, Busy, NotDone, PlaceOnNotify,
                        TableTypeOK, States
    <3> QED
      BY <1>1, <3>1, <3>2, <3>3 DEF BusyJobs
  <2>3. CASE RequeueDeadJobs
    <3>1. BusyJobs' \subseteq BusyJobs
      BY <2>3 DEF RequeueDeadJobs, BusyJobs, Busy
    <3> QED
      BY <1>1, <2>3, <3>1 DEF RequeueDeadJobs, Loaded, RunningJobs
  <2>4. CASE NotificationsDone \/ WaitNotification
    BY <1>1, <2>4 DEF NotificationsDone, WaitNotification, tableVars, Loaded, BusyJobs,
                      RunningJobs
  <2>5. ASSUME NEW j \in Job, ProcessNotification(j)
        PROVE  CapacityInv'
    <3>1. BusyJobs' = BusyJobs /\ Loaded /\ Loaded'
      BY <2>5 DEF ProcessNotification, BusyJobs, Loaded
    <3>2. RunningJobs' \subseteq RunningJobs
      BY <2>5, <3>1 DEF ProcessNotification, PlaceOnNotify, RunningJobs, BusyJobs, Busy,
                        RunnerTypeOK
    <3>3. BusyJobs \subseteq RunningJobs'
      BY <2>5, <3>1 DEF ProcessNotification, PlaceOnNotify, RunningJobs, BusyJobs, Busy,
                        RunnerTypeOK
    <3>4. RunningJobs \in SUBSET Job
      BY DEF RunningJobs
    <3>5. /\ Cardinality(RunningJobs) \in Nat /\ Cardinality(RunningJobs') \in Nat
          /\ Cardinality(RunningJobs') <= Cardinality(RunningJobs)
      BY <3>2, <3>4, JobSubset
    <3> QED
      BY <1>1, <3>1, <3>3, <3>5, CapacityAssumption
  <2>6. ASSUME NEW j \in Job, RunJobs(j)
        PROVE  CapacityInv'
    <3>1. Loaded /\ Loaded'
      BY <2>6 DEF RunJobs, SendRequest, Loaded
    <3>2. RunningJobs' = RunningJobs \cup {j}
      BY <2>6 DEF RunJobs, SendRequest, RunningJobs, RunnerTypeOK
    <3>3. BusyJobs' \subseteq RunningJobs' /\ RunningJobs' \in SUBSET Job
      BY <2>6, <3>1, <3>2 DEF RunJobs, SendRequest, BusyJobs, RunningJobs, TableTypeOK
    <3>4. RunningJobs \in SUBSET Job /\ Cardinality(RunningJobs) < Capacity
      BY <2>6 DEF RunJobs, SendRequest, HasCapacity, RunningJobs
    <3>5. Cardinality(RunningJobs') <= Capacity
      <4>1. IsFiniteSet(RunningJobs) /\ Cardinality(RunningJobs) \in Nat
        BY <3>4, JobSubset
      <4>2. Cardinality(RunningJobs \cup {j}) <= Cardinality(RunningJobs) + 1
        BY <4>1, FS_AddElement
      <4>3. Cardinality(RunningJobs \cup {j}) \in Nat
        BY <3>2, <3>3, JobSubset
      <4> QED
        BY <3>2, <3>4, <4>1, <4>2, <4>3, CapacityAssumption
    <3>6. /\ Cardinality(BusyJobs') \in Nat /\ Cardinality(RunningJobs') \in Nat
          /\ Cardinality(BusyJobs') <= Cardinality(RunningJobs')
      BY <3>3, JobSubset
    <3>7. Cardinality(BusyJobs') <= Capacity
      BY <3>5, <3>6, CapacityAssumption
    <3> QED
      BY <3>1, <3>3, <3>5, <3>7 DEF BusyJobs
  <2> QED
    BY <1>4, <2>1, <2>2, <2>3, <2>4, <2>5, <2>6 DEF Runner, RunnerStep
<1> QED
  BY <1>2, <1>3, <1>4, BusyOnlyByRunner

(* CapacityInv holds in every state.                                       *)
LEMMA CapacityInvariant == Spec => []CapacityInv
<1>1. Init => CapacityInv
  <2> SUFFICES ASSUME Init
               PROVE  CapacityInv
    OBVIOUS
  <2>1. {j \in Job : state[j] \in Busy} = {}
    BY DEF Init, TableInit, PendingState, Busy
  <2>2. CapacityRespected
    BY <2>1, FS_EmptySet, CapacityAssumption DEF CapacityRespected
  <2> QED
    BY <2>2 DEF Init, RunnerInit, CapacityInv, BusyKnownInv, PlacesInv, EmptyInv, Loaded
<1> QED
  BY <1>1, CapacityInvStep, TypeCorrect, PTL DEF Spec

(* The busy jobs never exceed the capacity of the channel: they all have a *)
(* running place in the channels of the runner, and a runner that restarts *)
(* finds them in the table.                                                *)
THEOREM CapacityHolds == Spec => []CapacityRespected
BY CapacityInvariant, PTL DEF CapacityInv

-----------------------------------------------------------------------------
(* A connection listens from initialize_databases to its loss.             *)
LEMMA ListenInvStep ==
  ASSUME ListenInv, [Next]_vars
  PROVE  ListenInv'
<1> USE DEF ListenInv
<1>1. Runner => ListenInv'
  BY DEF Runner, RunnerStep, Listen, LoadJobs, RequeueDeadJobs, NotificationsDone,
         WaitNotification, ProcessNotification, RunJobs, Commit, tableVars
<1>2. ASSUME NEW w \in Worker, Perform(w)
      PROVE  ListenInv'
  BY <1>2 DEF Perform, WorkerStep, LockRead, LockGrant, PerformDone, StoreConflict,
              NothingToDoConflict, PerformRetry, PerformIgnoreRetry, PerformConflict,
              PerformError, PerformAbort, Postpone, StoreFailed, Rollback, ReadDependents,
              ReleaseDependents, DependentsConflict, Abort, Commit, tableVars, runnerVars
<1>3. ASSUME NEW w \in Worker, NEW j \in Job, Serve(w, j)
      PROVE  ListenInv'
  BY <1>3 DEF Serve, Start, Load, AddLockRecord, Refuse, Commit, tableVars
<1>4. ASSUME NEW j \in Job, AgeStep(j) \/ EtaStep(j) \/ User(j)
      PROVE  ListenInv'
  BY <1>4 DEF AgeStep, Age, EtaStep, EtaComes, User, SetDone, Cancel, Requeue, Commit,
              runnerVars
<1>5. RunnerFailure => ListenInv'
  BY DEF RunnerFailure, CloseDatabases
<1>6. ((\E j \in Job : LoseRequest(j)) \/ UNCHANGED vars) => ListenInv'
  BY DEF LoseRequest, vars, tableVars, runnerVars
<1>7. ASSUME NEW w \in Worker, WorkerCrash(w), UNCHANGED runnerVars
      PROVE  ListenInv'
  BY <1>7 DEF WorkerCrash, Abort, runnerVars
<1> QED
  BY <1>1, <1>2, <1>3, <1>4, <1>5, <1>6, <1>7, NextCases

(* Only the runner takes notifications from its connection.                *)
LEMMA NotificationsKept ==
  ASSUME TypeOK, [Next]_vars
  PROVE  Runner \/ phase' = "down" \/ (notified \subseteq notified' /\ UNCHANGED <<phase, mem>>)
<1> DEFINE Kept == phase' = "down" \/ (notified \subseteq notified' /\ UNCHANGED <<phase, mem>>)
<1>1. ASSUME NEW w \in Worker, Perform(w)
      PROVE  Kept
  BY <1>1 DEF Perform, WorkerStep, LockRead, LockGrant, PerformDone, StoreConflict,
              NothingToDoConflict, PerformRetry, PerformIgnoreRetry, PerformConflict,
              PerformError, PerformAbort, Postpone, StoreFailed, Rollback, ReadDependents,
              ReleaseDependents, DependentsConflict, Abort, Commit, tableVars, runnerVars
<1>2. ASSUME NEW w \in Worker, NEW j \in Job, Serve(w, j)
      PROVE  Kept
  BY <1>2 DEF Serve, Start, Load, AddLockRecord, Refuse, Commit, tableVars
<1>3. ASSUME NEW j \in Job, AgeStep(j) \/ EtaStep(j) \/ User(j)
      PROVE  Kept
  BY <1>3 DEF AgeStep, Age, EtaStep, EtaComes, User, SetDone, Cancel, Requeue, Commit,
              runnerVars
<1>4. RunnerFailure => Kept
  BY DEF RunnerFailure, CloseDatabases
<1>5. ((\E j \in Job : LoseRequest(j)) \/ UNCHANGED vars) => Kept
  BY DEF LoseRequest, vars, tableVars, runnerVars
<1>6. ASSUME NEW w \in Worker, WorkerCrash(w), UNCHANGED runnerVars
      PROVE  Kept
  BY <1>6 DEF WorkerCrash, Abort, runnerVars
<1> QED
  BY <1>1, <1>2, <1>3, <1>4, <1>5, <1>6, NextCases

(* A row changes with a notification, and a notification is only taken to  *)
(* read the row again.                                                     *)
LEMMA RunnerAgreesStep ==
  ASSUME TypeOK, ListenInv, EmptyInv, RunnerAgrees, [Next]_vars
  PROVE  RunnerAgrees'
<1> USE DEF TypeOK, RunnerAgrees
<1>1. RowsTold /\ ListenInv'
  BY RowsToldStep, ListenInvStep
<1>2. ASSUME phase' = "down"
      PROVE  RunnerAgrees'
  BY <1>2
<1>3. ASSUME notified \subseteq notified', UNCHANGED <<phase, mem>>
      PROVE  RunnerAgrees'
  BY <1>1, <1>3 DEF RowsTold, ListenInv
<1>4. CASE Runner
  <2>1. CASE Listen
    BY <2>1 DEF Listen
  <2>2. CASE LoadJobs
    BY <2>2 DEF LoadJobs, tableVars, PlaceOnNotify, PlaceOf, NotDone, Busy, TableTypeOK, States
  <2>3. CASE RequeueDeadJobs
    <3>1. /\ phase = "requeue" /\ phase' = "notify" /\ UNCHANGED mem
          /\ notified \subseteq notified'
      BY <2>3 DEF RequeueDeadJobs, Commit
    <3> QED
      BY <1>1, <3>1 DEF RowsTold, ListenInv
  <2>4. CASE NotificationsDone \/ WaitNotification
    BY <2>4 DEF NotificationsDone, WaitNotification, tableVars
  <2>5. ASSUME NEW j \in Job, ProcessNotification(j)
        PROVE  RunnerAgrees'
    <3>1. state[j] # "wait_dependencies" =>
            PlaceOnNotify(j, state[j], eta[j]) = PlaceOf(state[j])
      BY DEF PlaceOnNotify, PlaceOf, Busy, TableTypeOK, States
    <3> QED
      BY <2>5, <3>1 DEF ProcessNotification, RunnerTypeOK
  <2>6. ASSUME NEW j \in Job, RunJobs(j)
        PROVE  RunnerAgrees'
    <3>1. notified' = notified \cup {j}
      BY <2>6 DEF RunJobs, SendRequest, Commit, ListenInv
    <3>2. \A i \in Job \ {j} : state'[i] = state[i] /\ mem'[i] = mem[i]
      BY <2>6 DEF RunJobs, SendRequest, TableTypeOK, RunnerTypeOK
    <3> QED
      BY <2>6, <3>1, <3>2 DEF RunJobs, SendRequest
  <2> QED
    BY <1>4, <2>1, <2>2, <2>3, <2>4, <2>5, <2>6 DEF Runner, RunnerStep
<1> QED
  BY <1>2, <1>3, <1>4, NotificationsKept

(* The channels of a runner agree with every row whose notifications are   *)
(* all processed, unless the job waits for its dependencies.               *)
THEOREM RunnerKnowsRows == Spec => []RunnerAgrees
<1>1. Init => ListenInv /\ RunnerAgrees
  BY DEF Init, TableInit, RunnerInit, ListenInv, RunnerAgrees
<1>2. EmptyInv /\ TypeOK /\ (ListenInv /\ RunnerAgrees) /\ [Next]_vars
        => (ListenInv /\ RunnerAgrees)'
  BY ListenInvStep, RunnerAgreesStep
<1>3. CapacityInv => EmptyInv
  BY DEF CapacityInv
<1> QED
  BY <1>1, <1>2, <1>3, CapacityInvariant, TypeCorrect, PTL DEF Spec

-----------------------------------------------------------------------------
(* Jobs that are over.                                                      *)

(* The rows enqueue_waiting has read, and whose snapshot is current, wait. *)
DependentsInv ==
  \A w \in Worker : pc[w] = "releasing" =>
    \A c \in dependents[w] : w \in current[c] => state[c] = "wait_dependencies"

(* Rows become dependents in ReadDependents, which reads them, and only a  *)
(* change of the row ends their waiting.                                   *)
LEMMA DependentsInvStep ==
  ASSUME TypeOK, DependentsInv, [Next]_vars
  PROVE  DependentsInv'
<1> USE DEF TypeOK, TableTypeOK, WorkerTypeOK, DependentsInv
<1> DEFINE Stays(w) == pc'[w] = "releasing" =>
                         /\ pc[w] = "releasing" /\ dependents'[w] = dependents[w]
                         /\ \A c \in Job : w \in current'[c] => w \in current[c]
<1>1. RowsTold
  BY RowsToldStep
<1>2. ASSUME NEW w \in Worker, Stays(w), pc'[w] = "releasing",
             NEW c \in dependents'[w], w \in current'[c]
      PROVE  state'[c] = "wait_dependencies"
  <2>1. /\ pc[w] = "releasing" /\ c \in dependents[w] /\ c \in Job
        /\ w \in current[c]
    BY <1>2
  <2> QED
    BY <1>1, <1>2, <2>1 DEF RowsTold
<1>3. ASSUME \A w \in Worker : Stays(w)
      PROVE  DependentsInv'
  <2> HIDE DEF Stays
  <2> QED
    BY <1>2, <1>3
<1>4. ASSUME UNCHANGED workerVars, \A j \in Job : current'[j] \subseteq current[j]
      PROVE  DependentsInv'
  BY <1>3, <1>4 DEF workerVars
<1>5. Runner => DependentsInv'
  <2>1. Runner => \A j \in Job : current'[j] \subseteq current[j]
    BY DEF Runner, RunnerStep, Listen, LoadJobs, RequeueDeadJobs, NotificationsDone,
           WaitNotification, ProcessNotification, RunJobs, Commit, tableVars
  <2> QED
    BY <1>4, <2>1 DEF Runner
<1>6. ASSUME NEW v \in Worker, Perform(v)
      PROVE  DependentsInv'
  <2>1. CASE ReadDependents(v)
    <3>1. ASSUME NEW w \in Worker \ {v}
          PROVE  Stays(w)
      BY <2>1 DEF ReadDependents
    <3>2. ASSUME NEW c \in dependents'[v]
          PROVE  state'[c] = "wait_dependencies"
      BY <2>1, <3>2 DEF ReadDependents, DependentJobs
    <3> HIDE DEF Stays
    <3> QED
      BY <1>2, <3>1, <3>2
  <2>2. CASE LockRead(v)
    BY <1>3, <2>2 DEF LockRead, Goto
  <2>3. CASE LockGrant(v) \/ PerformIgnoreRetry(v)
    BY <1>3, <2>3 DEF LockGrant, PerformIgnoreRetry, Goto, tableVars
  <2>4. CASE PerformDone(v)
    BY <1>3, <2>4 DEF PerformDone, GotoTried, Commit
  <2>5. CASE PerformRetry(v) \/ PerformError(v)
    BY <1>3, <2>5 DEF PerformRetry, PerformError, GotoTried, tableVars
  <2>6. CASE Postpone(v) \/ StoreFailed(v)
    BY <1>3, <2>6 DEF Postpone, StoreFailed, Goto, Commit
  <2>7. CASE NothingToDoConflict(v) \/ Rollback(v) \/ DependentsConflict(v)
    BY <1>3, <2>7 DEF NothingToDoConflict, Rollback, DependentsConflict, EndRequest, Abort,
                      DropSnapshot
  <2>8. CASE ReleaseDependents(v)
    BY <1>3, <2>8 DEF ReleaseDependents, EndRequest, Commit
  <2>9. CASE StoreConflict(v) \/ PerformConflict(v) \/ PerformAbort(v)
    BY <1>3, <2>9 DEF StoreConflict, PerformConflict, PerformAbort, GotoTried, Abort,
                      DropSnapshot
  <2> QED
    BY <1>6, <2>1, <2>2, <2>3, <2>4, <2>5, <2>6, <2>7, <2>8, <2>9 DEF Perform, WorkerStep
<1>7. ASSUME NEW v \in Worker, NEW j \in Job, Serve(v, j)
      PROVE  DependentsInv'
  <2>1. CASE Start(v, j)
    BY <1>3, <2>1 DEF Start, Load, AddLockRecord, Commit
  <2>2. CASE Refuse(v, j)
    BY <1>3, <2>2 DEF Refuse, workerVars, tableVars
  <2> QED
    BY <1>7, <2>1, <2>2 DEF Serve
<1>8. ASSUME NEW j \in Job, AgeStep(j) \/ EtaStep(j) \/ User(j)
      PROVE  DependentsInv'
  <2>1. \A i \in Job : current'[i] \subseteq current[i]
    BY <1>8 DEF AgeStep, Age, EtaStep, EtaComes, User, SetDone, Cancel, Requeue, Commit
  <2>2. CASE EtaStep(j)
    BY <1>3, <2>1, <2>2 DEF EtaStep, EtaReadComes
  <2> QED
    BY <1>4, <1>8, <2>1, <2>2 DEF AgeStep, User
<1>9. RunnerFailure /\ UNCHANGED workerVars => DependentsInv'
  BY <1>4 DEF RunnerFailure, CloseDatabases
<1>10. ASSUME NEW j \in Job, LoseRequest(j), UNCHANGED workerVars
       PROVE  DependentsInv'
  BY <1>4, <1>10 DEF LoseRequest, tableVars
<1>11. ASSUME NEW v \in Worker, WorkerCrash(v)
       PROVE  DependentsInv'
  BY <1>3, <1>11 DEF WorkerCrash, EndRequest, Abort, DropSnapshot
<1>12. UNCHANGED vars => DependentsInv'
  BY <1>4 DEF vars, tableVars
<1> QED
  BY <1>5, <1>6, <1>7, <1>8, <1>9, <1>10, <1>11, <1>12, NextCases

(* A job that is over is brought back by a user, by a runner that has yet  *)
(* to hear of it, or by a worker that had started it: the channels of the  *)
(* runner agree with the rows it has heard of (set_job_enqueued), the      *)
(* dead jobs are busy ones (requeue_dead_jobs), and enqueue_waiting        *)
(* conflicts with any change of the rows it has read.                      *)
THEOREM OnlyLateBringBack == Spec => BroughtBackOnlyLate
<1> DEFINE Excused(j) ==
             \/ Requeue(j)
             \/ state'[j] = "enqueued" /\ j \in notified
             \/ \E w \in Worker : /\ job[w] = j /\ pc[w] \in {"postponing", "failing"}
                                   /\ pc'[w] = "closing"
           Back ==
             \A j \in Job :
               state[j] \in {"done", "cancelled"} /\ state'[j] \notin {"done", "cancelled"} =>
                 Excused(j)
<1>1. TypeOK /\ DependentsInv /\ RunnerAgrees /\ [Next]_vars => [Back]_vars
  <2> SUFFICES ASSUME TypeOK, DependentsInv, RunnerAgrees, [Next]_vars,
                      NEW j \in Job, state[j] \in {"done", "cancelled"},
                      state'[j] \notin {"done", "cancelled"}
               PROVE  Excused(j)
    OBVIOUS
  <2> USE DEF TypeOK, TableTypeOK, WorkerTypeOK
  <2>1. state'[j] # state[j] /\ state[j] # "wait_dependencies" /\ state[j] \notin Busy
    BY DEF Busy
  <2>2. CASE Runner
    <3>1. ASSUME NEW i \in Job, RunJobs(i)
          PROVE  Excused(j)
      <4>1. i = j /\ mem[j] = "queued" /\ phase = "run" /\ state'[j] = "enqueued"
        BY <2>1, <3>1 DEF RunJobs, SendRequest, Due
      <4>2. j \in notified
        BY <2>1, <4>1 DEF RunnerAgrees, PlaceOf
      <4> QED
        BY <4>1, <4>2
    <3>2. ~ RequeueDeadJobs
      BY <2>1 DEF RequeueDeadJobs, DeadJobs
    <3> HIDE DEF Excused
    <3> QED
      BY <2>1, <2>2, <3>1, <3>2
      DEF Runner, RunnerStep, Listen, LoadJobs, NotificationsDone, WaitNotification,
          ProcessNotification, tableVars
  <2>3. ASSUME NEW v \in Worker, Perform(v)
        PROVE  Excused(j)
    <3>1. CASE Postpone(v)
      <4>1. j = job[v] /\ pc[v] = "postponing" /\ pc'[v] = "closing"
        BY <2>1, <3>1 DEF Postpone, Goto
      <4> QED
        BY <4>1
    <3>2. CASE StoreFailed(v)
      <4>1. j = job[v] /\ pc[v] = "failing" /\ pc'[v] = "closing"
        BY <2>1, <3>2 DEF StoreFailed, Goto
      <4> QED
        BY <4>1
    <3>3. ~ PerformDone(v)
      BY <2>1 DEF PerformDone
    <3>4. ~ ReleaseDependents(v)
      <4> SUFFICES ASSUME ReleaseDependents(v)
                   PROVE  FALSE
        OBVIOUS
      <4>1. j \in dependents[v] /\ v \in current[j] /\ pc[v] = "releasing"
        BY <2>1 DEF ReleaseDependents, Put
      <4> QED
        BY <2>1, <4>1 DEF DependentsInv
    <3>5. (\/ LockRead(v) \/ LockGrant(v) \/ StoreConflict(v) \/ NothingToDoConflict(v)
           \/ PerformRetry(v) \/ PerformIgnoreRetry(v) \/ PerformConflict(v)
           \/ PerformError(v) \/ PerformAbort(v) \/ Rollback(v) \/ ReadDependents(v)
           \/ DependentsConflict(v))
          => UNCHANGED state
      BY DEF LockRead, LockGrant, StoreConflict, NothingToDoConflict, PerformRetry,
             PerformIgnoreRetry, PerformConflict, PerformError, PerformAbort, Rollback,
             ReadDependents, DependentsConflict, Abort, tableVars
    <3> HIDE DEF Excused
    <3> QED
      BY <2>1, <2>3, <3>1, <3>2, <3>3, <3>4, <3>5 DEF Perform, WorkerStep
  <2>4. ASSUME NEW v \in Worker, NEW i \in Job, Serve(v, i)
        PROVE  Excused(j)
    BY <2>1, <2>4 DEF Serve, Start, Load, AddLockRecord, Refuse, tableVars, Busy
  <2>5. ASSUME NEW i \in Job, User(i)
        PROVE  Excused(j)
    <3>1. ~ SetDone(i)
      BY <2>1 DEF SetDone, Put, DependentJobs
    <3>2. ~ Cancel(i)
      BY <2>1 DEF Cancel, Put, DependentJobs
    <3>3. Requeue(i) => i = j
      BY <2>1 DEF Requeue
    <3> QED
      BY <2>5, <3>1, <3>2, <3>3 DEF User
  <2>6. ASSUME NEW i \in Job, AgeStep(i) \/ EtaStep(i)
        PROVE  UNCHANGED state
    BY <2>6 DEF AgeStep, Age, EtaStep, EtaComes
  <2>7. (\/ RunnerFailure \/ (\E i \in Job : LoseRequest(i))
         \/ (\E w \in Worker : WorkerCrash(w)) \/ UNCHANGED vars) => UNCHANGED state
    BY DEF RunnerFailure, CloseDatabases, LoseRequest, WorkerCrash, Abort, vars, tableVars
  <2> HIDE DEF Excused
  <2> QED
    BY <2>1, <2>2, <2>3, <2>4, <2>5, <2>6, <2>7, NextCases
<1>2. Init => DependentsInv
  BY DEF Init, WorkerInit, DependentsInv
<1> QED
  BY <1>1, <1>2, DependentsInvStep, RunnerKnowsRows, TypeCorrect, PTL
  DEF Spec, BroughtBackOnlyLate

-----------------------------------------------------------------------------
(* The job queue implements WorkQueue: the initial states map to its       *)
(* initial state, and every step to a step of it or to a stutter.          *)

(* What WorkQueue sees of the state.                                       *)
Performed == {<<job[w], w>> : w \in {v \in Worker : pc[v] = "running"}}

Completed == {w \in Worker : pc[w] \in {"depends", "releasing"}}

PromisedStep == [Promise!Next]_(Promise!vars)

-----------------------------------------------------------------------------
(* The cardinality WorkQueue counts its tasks with is the one of JobRunner. *)
LEMMA SameCardinality == \A S : Promise!Cardinality(S) = Cardinality(S)
BY DEF Promise!Cardinality, Cardinality

(* A step that only takes busy jobs away.                                  *)
LEMMA GivesBack ==
  ASSUME BusyJobs' \subseteq BusyJobs, Performed' = Performed, Completed' = Completed
  PROVE  PromisedStep
BY DEF PromisedStep, Promise!Next, Promise!GiveBack, BusyJobs, Performed, Completed

(* The worker w stays where it is for WorkQueue.                           *)
LEMMA StaysPut ==
  ASSUME WorkerTypeOK, NEW w \in Worker, NEW step, pc' = [pc EXCEPT ![w] = step],
         pc[w] # "running", step # "running",
         pc[w] \in {"depends", "releasing"} <=> step \in {"depends", "releasing"},
         \A v \in Worker \ {w} : job'[v] = job[v]
  PROVE  Performed' = Performed /\ Completed' = Completed
<1>1. \A v \in Worker : pc'[v] = "running" <=> pc[v] = "running"
  BY DEF WorkerTypeOK
<1>2. \A v \in Worker : pc[v] = "running" => job'[v] = job[v]
  OBVIOUS
<1>3. Completed' = Completed
  BY DEF Completed, WorkerTypeOK
<1>4. Performed' = Performed
  BY <1>1, <1>2 DEF Performed
<1> QED
  BY <1>3, <1>4

(* The worker w leaves Job.perform without having completed its job.       *)
LEMMA Abandons ==
  ASSUME WorkerTypeOK, NEW w \in Worker, NEW step, pc' = [pc EXCEPT ![w] = step],
         pc[w] = "running", step \notin {"running", "depends", "releasing"},
         \A v \in Worker \ {w} : job'[v] = job[v],
         UNCHANGED state
  PROVE  PromisedStep
<1>1. \A v \in Worker : pc'[v] = "running" <=> v # w /\ pc[v] = "running"
  BY DEF WorkerTypeOK
<1>2. Performed' = Performed \ {<<job[w], w>>}
  BY <1>1 DEF Performed
<1>3. Completed' = Completed
  BY DEF Completed, WorkerTypeOK
<1>4. job[w] \in Job /\ <<job[w], w>> \in Performed
  BY DEF WorkerTypeOK, Performed
<1>5. Promise!Abandon(job[w], w)
  BY <1>2, <1>3, <1>4 DEF Promise!Abandon, Performed, Completed
<1> QED
  BY <1>4, <1>5 DEF PromisedStep, Promise!Next
(* Nothing happens to the workers.                                         *)
LEMMA WorkersApart ==
  ASSUME UNCHANGED <<pc, job>>
  PROVE  Performed' = Performed /\ Completed' = Completed
BY DEF Performed, Completed

-----------------------------------------------------------------------------
(* set_job_enqueued takes a job within the capacity, which the runner      *)
(* knows by its channels; the other steps of the runner take none.         *)
LEMMA RunnerImplements ==
  ASSUME TypeOK, CapacityInv, Runner
  PROVE  PromisedStep
<1>1. Performed' = Performed /\ Completed' = Completed
  BY WorkersApart DEF Runner, workerVars
<1>2. ASSUME NEW j \in Job, RunJobs(j)
      PROVE  PromisedStep
  <2>1. BusyJobs' = BusyJobs \cup {j}
    BY <1>2 DEF RunJobs, SendRequest, BusyJobs, Busy, TypeOK, TableTypeOK
  <2>2. CASE j \in BusyJobs
    BY <1>1, <2>1, <2>2, GivesBack
  <2>3. CASE j \notin BusyJobs
    <3>1. BusyJobs \subseteq RunningJobs /\ RunningJobs \in SUBSET Job
      BY <1>2 DEF RunJobs, SendRequest, CapacityInv, BusyKnownInv, Loaded, RunningJobs
    <3>2. Cardinality(RunningJobs) < Capacity
      BY <1>2 DEF RunJobs, SendRequest, HasCapacity, RunningJobs
    <3>3. Cardinality(BusyJobs) < Capacity
      BY <3>1, <3>2, JobSubset, CapacityAssumption
    <3>4. Promise!Take(j)
      BY <1>1, <2>1, <2>3, <3>3, SameCardinality
      DEF Promise!Take, BusyJobs, Performed, Completed
    <3> QED
      BY <3>4 DEF PromisedStep, Promise!Next
  <2> QED
    BY <2>2, <2>3
<1>3. (Listen \/ LoadJobs \/ NotificationsDone \/ WaitNotification
        \/ \E j \in Job : ProcessNotification(j)) => UNCHANGED state
  BY DEF Listen, LoadJobs, NotificationsDone, WaitNotification, ProcessNotification, tableVars
<1>4. UNCHANGED state => BusyJobs' \subseteq BusyJobs
  BY DEF BusyJobs
<1>5. RequeueDeadJobs => BusyJobs' \subseteq BusyJobs
  BY DEF RequeueDeadJobs, BusyJobs, Busy
<1> QED
  BY <1>1, <1>2, <1>3, <1>4, <1>5, GivesBack DEF Runner, RunnerStep

(* Job.lock lets a worker begin when no other performs the job.            *)
LEMMA LockGrantImplements ==
  ASSUME TypeOK, LockInv, NEW w \in Worker, LockGrant(w)
  PROVE  PromisedStep
<1> USE DEF TypeOK, WorkerTypeOK
<1>1. pc[w] = "locking" /\ job[w] \in Job /\ lockedBy[job[w]] = NoWorker
  BY DEF LockGrant
<1>2. pc' = [pc EXCEPT ![w] = "running"] /\ UNCHANGED <<job, state>>
  BY DEF LockGrant, Goto
<1>3. \A v \in Worker : pc'[v] = "running" <=> v = w \/ pc[v] = "running"
  BY <1>2
<1>4. Performed' = Performed \cup {<<job[w], w>>}
  BY <1>2, <1>3 DEF Performed
<1>5. Completed' = Completed /\ w \notin Completed
  BY <1>1, <1>2 DEF Completed
<1>6. \A other \in Performed : other[1] # job[w] /\ other[2] # w
  <2> SUFFICES ASSUME NEW v \in Worker, pc[v] = "running"
               PROVE  job[v] # job[w] /\ v # w
    BY DEF Performed
  <2> QED
    BY <1>1, WorkerAssumption DEF LockInv
<1>7. Promise!Begin(job[w], w)
  BY <1>2, <1>4, <1>5, <1>6 DEF Promise!Begin, Performed, Completed
<1> QED
  BY <1>1, <1>7 DEF PromisedStep, Promise!Next

(* set_done is committed over the started row, and its job is given back.  *)
LEMMA PerformDoneImplements ==
  ASSUME TypeOK, SnapshotInv, NEW w \in Worker, PerformDone(w)
  PROVE  PromisedStep
<1> USE DEF TypeOK, WorkerTypeOK, TableTypeOK
<1>1. pc[w] = "running" /\ job[w] \in Job /\ state[job[w]] = "started"
  BY DEF PerformDone, SnapshotInv
<1>2. /\ pc' = [pc EXCEPT ![w] = "depends"]
      /\ state' = [state EXCEPT ![job[w]] = "done"]
      /\ UNCHANGED job
  BY DEF PerformDone, GotoTried
<1>3. \A v \in Worker : pc'[v] = "running" <=> v # w /\ pc[v] = "running"
  BY <1>2
<1>4. Performed' = Performed \ {<<job[w], w>>} /\ <<job[w], w>> \in Performed
  BY <1>1, <1>2, <1>3 DEF Performed
<1>5. Completed' = Completed \cup {w}
  BY <1>2 DEF Completed
<1>6. BusyJobs' = BusyJobs \ {job[w]} /\ job[w] \in BusyJobs
  BY <1>1, <1>2 DEF BusyJobs, Busy
<1>7. Promise!Complete(job[w], w)
  BY <1>4, <1>5, <1>6 DEF Promise!Complete, Performed, Completed, BusyJobs
<1> QED
  BY <1>1, <1>7 DEF PromisedStep, Promise!Next

(* A worker that has completed its job leaves, having released the waiting *)
(* dependents or not.                                                      *)
LEMMA Leaves ==
  ASSUME WorkerTypeOK, NEW w \in Worker, EndRequest(w), pc[w] \in {"depends", "releasing"},
         BusyJobs' \subseteq BusyJobs
  PROVE  PromisedStep
<1> USE DEF WorkerTypeOK
<1>1. pc' = [pc EXCEPT ![w] = "idle"] /\ \A v \in Worker \ {w} : job'[v] = job[v]
  BY DEF EndRequest
<1>2. \A v \in Worker : pc'[v] = "running" <=> pc[v] = "running"
  BY <1>1
<1>3. Performed' = Performed
  BY <1>1, <1>2 DEF Performed
<1>4. Completed' = Completed \ {w} /\ w \in Completed
  BY <1>1 DEF Completed
<1>5. Promise!Leave(w)
  BY <1>3, <1>4 DEF Promise!Leave, Performed, Completed, BusyJobs
<1> QED
  BY <1>5 DEF PromisedStep, Promise!Next

(* A worker whose transaction ends without a change of the table.          *)
LEMMA EndRequestImplements ==
  ASSUME TypeOK, NEW w \in Worker, EndRequest(w), UNCHANGED state
  PROVE  PromisedStep
<1> USE DEF TypeOK
<1>1. pc' = [pc EXCEPT ![w] = "idle"] /\ \A v \in Worker \ {w} : job'[v] = job[v]
  BY DEF EndRequest, WorkerTypeOK
<1>2. BusyJobs' \subseteq BusyJobs
  BY DEF BusyJobs
<1>3. CASE pc[w] = "running"
  BY <1>1, <1>3, Abandons
<1>4. CASE pc[w] \in {"depends", "releasing"}
  BY <1>2, <1>4, Leaves
<1>5. CASE pc[w] \notin {"running", "depends", "releasing"}
  BY <1>1, <1>2, <1>5, StaysPut, GivesBack
<1> QED
  BY <1>3, <1>4, <1>5

(* Every step of a worker.                                                 *)
LEMMA PerformImplements ==
  ASSUME TypeOK, LockInv, SnapshotInv, NEW w \in Worker, Perform(w)
  PROVE  PromisedStep
<1> USE DEF TypeOK
<1>0. UNCHANGED state => BusyJobs' \subseteq BusyJobs
  BY DEF BusyJobs
<1>1. CASE LockRead(w)
  <2>1. PICK step \in {"locking", "postponing"} : Goto(w, step)
    BY <1>1 DEF LockRead
  <2>2. pc[w] = "starting" /\ UNCHANGED state
    BY <1>1 DEF LockRead
  <2>3. pc' = [pc EXCEPT ![w] = step] /\ job' = job
    BY <2>1 DEF Goto
  <2> QED
    BY <1>0, <2>2, <2>3, StaysPut, GivesBack
<1>2. CASE LockGrant(w)
  BY <1>2, LockGrantImplements
<1>3. CASE PerformDone(w)
  BY <1>3, PerformDoneImplements
<1>4. CASE \/ StoreConflict(w) \/ PerformRetry(w) \/ PerformIgnoreRetry(w)
           \/ PerformConflict(w) \/ PerformError(w) \/ PerformAbort(w)
  <2>1. \E step \in {"postponing", "failing"} : pc' = [pc EXCEPT ![w] = step]
    BY <1>4 DEF StoreConflict, PerformRetry, PerformIgnoreRetry, PerformConflict, PerformError,
                PerformAbort, Goto, GotoTried
  <2>2. pc[w] = "running" /\ UNCHANGED <<state, job>>
    BY <1>4 DEF StoreConflict, PerformRetry, PerformIgnoreRetry, PerformConflict, PerformError,
                PerformAbort, Goto, GotoTried, Abort, tableVars
  <2> QED
    BY <2>1, <2>2, Abandons
<1>5. CASE NothingToDoConflict(w) \/ Rollback(w) \/ DependentsConflict(w)
  BY <1>5, EndRequestImplements DEF NothingToDoConflict, Rollback, DependentsConflict, Abort
<1>6. CASE Postpone(w) \/ StoreFailed(w)
  <2>1. /\ pc[w] \in {"postponing", "failing"}
        /\ pc' = [pc EXCEPT ![w] = "closing"] /\ UNCHANGED job
    BY <1>6 DEF Postpone, StoreFailed, Goto
  <2>2. BusyJobs' \subseteq BusyJobs
    BY <1>6 DEF Postpone, StoreFailed, BusyJobs, Busy, PendingState, TableTypeOK
  <2> QED
    BY <2>1, <2>2, StaysPut, GivesBack
<1>7. CASE ReadDependents(w)
  <2>1. /\ pc[w] = "depends" /\ pc' = [pc EXCEPT ![w] = "releasing"]
        /\ UNCHANGED <<job, state>>
    BY <1>7 DEF ReadDependents
  <2> QED
    BY <1>0, <2>1, StaysPut, GivesBack
<1>8. CASE ReleaseDependents(w)
  <2>1. BusyJobs' \subseteq BusyJobs
    BY <1>8 DEF ReleaseDependents, Put, BusyJobs, Busy, TableTypeOK
  <2> QED
    BY <1>8, <2>1, Leaves DEF ReleaseDependents
<1> QED
  BY <1>1, <1>2, <1>3, <1>4, <1>5, <1>6, <1>7, <1>8 DEF Perform, WorkerStep

(* Every step of the system is a step of the queue it promises.            *)
LEMMA StepImplements ==
  ASSUME TypeOK, LockInv, SnapshotInv, CapacityInv, [Next]_vars
  PROVE  PromisedStep
<1> USE DEF TypeOK
<1>1. ASSUME BusyJobs' \subseteq BusyJobs, UNCHANGED <<pc, job>>
      PROVE  PromisedStep
  BY <1>1, WorkersApart, GivesBack
<1>2. ASSUME NEW w \in Worker, NEW j \in Job, Serve(w, j)
      PROVE  PromisedStep
  <2>1. CASE Start(w, j)
    <3>1. /\ pc[w] = "idle" /\ pc' = [pc EXCEPT ![w] = "starting"]
          /\ \A v \in Worker \ {w} : job'[v] = job[v]
      BY <2>1 DEF Start, Load, AddLockRecord, WorkerTypeOK
    <3>2. BusyJobs' \subseteq BusyJobs
      BY <2>1 DEF Start, Load, AddLockRecord, BusyJobs, Busy, TableTypeOK
    <3> QED
      BY <3>1, <3>2, StaysPut, GivesBack
  <2>2. CASE Refuse(w, j)
    BY <1>1, <2>2 DEF Refuse, workerVars, tableVars, BusyJobs
  <2> QED
    BY <1>2, <2>1, <2>2 DEF Serve
<1>3. ASSUME NEW j \in Job, User(j)
      PROVE  PromisedStep
  <2>1. BusyJobs' \subseteq BusyJobs
    BY <1>3 DEF User, SetDone, Cancel, Requeue, Put, PendingState, BusyJobs, Busy, TableTypeOK
  <2> QED
    BY <1>1, <1>3, <2>1 DEF User, workerVars
<1>4. ASSUME NEW j \in Job, AgeStep(j) \/ EtaStep(j)
      PROVE  PromisedStep
  BY <1>1, <1>4 DEF AgeStep, Age, EtaStep, EtaComes, EtaReadComes, workerVars, BusyJobs
<1>5. ASSUME NEW w \in Worker, WorkerCrash(w)
      PROVE  PromisedStep
  BY <1>5, EndRequestImplements DEF WorkerCrash, Abort
<1>6. RunnerFailure /\ UNCHANGED workerVars => PromisedStep
  BY <1>1 DEF RunnerFailure, CloseDatabases, workerVars, BusyJobs
<1>7. ASSUME NEW j \in Job, LoseRequest(j), UNCHANGED workerVars
      PROVE  PromisedStep
  BY <1>1, <1>7 DEF LoseRequest, workerVars, tableVars, BusyJobs
<1>8. UNCHANGED vars => PromisedStep
  BY <1>1 DEF vars, workerVars, tableVars, BusyJobs
<1> QED
  BY <1>2, <1>3, <1>4, <1>5, <1>6, <1>7, <1>8, RunnerImplements, PerformImplements, NextCases

(* The job queue is a work queue with Capacity slots: jobs are taken       *)
(* within the capacity only, performed by one worker at a time, and        *)
(* completed only if still taken.                                          *)
THEOREM PromiseKept == Spec => KeepsPromise
<1>1. Init => Promise!Init
  BY DEF Init, TableInit, WorkerInit, PendingState, Busy, Promise!Init
<1>2. TypeOK /\ LockInv /\ SnapshotInv /\ CapacityInv /\ [Next]_vars
        => [Promise!Next]_(Promise!vars)
  BY StepImplements DEF PromisedStep
<1> QED
  BY <1>1, <1>2, TypeCorrect, LockInvariant, SnapshotInvariant, CapacityInvariant, PTL
  DEF Spec, KeepsPromise, Promise!Spec
=============================================================================
