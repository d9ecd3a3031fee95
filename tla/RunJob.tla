------------------------------- MODULE RunJob -------------------------------
(***************************************************************************)
(* The workers that serve /queue_job/runjob (controllers/main.py): each    *)
(* request runs RunJobController.runjob with the methods of Job (job.py)   *)
(* it calls, one step per transaction boundary.                            *)
(*                                                                         *)
(*   idle --Start--> starting --LockRead--> locking --LockGrant--> running *)
(*   running --PerformDone--> depends --ReadDependents--> releasing        *)
(*           --ReleaseDependents--> idle                                   *)
(*   starting or running --> postponing or failing --> closing --> idle    *)
(***************************************************************************)
EXTENDS QueueJobTable

CONSTANT
  Outcomes  \* what a job's method may do besides returning: raise a
            \* RetryableJobError ("retry", "ignore_retry"), meet a
            \* serialization error ("conflict"), raise NothingToDoJob
            \* ("nothing") or another exception ("error"), which may come
            \* from the database ("abort")

ASSUME OutcomesAssumption ==
  Outcomes \subseteq {"retry", "ignore_retry", "conflict", "nothing", "error", "abort"}

VARIABLES
  pc,          \* pc[w]: the next step of worker w
  job,         \* job[w]: the job w was asked to run
  tries,       \* tries[w]: Job.retry in the memory of w
  parentsDone, \* parentsDone[w]: what set_pending will find in Job.depends_on,
               \* which is read once, when the job starts, and then cached
  etaRead,     \* etaRead[w]: Job.eta in the memory of w
  dependents   \* dependents[w]: the rows enqueue_waiting is updating

workerVars == <<pc, job, tries, parentsDone, etaRead, dependents>>

Steps == {"idle", "starting", "locking", "running", "depends", "releasing",
          "postponing", "failing", "closing"}

-----------------------------------------------------------------------------
Goto(w, step) ==
  /\ pc' = [pc EXCEPT ![w] = step]
  /\ UNCHANGED <<job, tries, parentsDone, etaRead, dependents>>

(* Job.perform has counted one more try when it leaves. *)
GotoTried(w, step) ==
  /\ pc' = [pc EXCEPT ![w] = step]
  /\ tries' = [tries EXCEPT ![w] = Bump(job[w], @)]
  /\ UNCHANGED <<job, parentsDone, etaRead, dependents>>

(* The end of the request: its transaction releases the lock it holds.     *)
EndRequest(w) ==
  /\ pc' = [pc EXCEPT ![w] = "idle"]
  /\ job' = [job EXCEPT ![w] = NoJob]
  /\ tries' = [tries EXCEPT ![w] = 0]
  /\ parentsDone' = [parentsDone EXCEPT ![w] = FALSE]
  /\ etaRead' = [etaRead EXCEPT ![w] = "none"]
  /\ dependents' = [dependents EXCEPT ![w] = {}]

(* Mutant: the lock is left to nobody.                                     *)
LostLockMutant(w) ==
  lockedBy' = [j \in Job |-> IF lockedBy[j] = w THEN NoJob ELSE lockedBy[j]]

Unlock(w) ==
  lockedBy' = [j \in Job |-> IF lockedBy[j] = w THEN NoWorker ELSE lockedBy[j]]

DropSnapshot(w) == current' = [j \in Job |-> current[j] \ {w}]

-----------------------------------------------------------------------------
(* Job.load: what the row says is now in the memory of w.                  *)
Load(w, j) ==
  /\ job' = [job EXCEPT ![w] = j]
  /\ tries' = [tries EXCEPT ![w] = retry[j]]
  /\ parentsDone' = [parentsDone EXCEPT ![w] = ParentsDone(j)]
  /\ etaRead' = [etaRead EXCEPT ![w] = eta[j]]

(* INSERT INTO queue_job_lock ... ON CONFLICT DO NOTHING.                  *)
AddLockRecord(j) == lockRow' = lockRow \cup {j}

(* SELECT ... state = 'enqueued' FOR UPDATE finds the job: it is loaded,   *)
(* started and committed, with its lock row.                               *)
Start(w, j) ==
  /\ pc[w] = "idle"
  /\ state[j] = "enqueued"
  /\ pc' = [pc EXCEPT ![w] = "starting"]
  /\ Load(w, j)
  /\ state' = [state EXCEPT ![j] = "started"]
  /\ AddLockRecord(j)
  /\ Commit({j})
  /\ UNCHANGED <<dependents, retry, eta, aged, lockedBy>>

(* ... or not, and the request is over.                                    *)
Refuse(w, j) ==
  /\ pc[w] = "idle"
  /\ state[j] # "enqueued"
  /\ UNCHANGED <<workerVars, tableVars>>

(* Mutant: the lock row is wanted whatever the state of the job.           *)
StateIgnoredMutant(w) ==
  /\ pc[w] = "starting"
  /\ Goto(w, "locking")
  /\ current' = [current EXCEPT ![job[w]] = @ \cup {w}]
  /\ UNCHANGED <<state, retry, eta, aged, lockRow, lockedBy, listening, notified>>

(* Job.lock takes its snapshot: the lock row is wanted if the job is still *)
(* started in it, and the job is postponed otherwise.                      *)
LockRead(w) ==
  /\ pc[w] = "starting"
  /\ IF state[job[w]] = "started"
     THEN /\ Goto(w, "locking")
          /\ current' = [current EXCEPT ![job[w]] = @ \cup {w}]
     ELSE /\ Goto(w, "postponing")
          /\ UNCHANGED current
  /\ UNCHANGED <<state, retry, eta, aged, lockRow, lockedBy, listening, notified>>

(* Mutant: SELECT without FOR UPDATE.                                      *)
NoWaitMutant(w) ==
  /\ pc[w] = "locking"
  /\ lockedBy' = [lockedBy EXCEPT ![job[w]] = w]
  /\ Goto(w, "running")
  /\ UNCHANGED <<state, retry, eta, aged, lockRow, current, listening, notified>>

(* FOR UPDATE waits until no transaction holds the row, and goes on with   *)
(* the snapshot it has.                                                    *)
LockGrant(w) ==
  /\ pc[w] = "locking"
  /\ lockedBy[job[w]] = NoWorker
  /\ lockedBy' = [lockedBy EXCEPT ![job[w]] = w]
  /\ Goto(w, "running")
  /\ UNCHANGED <<state, retry, eta, aged, lockRow, current, listening, notified>>

(* Mutant: enqueue_waiting reads the parents before set_done is stored.    *)
EarlyDependentsMutant(w) ==
  /\ pc[w] = "running"
  /\ w \in current[job[w]]
  /\ state' = [state EXCEPT ![job[w]] = "done"]
  /\ retry' = [retry EXCEPT ![job[w]] = Bump(job[w], tries[w])]
  /\ KeepAged
  /\ Commit({job[w]})
  /\ Unlock(w)
  /\ dependents' = [dependents EXCEPT ![w] = DependentJobs(state, job[w], "done")]
  /\ pc' = [pc EXCEPT ![w] = "releasing"]
  /\ UNCHANGED <<job, tries, parentsDone, etaRead, eta, lockRow>>

(* The method returns, or raises NothingToDoJob: set_done is stored and    *)
(* committed with the effects of the method.                               *)
PerformDone(w) ==
  /\ pc[w] = "running"
  /\ w \in current[job[w]]
  /\ state' = [state EXCEPT ![job[w]] = "done"]
  /\ retry' = [retry EXCEPT ![job[w]] = Bump(job[w], tries[w])]
  /\ KeepAged
  /\ Commit({job[w]})
  /\ Unlock(w)
  /\ GotoTried(w, "depends")
  /\ UNCHANGED <<eta, lockRow>>

(* PostgreSQL aborts the transaction of a worker as soon as a statement    *)
(* fails: its locks are free before the worker knows.                      *)
Abort(w) ==
  /\ Unlock(w)
  /\ DropSnapshot(w)
  /\ UNCHANGED <<state, retry, eta, aged, lockRow, listening, notified>>

(* The method returns but the row of the job has changed: storing set_done *)
(* fails, and runjob turns the error into a RetryableJobError.             *)
StoreConflict(w) ==
  /\ pc[w] = "running"
  /\ w \notin current[job[w]]
  /\ GotoTried(w, "postponing")
  /\ Abort(w)

(* The same after NothingToDoJob: nobody catches the error, the            *)
(* transaction is rolled back and the row is left as it is.                *)
NothingToDoConflict(w) ==
  /\ "nothing" \in Outcomes
  /\ pc[w] = "running"
  /\ w \notin current[job[w]]
  /\ EndRequest(w)
  /\ Abort(w)

(* The method raises RetryableJobError: the job is postponed, unless its   *)
(* tries are exhausted.                                                    *)
PerformRetry(w) ==
  /\ "retry" \in Outcomes
  /\ pc[w] = "running"
  /\ IF MaxRetries[job[w]] > 0 /\ tries[w] + 1 >= MaxRetries[job[w]]
     THEN GotoTried(w, "failing") ELSE GotoTried(w, "postponing")
  /\ UNCHANGED tableVars

(* ... with ignore_retry, the try is not counted.                          *)
PerformIgnoreRetry(w) ==
  /\ "ignore_retry" \in Outcomes
  /\ pc[w] = "running"
  /\ Goto(w, "postponing")
  /\ UNCHANGED tableVars

(* A write of the method itself fails with a serialization error.          *)
PerformConflict(w) ==
  /\ "conflict" \in Outcomes
  /\ pc[w] = "running"
  /\ GotoTried(w, "postponing")
  /\ Abort(w)

(* The method raises any other exception ...                               *)
PerformError(w) ==
  /\ "error" \in Outcomes
  /\ pc[w] = "running"
  /\ GotoTried(w, "failing")
  /\ UNCHANGED tableVars

(* ... or meets any other error of the database.                           *)
PerformAbort(w) ==
  /\ "abort" \in Outcomes
  /\ pc[w] = "running"
  /\ GotoTried(w, "failing")
  /\ Abort(w)

(* retry_postpone stores the job as pending in a transaction of its own,   *)
(* whatever the state of its row.                                          *)
Postpone(w) ==
  /\ pc[w] = "postponing"
  /\ state' = [state EXCEPT ![job[w]] = PendingState(parentsDone[w])]
  /\ retry' = [retry EXCEPT ![job[w]] = tries[w]]
  /\ eta' = [eta EXCEPT ![job[w]] = "future"]
  /\ KeepAged
  /\ Commit({job[w]})
  /\ Goto(w, "closing")
  /\ UNCHANGED <<lockRow, lockedBy>>

(* set_failed is stored, with the eta the job had when it was loaded, in a *)
(* transaction of its own.                                                 *)
StoreFailed(w) ==
  /\ pc[w] = "failing"
  /\ state' = [state EXCEPT ![job[w]] = "failed"]
  /\ retry' = [retry EXCEPT ![job[w]] = tries[w]]
  /\ eta' = [eta EXCEPT ![job[w]] = etaRead[w]]
  /\ KeepAged
  /\ Commit({job[w]})
  /\ Goto(w, "closing")
  /\ UNCHANGED <<lockRow, lockedBy>>

(* The transaction of the request is rolled back, which frees the lock.    *)
Rollback(w) ==
  /\ pc[w] = "closing"
  /\ EndRequest(w)
  /\ Abort(w)

(* enqueue_waiting takes its snapshot, after the commit of set_done ...    *)
ReadDependents(w) ==
  /\ pc[w] = "depends"
  /\ LET ready == DependentJobs(state, job[w], "done")
     IN  /\ dependents' = [dependents EXCEPT ![w] = ready]
         /\ current' = [c \in Job |-> IF c \in ready THEN current[c] \cup {w}
                                      ELSE current[c]]
  /\ pc' = [pc EXCEPT ![w] = "releasing"]
  /\ UNCHANGED <<job, tries, parentsDone, etaRead, state, retry, eta, aged, lockRow,
                 lockedBy, listening, notified>>

(* ... and its update is committed at the end of the request ...           *)
ReleaseDependents(w) ==
  /\ pc[w] = "releasing"
  /\ \A c \in dependents[w] : w \in current[c]
  /\ state' = Put(state, dependents[w], "pending")
  /\ Commit(dependents[w])
  /\ EndRequest(w)
  /\ UNCHANGED <<retry, eta, aged, lockRow, lockedBy>>

(* ... unless one of the rows has changed: the update fails, and so do its *)
(* repetitions, in a transaction that is aborted.                          *)
DependentsConflict(w) ==
  /\ pc[w] = "releasing"
  /\ \E c \in dependents[w] : w \notin current[c]
  /\ EndRequest(w)
  /\ DropSnapshot(w)
  /\ UNCHANGED <<state, retry, eta, aged, lockRow, lockedBy, listening, notified>>

(* The worker is killed: PostgreSQL rolls its transaction back.            *)
WorkerCrash(w) ==
  /\ pc[w] # "idle"
  /\ EndRequest(w)
  /\ Abort(w)

(* The date eta of a job comes, for the workers that have loaded it.       *)
EtaReadComes(j) ==
  /\ etaRead' = [w \in Worker |-> IF job[w] = j /\ etaRead[w] = "future" THEN "past"
                                  ELSE etaRead[w]]
  /\ UNCHANGED <<pc, job, tries, parentsDone, dependents>>

WorkerInit ==
  /\ pc = [w \in Worker |-> "idle"]
  /\ job = [w \in Worker |-> NoJob]
  /\ tries = [w \in Worker |-> 0]
  /\ parentsDone = [w \in Worker |-> FALSE]
  /\ etaRead = [w \in Worker |-> "none"]
  /\ dependents = [w \in Worker |-> {}]

(* What a worker does by itself once it has started a job, its method      *)
(* coming to one end or another.                                           *)
WorkerStep(w) ==
  \/ LockRead(w) \/ LockGrant(w)
  \/ PerformDone(w) \/ StoreConflict(w) \/ NothingToDoConflict(w)
  \/ PerformRetry(w) \/ PerformIgnoreRetry(w) \/ PerformConflict(w)
  \/ PerformError(w) \/ PerformAbort(w)
  \/ Postpone(w) \/ StoreFailed(w) \/ Rollback(w)
  \/ ReadDependents(w) \/ ReleaseDependents(w) \/ DependentsConflict(w)

WorkerTypeOK ==
  /\ pc \in [Worker -> Steps]
  /\ job \in [Worker -> Job \cup {NoJob}]
  /\ \A w \in Worker : pc[w] # "idle" => job[w] \in Job
  /\ tries \in [Worker -> Nat]
  /\ parentsDone \in [Worker -> BOOLEAN]
  /\ etaRead \in [Worker -> Etas]
  /\ dependents \in [Worker -> SUBSET Job]
=============================================================================
