--------------------------- MODULE QueueJobModel ---------------------------
(***************************************************************************)
(* What a user does to a job from its form or from the wizards over a      *)
(* selection of jobs (models/queue_job.py and wizards/): one transaction,  *)
(* which Odoo runs again if it meets a serialization error.                *)
(***************************************************************************)
EXTENDS QueueJobTable

(* queue.jobs.to.done and button_done: any job, and the jobs that only     *)
(* waited for it.                                                          *)
SetDone(j) ==
  LET done  == Put(state, {j}, "done")
      ready == DependentJobs(done, j, "done")
  IN  /\ state' = Put(done, ready, "pending")
      /\ KeepAged
      /\ Commit({j} \cup ready)
      /\ UNCHANGED <<retry, eta, lockRow, lockedBy>>

(* queue.jobs.to.cancelled and button_cancelled, and the waiting jobs all  *)
(* of whose parents are cancelled.                                         *)
Cancel(j) ==
  LET cancelled == Put(state, {j}, "cancelled")
      orphans   == DependentJobs(cancelled, j, "cancelled")
  IN  /\ state[j] \in {"pending", "failed", "enqueued"}
      /\ state' = Put(cancelled, orphans, "cancelled")
      /\ KeepAged
      /\ Commit({j} \cup orphans)
      /\ UNCHANGED <<retry, eta, lockRow, lockedBy>>

(* queue.requeue.job: any job that does not wait for its dependencies; its *)
(* retries are counted again from 0, and its eta stays.                    *)
Requeue(j) ==
  /\ state[j] # "wait_dependencies"
  /\ state' = [state EXCEPT ![j] = PendingState(ParentsDone(j))]
  /\ retry' = [retry EXCEPT ![j] = 0]
  /\ KeepAged
  /\ Commit({j})
  /\ UNCHANGED <<eta, lockRow, lockedBy>>
=============================================================================
