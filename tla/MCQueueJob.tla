---------------------------- MODULE MCQueueJob ----------------------------
(***************************************************************************)
(* Small instances of QueueJob.                                            *)
(***************************************************************************)
EXTENDS QueueJob, TLC

CONSTANTS j1, j2, j3, j4, w1, w2, w3

(* Two jobs that have nothing to do with each other.                       *)
FreeJobs == [j \in Job |-> {}]

(* Two parents of a third job, one of which has a child of its own.        *)
SharedChild == (j1 :> {}) @@ (j2 :> {}) @@ (j3 :> {j1, j2}) @@ (j4 :> {j2})

(* A group of two jobs before a third one.                                 *)
Group == (j1 :> {}) @@ (j2 :> {}) @@ (j3 :> {j1, j2})

OneRetry == [j \in Job |-> 1]

(* One job is retried for ever, the others once.                           *)
MixedRetries == [j \in Job |-> IF j = j1 THEN 0 ELSE 1]

WorkerSymmetry == Permutations(Worker)
=============================================================================
